------------------------- MODULE InteractiveProofs -------------------------
(***************************************************************************)
(* Proofs about the modules an interactive session is composed of:         *)
(* History, for any number of sessions, commands and items; and the menu   *)
(* of LineEditor, with the theorems about the editor, for any keyboard,    *)
(* history and answers of the completion, and a console of any size.       *)
(***************************************************************************)
EXTENDS History, LineEditorProofs

-----------------------------------------------------------------------------
(***************************************************************************)
(* History.                                                                *)
(***************************************************************************)
-----------------------------------------------------------------------------
(***************************************************************************)
(* Picked and FlattenSeq, which are defined by recursion.                  *)
(***************************************************************************)
PickedBy(f, seq, positions) ==
  f = [n \in 0 .. Len(seq) |->
         IF n = 0 THEN <<>>
         ELSE IF n \in positions THEN Append(f[n - 1], seq[n]) ELSE f[n - 1]]

LEMMA PickedRecursion ==
  ASSUME NEW T, NEW seq \in Seq(T), NEW positions
  PROVE  \E f : /\ PickedBy(f, seq, positions)
                /\ Picked(seq, positions) = f[Len(seq)]
<1>. DEFINE step == [p \in Nat \X Seq(T) |->
                       IF p[1] + 1 \in positions /\ p[1] + 1 \in 1 .. Len(seq)
                       THEN Append(p[2], seq[p[1] + 1]) ELSE p[2]]
<1>1. step \in [Nat \X Seq(T) -> Seq(T)]
  <2>1. ASSUME NEW p \in Nat \X Seq(T), p[1] + 1 \in 1 .. Len(seq)
        PROVE  Append(p[2], seq[p[1] + 1]) \in Seq(T)
    <3>1. p[2] \in Seq(T) /\ seq[p[1] + 1] \in T
      BY <2>1
    <3>. QED
      BY <3>1, AppendProperties
  <2>. QED
    BY <2>1
<1>. DEFINE V == Seq(T)
            first == <<>>
<1>2. first \in V /\ step \in [Nat \X V -> V]
  BY <1>1
<1>. HIDE DEF step, V, first
<1>a. PICK f : Recursive(f, V, first, step)
  BY <1>2, Recursion
<1>3. f \in [Nat -> Seq(T)] /\ f[0] = <<>> /\ \A n \in Nat : f[n + 1] = step[<<n, f[n]>>]
  BY <1>a DEF Recursive, V, first
<1>. DEFINE g == [n \in 0 .. Len(seq) |-> f[n]]
<1>4. ASSUME NEW n \in 1 .. Len(seq)
      PROVE  g[n] = IF n \in positions THEN Append(g[n - 1], seq[n]) ELSE g[n - 1]
  <2>1. /\ n - 1 \in Nat /\ (n - 1) + 1 = n
        /\ n - 1 \in 0 .. Len(seq) /\ n \in 0 .. Len(seq)
    OBVIOUS
  <2>2. f[n] = step[<<n - 1, f[n - 1]>>]
    BY <2>1, <1>3
  <2>3. step[<<n - 1, f[n - 1]>>] =
          IF n \in positions THEN Append(f[n - 1], seq[n]) ELSE f[n - 1]
    <3>1. <<n - 1, f[n - 1]>> \in Nat \X Seq(T)
      BY <2>1, <1>3
    <3>. QED
      BY <3>1, <2>1 DEF step
  <2>. QED
    BY <2>1, <2>2, <2>3
<1>5. PickedBy(g, seq, positions)
  <2>1. Len(seq) \in Nat /\ 0 \in 0 .. Len(seq)
    BY LenProperties
  <2>2. g[0] = <<>>
    BY <2>1, <1>3
  <2>3. ASSUME NEW n \in 0 .. Len(seq)
        PROVE  g[n] = IF n = 0 THEN <<>>
                      ELSE IF n \in positions THEN Append(g[n - 1], seq[n]) ELSE g[n - 1]
    <3>1. n = 0 \/ n \in 1 .. Len(seq)
      BY <2>1
    <3>. QED
      BY <3>1, <2>2, <1>4
  <2>4. g = [n \in 0 .. Len(seq) |-> g[n]]
    OBVIOUS
  <2>. HIDE DEF g
  <2>. QED
    BY <2>3, <2>4 DEF PickedBy
<1>. DEFINE h == CHOOSE h : PickedBy(h, seq, positions)
<1>6. PickedBy(h, seq, positions)
  BY <1>5
<1>7. Picked(seq, positions) = h[Len(seq)]
  BY Zenon DEF Picked, PickedBy
<1>. HIDE DEF h
<1>. QED
  BY <1>6, <1>7

(* Every element that is picked stands at one of the positions.             *)
LEMMA PickedElements ==
  ASSUME NEW T, NEW seq \in Seq(T), NEW positions
  PROVE  /\ Picked(seq, positions) \in Seq(T)
         /\ \A k \in 1 .. Len(Picked(seq, positions)) :
              \E i \in positions \intersect 1 .. Len(seq) : Picked(seq, positions)[k] = seq[i]
<1>1. PICK f : PickedBy(f, seq, positions) /\ Picked(seq, positions) = f[Len(seq)]
  BY PickedRecursion
<1>. DEFINE Taken(s) == \A k \in 1 .. Len(s) : \E i \in positions \intersect 1 .. Len(seq) : s[k] = seq[i]
            S == {n \in Nat : n <= Len(seq) => f[n] \in Seq(T) /\ Taken(f[n])}
<1>2. Len(seq) \in Nat
  OBVIOUS
<1>3. 0 \in S
  <2>1. f[0] = <<>>
    BY <1>1, <1>2 DEF PickedBy
  <2>2. f[0] \in Seq(T) /\ Len(f[0]) = 0
    BY <2>1
  <2>3. Taken(f[0])
    BY <2>2
  <2>. QED
    BY <2>2, <2>3
<1>4. ASSUME NEW n \in Nat, n \in S
      PROVE  n + 1 \in S
  <2>. SUFFICES ASSUME n + 1 <= Len(seq)
                PROVE  f[n + 1] \in Seq(T) /\ Taken(f[n + 1])
    OBVIOUS
  <2>1. f[n] \in Seq(T) /\ Taken(f[n])
    BY <1>2, <1>4
  <2>2. f[n + 1] = IF n + 1 \in positions THEN Append(f[n], seq[n + 1]) ELSE f[n]
    <3>1. n + 1 \in 0 .. Len(seq) /\ n + 1 # 0 /\ (n + 1) - 1 = n
      BY <1>2
    <3>. QED
      BY <3>1, <1>1 DEF PickedBy
  <2>3. CASE n + 1 \notin positions
    BY <2>1, <2>2, <2>3
  <2>4. CASE n + 1 \in positions
    <3>1. n + 1 \in 1 .. Len(seq) /\ seq[n + 1] \in T
      BY <1>2
    <3>2. f[n + 1] = Append(f[n], seq[n + 1])
      BY <2>2, <2>4
    <3>. HIDE DEF Taken
    <3>3. /\ f[n + 1] \in Seq(T)
          /\ Len(f[n + 1]) = Len(f[n]) + 1
          /\ f[n + 1][Len(f[n]) + 1] = seq[n + 1]
          /\ \A k \in 1 .. Len(f[n]) : f[n + 1][k] = f[n][k]
      BY <3>1, <3>2, <2>1, AppendProperties
    <3>4. Len(f[n]) \in Nat
      BY <2>1
    <3>5. ASSUME NEW k \in 1 .. Len(f[n + 1])
          PROVE  \E i \in positions \intersect 1 .. Len(seq) : f[n + 1][k] = seq[i]
      <4>1. CASE k = Len(f[n]) + 1
        BY <4>1, <3>1, <3>3, <2>4
      <4>2. CASE k # Len(f[n]) + 1
        <5>1. k \in 1 .. Len(f[n])
          BY <4>2, <3>3, <3>4
        <5>2. f[n + 1][k] = f[n][k]
          BY <5>1, <3>3
        <5>3. \E i \in positions \intersect 1 .. Len(seq) : f[n][k] = seq[i]
          BY <5>1, <2>1 DEF Taken
        <5>. QED
          BY <5>2, <5>3
      <4>. QED
        BY <4>1, <4>2
    <3>. QED
      BY <3>3, <3>5 DEF Taken
  <2>. QED
    BY <2>3, <2>4
<1>. HIDE DEF S, Taken
<1>5. Nat \subseteq S
  BY <1>3, <1>4, Induction
<1>6. f[Len(seq)] \in Seq(T) /\ Taken(f[Len(seq)])
  BY <1>2, <1>5 DEF S
<1>. QED
  BY <1>1, <1>6 DEF Taken

FlattenedBy(f, seqs) ==
  f = [i \in 1 .. Len(seqs) |-> IF i = 1 THEN seqs[i] ELSE f[i - 1] \o seqs[i]]

LEMMA FlattenRecursion ==
  ASSUME NEW T, NEW seqs \in Seq(Seq(T)), seqs # <<>>
  PROVE  \E f : FlattenedBy(f, seqs) /\ FlattenSeq(seqs) = f[Len(seqs)]
<1>1. Len(seqs) \in Nat /\ Len(seqs) >= 1 /\ seqs[1] \in Seq(T)
  OBVIOUS
<1>. DEFINE V == Seq(T)
            first == seqs[1]
            step == [p \in Nat \X V |->
                       IF p[1] + 2 \in 1 .. Len(seqs) THEN p[2] \o seqs[p[1] + 2] ELSE p[2]]
<1>2. step \in [Nat \X V -> V]
  <2>1. ASSUME NEW p \in Nat \X V, p[1] + 2 \in 1 .. Len(seqs)
        PROVE  p[2] \o seqs[p[1] + 2] \in V
    <3>1. p[2] \in Seq(T) /\ seqs[p[1] + 2] \in Seq(T)
      BY <2>1
    <3>. QED
      BY <3>1, ConcatProperties
  <2>. QED
    BY <2>1
<1>3. first \in V
  BY <1>1
<1>. HIDE DEF step, V, first
<1>4. PICK f : Recursive(f, V, first, step)
  BY <1>2, <1>3, Recursion
<1>5. f \in [Nat -> V] /\ f[0] = seqs[1] /\ \A n \in Nat : f[n + 1] = step[<<n, f[n]>>]
  BY <1>4 DEF Recursive, first
<1>. DEFINE g == [i \in 1 .. Len(seqs) |-> f[i - 1]]
<1>6. ASSUME NEW i \in 1 .. Len(seqs)
      PROVE  g[i] = IF i = 1 THEN seqs[i] ELSE g[i - 1] \o seqs[i]
  <2>1. CASE i = 1
    BY <2>1, <1>5
  <2>2. CASE i # 1
    <3>1. /\ i - 2 \in Nat /\ (i - 2) + 1 = i - 1 /\ (i - 2) + 2 = i
          /\ i - 1 \in 1 .. Len(seqs) /\ (i - 1) - 1 = i - 2
      BY <2>2, <1>1
    <3>2. f[i - 1] = step[<<i - 2, f[i - 2]>>]
      BY <3>1, <1>5
    <3>3. step[<<i - 2, f[i - 2]>>] = f[i - 2] \o seqs[i]
      <4>1. <<i - 2, f[i - 2]>> \in Nat \X V
        BY <3>1, <1>5
      <4>. QED
        BY <4>1, <3>1 DEF step
    <3>. QED
      BY <2>2, <3>1, <3>2, <3>3
  <2>. QED
    BY <2>1, <2>2
<1>7. FlattenedBy(g, seqs)
  <2>1. g = [i \in 1 .. Len(seqs) |-> g[i]]
    OBVIOUS
  <2>. HIDE DEF g
  <2>. QED
    BY <1>6, <2>1 DEF FlattenedBy
<1>. DEFINE h == CHOOSE h : FlattenedBy(h, seqs)
<1>8. FlattenedBy(h, seqs)
  BY <1>7
<1>9. FlattenSeq(seqs) = h[Len(seqs)]
  <2>1. Len(seqs) # 0
    BY <1>1
  <2>. QED
    BY <2>1, Zenon DEF FlattenSeq, FlattenedBy
<1>. HIDE DEF h
<1>. QED
  BY <1>8, <1>9

LEMMA FlattenType ==
  ASSUME NEW T, NEW seqs \in Seq(Seq(T)), NEW f, FlattenedBy(f, seqs)
  PROVE  \A i \in 1 .. Len(seqs) : f[i] \in Seq(T)
<1>. DEFINE S == {n \in Nat : n + 1 \in 1 .. Len(seqs) => f[n + 1] \in Seq(T)}
<1>1. Len(seqs) \in Nat
  OBVIOUS
<1>2. 0 \in S
  BY <1>1 DEF FlattenedBy
<1>3. ASSUME NEW n \in Nat, n \in S
      PROVE  n + 1 \in S
  <2>. SUFFICES ASSUME (n + 1) + 1 \in 1 .. Len(seqs)
                PROVE  f[(n + 1) + 1] \in Seq(T)
    OBVIOUS
  <2>. DEFINE i == (n + 1) + 1
  <2>1. i \in 1 .. Len(seqs) /\ i # 1 /\ i - 1 = n + 1 /\ n + 1 \in 1 .. Len(seqs)
    BY <1>1
  <2>2. f[i - 1] \in Seq(T)
    BY <2>1, <1>3
  <2>. HIDE DEF i
  <2>3. f[i] = f[i - 1] \o seqs[i]
    BY <2>1 DEF FlattenedBy
  <2>4. f[i] \in Seq(T)
    BY <2>1, <2>2, <2>3, ConcatProperties
  <2>. QED
    BY <2>4 DEF i
<1>. HIDE DEF S
<1>4. Nat \subseteq S
  BY <1>2, <1>3, Induction
<1>. SUFFICES ASSUME NEW i \in 1 .. Len(seqs)
              PROVE  f[i] \in Seq(T)
  OBVIOUS
<1>5. i - 1 \in Nat /\ (i - 1) + 1 = i
  BY <1>1
<1>. QED
  BY <1>4, <1>5 DEF S

(* Of the sequences made of the first so many, the last appends its last.   *)
LEMMA FlattenAppend ==
  ASSUME NEW T, NEW seqs \in Seq(Seq(T)), NEW seq \in Seq(T)
  PROVE  FlattenSeq(Append(seqs, seq)) = FlattenSeq(seqs) \o seq
<1>. DEFINE more == Append(seqs, seq)
            last == Len(seqs) + 1
<1>1. Len(seqs) \in Nat
  OBVIOUS
<1>2. /\ more \in Seq(Seq(T)) /\ Len(more) = last /\ more[last] = seq
      /\ \A i \in 1 .. Len(seqs) : more[i] = seqs[i]
  <2>. DEFINE U == Seq(T)
  <2>1. seqs \in Seq(U) /\ seq \in U
    OBVIOUS
  <2>. HIDE DEF U
  <2>2. /\ more \in Seq(U) /\ Len(more) = last /\ more[last] = seq
        /\ \A i \in 1 .. Len(seqs) : more[i] = seqs[i]
    BY <2>1, AppendProperties
  <2>. QED
    BY <2>2 DEF U
<1>. HIDE DEF more
<1>3. more # <<>>
  <2>1. Len(more) # 0
    BY <1>1, <1>2
  <2>. QED
    BY <2>1
<1>4. PICK g : FlattenedBy(g, more) /\ FlattenSeq(more) = g[Len(more)]
  BY <1>2, <1>3, FlattenRecursion
<1>5. CASE seqs = <<>>
  <2>1. FlattenSeq(seqs) = <<>>
    BY <1>5 DEF FlattenSeq
  <2>2. FlattenSeq(more) = seq
    BY <1>2, <1>4, <1>5 DEF FlattenedBy
  <2>. QED
    BY <2>1, <2>2, ConcatEmptySeq DEF more
<1>6. CASE seqs # <<>>
  <2>1. PICK f : FlattenedBy(f, seqs) /\ FlattenSeq(seqs) = f[Len(seqs)]
    BY <1>6, FlattenRecursion
  <2>. DEFINE S == {n \in Nat : n + 1 \in 1 .. Len(seqs) => g[n + 1] = f[n + 1]}
  <2>2. 0 \in S
    BY <1>1, <1>2, <1>4, <2>1 DEF FlattenedBy
  <2>3. ASSUME NEW n \in Nat, n \in S
        PROVE  n + 1 \in S
    <3>. SUFFICES ASSUME (n + 1) + 1 \in 1 .. Len(seqs)
                  PROVE  g[(n + 1) + 1] = f[(n + 1) + 1]
      OBVIOUS
    <3>. DEFINE i == (n + 1) + 1
    <3>1. /\ i \in 1 .. Len(seqs) /\ i \in 1 .. last /\ i # 1
          /\ i - 1 = n + 1 /\ n + 1 \in 1 .. Len(seqs)
      BY <1>1
    <3>2. g[i - 1] = f[i - 1]
      BY <3>1, <2>3
    <3>. HIDE DEF i
    <3>3. g[i] = g[i - 1] \o more[i]
      BY <3>1, <1>2, <1>4 DEF FlattenedBy
    <3>4. f[i] = f[i - 1] \o seqs[i]
      BY <3>1, <2>1 DEF FlattenedBy
    <3>. QED
      BY <3>1, <3>2, <3>3, <3>4, <1>2 DEF i
  <2>. HIDE DEF S
  <2>4. Nat \subseteq S
    BY <2>2, <2>3, Induction
  <2>5. g[Len(seqs)] = f[Len(seqs)]
    <3>1. Len(seqs) - 1 \in Nat /\ (Len(seqs) - 1) + 1 = Len(seqs) /\ Len(seqs) \in 1 .. Len(seqs)
      BY <1>1, <1>6
    <3>. QED
      BY <3>1, <2>4 DEF S
  <2>6. g[last] = g[last - 1] \o more[last]
    <3>1. last \in 1 .. last /\ last # 1
      BY <1>1, <1>6
    <3>. QED
      BY <3>1, <1>2, <1>4 DEF FlattenedBy
  <2>7. last - 1 = Len(seqs)
    BY <1>1
  <2>. QED
    BY <2>1, <2>5, <2>6, <2>7, <1>2, <1>4 DEF more
<1>. QED
  BY <1>5, <1>6

-----------------------------------------------------------------------------
(***************************************************************************)
(* The inductive invariant.  The editor's copy: its first entries are the  *)
(* first items as long as the history has only been appended to, and all   *)
(* of them when nothing changed at all.                                    *)
(***************************************************************************)
CopyFollows(s) ==
  /\ ~changed[s] => ~rewritten[s] /\ Len(entries[s]) = Len(items[s])
  /\ ~rewritten[s] =>
       /\ Len(entries[s]) <= Len(items[s])
       /\ \A i \in 1 .. Len(entries[s]) : entries[s][i] = items[s][i].text

(***************************************************************************)
(* Lines stand where the command they belong to put them, if no line of it *)
(* is taken for a boundary: its second right after its first, and no first *)
(* line of two without its second.                                         *)
(***************************************************************************)
Pair(kind) == Len(kind) = 2 /\ ~\E n \in DOMAIN kind : kind[n] = "stamp"

SecondStands(f, kinds, j) ==
  /\ Len(kinds[f[j].command]) = 2
  /\ Pair(kinds[f[j].command]) => j > 1 /\ f[j - 1] = Line(f[j].command, 1)

FirstStands(f, j) == j < Len(f) /\ f[j + 1] = Line(f[j].command, 2)

Orderly(f, kinds) ==
  \A j \in 1 .. Len(f) :
    /\ f[j].part = 2 => SecondStands(f, kinds, j)
    /\ f[j].part = 1 /\ Pair(kinds[f[j].command]) => FirstStands(f, j)

(* Before the first boundary there are only commands of one line, or what   *)
(* is left of others.                                                      *)
SinglesFirst(f, kinds) ==
  \A j \in 1 .. Len(f) :
    (\A i \in 1 .. j : f[i] # Boundary) => ~Pair(kinds[f[j].command])

ReadsBack(f, kinds) == Orderly(f, kinds) /\ SinglesFirst(f, kinds)

WellFormed(text, kinds) == text # <<>> /\ Orderly(text, kinds)

ItemsWellFormed(s) == \A i \in 1 .. Len(items[s]) : WellFormed(items[s][i].text, shape)

Records(s, n, boundaries) == [i \in 1 .. n |-> Record(items[s][i], boundaries)]

(***************************************************************************)
(* A write: what is still to be written is what was selected, from some    *)
(* item on; what is not is in the file, or, with all that stands before it, *)
(* in the temporary file.  Without boundaries all records have one line.   *)
(***************************************************************************)
Appends(s, w) ==
  /\ w.todo \subseteq Selected(s, "append")
  /\ ~w.raced => \A i \in Selected(s, "append") \ w.todo : Holds(file, items[s][i].text)

ReplacesTheFile(s, w) ==
  \E n \in 0 .. Len(items[s]) :
    /\ w.todo = (n + 1) .. Len(items[s])
    /\ w.temp = FlattenSeq(Records(s, n, w.boundaries))
    /\ \A i \in 1 .. n : Holds(w.temp, items[s][i].text)

WriteFollows(s, w) ==
  /\ s \in up
  /\ ReadsBack(w.temp, shape)
  /\ ~w.boundaries => \A i \in w.todo : ~MultiLine(items[s][i])
  /\ IF w.mode = "append" THEN Appends(s, w) ELSE ReplacesTheFile(s, w)

HistoryInv ==
  /\ TypeOK
  /\ ReadsBack(file, shape)
  /\ \A s \in Sessions : CopyFollows(s) /\ ItemsWellFormed(s)
  /\ \A s \in Sessions : Writing(s) => WriteFollows(s, flush[s][1])

-----------------------------------------------------------------------------
(***************************************************************************)
(* Lines, records and what holds them.                                     *)
(***************************************************************************)
LinesOf(n) == {Boundary} \union [command: 1 .. n, part: {1, 2}]

LEMMA NewestElements ==
  ASSUME NEW T, NEW s \in Seq(T), NEW n \in Nat
  PROVE  /\ Newest(s, n) \in Seq(T)
         /\ Len(s) <= n => Newest(s, n) = s
         /\ \A i \in 1 .. Len(Newest(s, n)) : \E j \in 1 .. Len(s) : Newest(s, n)[i] = s[j]
<1>1. Len(s) \in Nat
  OBVIOUS
<1>2. CASE Len(s) <= n
  BY <1>2 DEF Newest
<1>3. CASE ~(Len(s) <= n)
  <2>. DEFINE from == Len(s) - n + 1
              kept == SubSeq(s, from, Len(s))
  <2>1. from \in 1 .. Len(s) + 1 /\ Len(s) \in from - 1 .. Len(s)
    BY <1>1, <1>3
  <2>2. \A i \in from .. Len(s) : i \in 1 .. Len(s) /\ s[i] \in T
    BY <2>1, <1>1
  <2>3. Newest(s, n) = kept
    BY <1>3 DEF Newest
  <2>4. /\ kept \in Seq(T)
        /\ Len(kept) = Len(s) - from + 1
        /\ \A i \in 1 .. Len(s) - from + 1 : kept[i] = s[from + i - 1]
    <3>. HIDE DEF from
    <3>1. from \in Int /\ Len(s) \in Int /\ ~(Len(s) < from - 1) /\ (from <= Len(s) \/ Len(s) = from - 1)
      BY <2>1
    <3>. QED
      BY <3>1, <2>1, <2>2, SubSeqProperties
  <2>5. ASSUME NEW i \in 1 .. Len(kept)
        PROVE  \E j \in 1 .. Len(s) : kept[i] = s[j]
    <3>1. from + i - 1 \in 1 .. Len(s) /\ kept[i] = s[from + i - 1]
      BY <2>1, <2>4, <1>1
    <3>. QED
      BY <3>1
  <2>. QED
    BY <2>3, <2>4, <2>5, <1>3
<1>. QED
  BY <1>2, <1>3

LEMMA ConcatElements ==
  ASSUME NEW T, NEW f \in Seq(T), NEW g \in Seq(T)
  PROVE  /\ f \o g \in Seq(T)
         /\ Len(f \o g) = Len(f) + Len(g)
         /\ \A i \in 1 .. Len(f) : (f \o g)[i] = f[i]
         /\ \A i \in 1 .. Len(g) : (f \o g)[Len(f) + i] = g[i]
         /\ \A i \in 1 .. Len(f \o g) :
              i \in 1 .. Len(f) \/ (i > Len(f) /\ i - Len(f) \in 1 .. Len(g))
<1>1. /\ f \o g \in Seq(T) /\ Len(f \o g) = Len(f) + Len(g)
      /\ \A i \in 1 .. Len(f) + Len(g) : (f \o g)[i] = IF i <= Len(f) THEN f[i] ELSE g[i - Len(f)]
  BY ConcatProperties
<1>2. Len(f) \in Nat /\ Len(g) \in Nat
  OBVIOUS
<1>3. ASSUME NEW i \in 1 .. Len(g)
      PROVE  (f \o g)[Len(f) + i] = g[i]
  <2>1. Len(f) + i \in 1 .. Len(f) + Len(g) /\ ~(Len(f) + i <= Len(f)) /\ (Len(f) + i) - Len(f) = i
    BY <1>2
  <2>. QED
    BY <2>1, <1>1
<1>4. ASSUME NEW i \in 1 .. Len(f)
      PROVE  (f \o g)[i] = f[i]
  BY <1>1, <1>2
<1>5. ASSUME NEW i \in 1 .. Len(f \o g)
      PROVE  i \in 1 .. Len(f) \/ (i > Len(f) /\ i - Len(f) \in 1 .. Len(g))
  BY <1>1, <1>2
<1>. QED
  BY <1>1, <1>3, <1>4, <1>5

(* Appending what reads back to what reads back gives what reads back.      *)
LEMMA OrderlyConcat ==
  ASSUME NEW T, NEW f \in Seq(T), NEW g \in Seq(T), NEW kinds,
         Orderly(f, kinds), Orderly(g, kinds)
  PROVE  Orderly(f \o g, kinds)
<1>. DEFINE h == f \o g
            n == Len(f)
<1>1. n \in Nat /\ Len(g) \in Nat
  OBVIOUS
<1>2. /\ Len(h) = n + Len(g)
      /\ \A i \in 1 .. n : h[i] = f[i]
      /\ \A i \in 1 .. Len(g) : h[n + i] = g[i]
      /\ \A i \in 1 .. Len(h) : i \in 1 .. n \/ (i > n /\ i - n \in 1 .. Len(g))
  BY ConcatElements
<1>. HIDE DEF h, n
<1>3. ASSUME NEW j \in 1 .. Len(h)
      PROVE  /\ h[j].part = 2 => SecondStands(h, kinds, j)
             /\ h[j].part = 1 /\ Pair(kinds[h[j].command]) => FirstStands(h, j)
  <2>1. CASE j \in 1 .. n
    <3>1. h[j] = f[j] /\ j \in Nat
      BY <2>1, <1>2
    <3>2. ASSUME h[j].part = 2
          PROVE  SecondStands(h, kinds, j)
      <4>1. SecondStands(f, kinds, j)
        BY <3>1, <3>2, <2>1 DEF Orderly, n
      <4>2. ASSUME Pair(kinds[f[j].command])
            PROVE  j > 1 /\ h[j - 1] = Line(f[j].command, 1)
        <5>1. j > 1 /\ f[j - 1] = Line(f[j].command, 1)
          BY <4>1, <4>2 DEF SecondStands
        <5>2. j - 1 \in 1 .. n
          BY <5>1, <2>1, <1>1
        <5>. QED
          BY <5>1, <5>2, <1>2
      <4>. QED
        BY <4>1, <4>2, <3>1 DEF SecondStands
    <3>3. ASSUME h[j].part = 1, Pair(kinds[h[j].command])
          PROVE  FirstStands(h, j)
      <4>1. j < n /\ f[j + 1] = Line(f[j].command, 2)
        BY <3>1, <3>3, <2>1 DEF Orderly, FirstStands, n
      <4>2. j + 1 \in 1 .. n /\ j < Len(h)
        BY <4>1, <2>1, <1>1, <1>2
      <4>. QED
        BY <4>1, <4>2, <3>1, <1>2 DEF FirstStands
    <3>. QED
      BY <3>2, <3>3
  <2>2. CASE j > n /\ j - n \in 1 .. Len(g)
    <3>. DEFINE i == j - n
    <3>1. i \in 1 .. Len(g) /\ n + i = j /\ h[j] = g[i]
      BY <2>2, <1>1, <1>2
    <3>. HIDE DEF i
    <3>2. ASSUME h[j].part = 2
          PROVE  SecondStands(h, kinds, j)
      <4>1. SecondStands(g, kinds, i)
        BY <3>1, <3>2 DEF Orderly
      <4>2. ASSUME Pair(kinds[g[i].command])
            PROVE  j > 1 /\ h[j - 1] = Line(g[i].command, 1)
        <5>1. i > 1 /\ g[i - 1] = Line(g[i].command, 1)
          BY <4>1, <4>2 DEF SecondStands
        <5>2. i - 1 \in 1 .. Len(g) /\ n + (i - 1) = j - 1 /\ j > 1
          BY <5>1, <3>1, <1>1
        <5>3. h[n + (i - 1)] = g[i - 1]
          BY <5>2, <1>2
        <5>. QED
          BY <5>1, <5>2, <5>3
      <4>. QED
        BY <4>1, <4>2, <3>1 DEF SecondStands
    <3>3. ASSUME h[j].part = 1, Pair(kinds[h[j].command])
          PROVE  FirstStands(h, j)
      <4>1. i < Len(g) /\ g[i + 1] = Line(g[i].command, 2)
        BY <3>1, <3>3 DEF Orderly, FirstStands
      <4>a. i \in Nat /\ i >= 1 /\ j = n + i
        BY <3>1, <1>1
      <4>b. Len(h) = n + Len(g)
        BY <1>2
      <4>2. i + 1 \in 1 .. Len(g) /\ n + (i + 1) = j + 1 /\ j < Len(h)
        BY <4>1, <4>a, <4>b, <1>1
      <4>3. h[n + (i + 1)] = g[i + 1]
        BY <4>2, <1>2
      <4>. QED
        BY <4>1, <4>2, <4>3, <3>1 DEF FirstStands
    <3>. QED
      BY <3>2, <3>3
  <2>. QED
    BY <2>1, <2>2, <1>2
<1>4. Orderly(h, kinds)
  BY <1>3 DEF Orderly
<1>. QED
  BY <1>4 DEF h

LEMMA ReadsBackConcat ==
  ASSUME NEW T, NEW f \in Seq(T), NEW g \in Seq(T), NEW kinds,
         ReadsBack(f, kinds), ReadsBack(g, kinds)
  PROVE  ReadsBack(f \o g, kinds)
<1>1. Orderly(f \o g, kinds)
  BY OrderlyConcat DEF ReadsBack
<1>. DEFINE h == f \o g
            n == Len(f)
<1>2. n \in Nat /\ Len(g) \in Nat
  OBVIOUS
<1>3. /\ Len(h) = n + Len(g)
      /\ \A i \in 1 .. n : h[i] = f[i]
      /\ \A i \in 1 .. Len(g) : h[n + i] = g[i]
      /\ \A i \in 1 .. Len(h) : i \in 1 .. n \/ (i > n /\ i - n \in 1 .. Len(g))
  BY ConcatElements
<1>. HIDE DEF h, n
<1>4. ASSUME NEW j \in 1 .. Len(h), \A i \in 1 .. j : h[i] # Boundary
      PROVE  ~Pair(kinds[h[j].command])
  <2>1. CASE j \in 1 .. n
    <3>1. \A i \in 1 .. j : f[i] # Boundary
      BY <2>1, <1>2, <1>3, <1>4
    <3>. QED
      BY <3>1, <2>1, <1>3 DEF ReadsBack, SinglesFirst, n
  <2>2. CASE j > n /\ j - n \in 1 .. Len(g)
    <3>. DEFINE k == j - n
    <3>1. k \in 1 .. Len(g) /\ n + k = j
      BY <2>2, <1>2
    <3>. HIDE DEF k
    <3>2. ASSUME NEW i \in 1 .. k
          PROVE  g[i] # Boundary
      <4>1. i \in 1 .. Len(g) /\ n + i \in 1 .. j
        BY <3>1, <1>2
      <4>. QED
        BY <4>1, <1>3, <1>4
    <3>3. ~Pair(kinds[g[k].command])
      BY <3>1, <3>2 DEF ReadsBack, SinglesFirst
    <3>. QED
      BY <3>1, <3>3, <1>3
  <2>. QED
    BY <2>1, <2>2, <1>3
<1>5. SinglesFirst(h, kinds)
  BY <1>4 DEF SinglesFirst
<1>. QED
  BY <1>1, <1>5 DEF ReadsBack, h

(* What a text is in stays in it when more is appended.                     *)
LEMMA HoldsConcat ==
  ASSUME NEW T, NEW f \in Seq(T), NEW g \in Seq(T), NEW text \in Seq(T), Holds(f, text)
  PROVE  Holds(f \o g, text)
<1>. DEFINE n == Len(text)
<1>1. PICK i \in 0 .. Len(f) - n : SubSeq(f, i + 1, i + n) = text
  BY DEF Holds
<1>2. Len(f) \in Nat /\ Len(g) \in Nat /\ n \in Nat /\ i \in Nat /\ i + n <= Len(f)
  BY <1>1
<1>3. /\ Len(f \o g) = Len(f) + Len(g)
      /\ \A k \in 1 .. Len(f) : (f \o g)[k] = f[k]
      /\ f \o g \in Seq(T)
  BY ConcatElements
<1>4. i \in 0 .. Len(f \o g) - n
  BY <1>2, <1>3
<1>5. SubSeq(f \o g, i + 1, i + n) = SubSeq(f, i + 1, i + n)
  <2>1. \A k \in i + 1 .. i + n : (f \o g)[k] = f[k]
    BY <1>2, <1>3
  <2>. HIDE DEF n
  <2>2. SubSeq(f \o g, i + 1, i + n) = [k \in 1 .. n |-> (f \o g)[i + k]]
    BY <1>2
  <2>3. SubSeq(f, i + 1, i + n) = [k \in 1 .. n |-> f[i + k]]
    BY <1>2
  <2>4. \A k \in 1 .. n : (f \o g)[i + k] = f[i + k]
    BY <2>1, <1>2
  <2>. QED
    BY <2>2, <2>3, <2>4
<1>. QED
  BY <1>1, <1>4, <1>5 DEF Holds

LEMMA HoldsSuffix ==
  ASSUME NEW T, NEW f \in Seq(T), NEW g \in Seq(T)
  PROVE  Holds(f \o g, g)
<1>. DEFINE n == Len(g)
            i == Len(f)
            h == f \o g
<1>1. n \in Nat /\ i \in Nat
  OBVIOUS
<1>2. h \in Seq(T) /\ Len(h) = i + n /\ \A k \in 1 .. n : h[i + k] = g[k]
  BY ConcatElements
<1>. HIDE DEF h, i
<1>3. i \in 0 .. Len(h) - n
  BY <1>1, <1>2
<1>4. SubSeq(h, i + 1, i + n) = g
  <2>1. SubSeq(h, i + 1, i + n) = [k \in 1 .. n |-> h[i + k]]
    BY <1>1, <1>2
  <2>2. g = [k \in 1 .. n |-> g[k]]
    OBVIOUS
  <2>. QED
    BY <2>1, <2>2, <1>2
<1>5. Holds(h, g)
  BY <1>3, <1>4 DEF Holds
<1>. QED
  BY <1>5 DEF h

(* Without a boundary a record must be one line.                            *)
LEMMA RecordReadsBack ==
  ASSUME NEW item \in Items, NEW boundaries \in BOOLEAN,
         WellFormed(item.text, shape), boundaries \/ ~MultiLine(item)
  PROVE  /\ Record(item, boundaries) \in Seq(Lines)
         /\ ReadsBack(Record(item, boundaries), shape)
         /\ Holds(Record(item, boundaries), item.text)
<1>. DEFINE text == item.text
            mark == IF boundaries THEN <<Boundary>> ELSE <<>>
<1>1. text \in Seq(Lines) /\ mark \in Seq(Lines) /\ \A i \in 1 .. Len(text) : text[i] # Boundary
  <2>1. text \in Seq(Lines \ {Boundary})
    BY DEF Items, CommandText
  <2>2. text \in Seq(Lines)
    BY <2>1
  <2>3. Boundary \in Lines
    BY DEF Lines
  <2>. QED
    BY <2>1, <2>2, <2>3
<1>2. Record(item, boundaries) = mark \o text
  BY DEF Record
<1>3. Orderly(mark, shape)
  BY DEF Orderly, Boundary
<1>4. Orderly(mark \o text, shape)
  <2>1. Orderly(text, shape)
    BY DEF WellFormed
  <2>. HIDE DEF text, mark
  <2>. QED
    BY <1>1, <1>3, <2>1, OrderlyConcat
<1>5. SinglesFirst(mark \o text, shape)
  <2>1. CASE boundaries
    <3>1. (mark \o text)[1] = Boundary
      <4>1. 1 \in 1 .. Len(mark) /\ mark[1] = Boundary
        BY <2>1
      <4>. HIDE DEF mark, text
      <4>. QED
        BY <4>1, <1>1, ConcatElements
    <3>. HIDE DEF mark, text
    <3>. QED
      BY <3>1 DEF SinglesFirst
  <2>2. CASE ~boundaries
    <3>1. mark \o text = text
      BY <2>2, <1>1
    <3>2. ~(Len(text) > 1) /\ Len(text) \in Nat
      BY <2>2, <1>1 DEF MultiLine
    <3>3. ASSUME NEW j \in 1 .. Len(text), Pair(shape[text[j].command])
          PROVE  FALSE
      <4>1. j = 1 /\ ~(j < Len(text)) /\ ~(j > 1)
        BY <3>2
      <4>2. text[j] \in Lines /\ text[j] # Boundary
        BY <1>1
      <4>3. text[j].part = 1 \/ text[j].part = 2
        BY <4>2 DEF Lines
      <4>4. Orderly(text, shape)
        BY DEF WellFormed
      <4>. HIDE DEF text
      <4>. QED
        BY <4>1, <4>3, <4>4, <3>3 DEF Orderly, SecondStands, FirstStands
    <3>. QED
      BY <3>1, <3>3 DEF SinglesFirst
  <2>. QED
    BY <2>1, <2>2
<1>6. Holds(mark \o text, text)
  <2>. HIDE DEF mark, text
  <2>. QED
    BY <1>1, HoldsSuffix
<1>7. mark \o text \in Seq(Lines)
  BY <1>1
<1>. QED
  BY <1>2, <1>4, <1>5, <1>6, <1>7 DEF ReadsBack

LEMMA FirstFromFirst ==
  ASSUME NEW last \in Nat, NEW S \in SUBSET (1 .. last)
  PROVE  /\ FirstFrom(S, last) \in 1 .. last + 1
         /\ FirstFrom(S, last) \in S \/ FirstFrom(S, last) = last + 1
         /\ \A i \in S : FirstFrom(S, last) <= i
<1>1. CASE S = {}
  BY <1>1 DEF FirstFrom
<1>2. CASE S # {}
  <2>1. S \in SUBSET Nat
    OBVIOUS
  <2>2. \E i \in S : \A j \in S : i <= j
    BY <1>2, <2>1, LeastExists
  <2>. DEFINE first == CHOOSE i \in S : \A j \in S : i <= j
  <2>3. first \in S /\ \A j \in S : first <= j
    BY <2>2
  <2>4. FirstFrom(S, last) = first
    BY <1>2 DEF FirstFrom
  <2>. HIDE DEF first
  <2>. QED
    BY <2>3, <2>4
<1>. QED
  BY <1>1, <1>2

(* What stands between a boundary and the next, or the end.                 *)
LEMMA BetweenBoundaries ==
  ASSUME NEW f \in Seq(Lines), NEW b \in 1 .. Len(f)
  PROVE  LET text == Between(f, b)
         IN /\ text \in CommandText
            /\ \A i \in 1 .. Len(text) : b + i \in 1 .. Len(f) /\ text[i] = f[b + i] /\ ~IsBoundary(text[i])
            /\ b + Len(text) = Len(f) \/ (b + Len(text) < Len(f) /\ IsBoundary(f[b + Len(text) + 1]))
<1>. DEFINE later == {c \in Boundaries(f) : c > b}
            next == FirstFrom(later, Len(f))
            text == Between(f, b)
            size == next - 1 - b
<1>1. Len(f) \in Nat /\ DOMAIN f = 1 .. Len(f)
  OBVIOUS
<1>2. later \in SUBSET (1 .. Len(f))
  BY <1>1 DEF Boundaries
<1>3. /\ next \in 1 .. Len(f) + 1
      /\ next \in later \/ next = Len(f) + 1
      /\ \A i \in later : next <= i
  <2>. HIDE DEF later
  <2>. QED
    BY <1>1, <1>2, FirstFromFirst
<1>4. next > b
  <2>1. CASE next \in later
    BY <2>1
  <2>2. CASE next = Len(f) + 1
    BY <2>2, <1>1
  <2>. QED
    BY <2>1, <2>2, <1>3
<1>5. ASSUME NEW i \in b + 1 .. next - 1
      PROVE  i \in 1 .. Len(f) /\ f[i] \in Lines \ {Boundary} /\ ~IsBoundary(f[i])
  <2>1. i \in 1 .. Len(f) /\ i > b /\ ~(next <= i)
    BY <1>1, <1>3, <1>4
  <2>2. i \notin later
    <3>. HIDE DEF later
    <3>. QED
      BY <2>1, <1>3
  <2>3. ~IsBoundary(f[i])
    BY <2>1, <2>2, <1>1 DEF Boundaries
  <2>4. f[i] # Boundary
    BY <2>3 DEF IsBoundary
  <2>. QED
    BY <2>1, <2>3, <2>4
<1>6. next <= Len(f) => IsBoundary(f[next])
  BY <1>1, <1>3 DEF Boundaries
<1>7. text = SubSeq(f, b + 1, next - 1)
  BY DEF Between
<1>. HIDE DEF next, later
<1>8. text = [i \in 1 .. size |-> f[b + i]] /\ size \in Nat
  <2>1. b + 1 \in Int /\ next - 1 \in Int /\ next - 1 - (b + 1) + 1 = size
    BY <1>3
  <2>2. size \in Nat
    BY <1>3, <1>4
  <2>3. SubSeq(f, b + 1, next - 1) = [i \in 1 .. size |-> f[b + i]]
    BY <1>3, <1>4, <1>5
  <2>. QED
    BY <2>2, <2>3, <1>7
<1>. HIDE DEF text
<1>9. Len(text) = size
  BY <1>8
<1>10. ASSUME NEW i \in 1 .. size
       PROVE  b + i \in 1 .. Len(f) /\ text[i] = f[b + i] /\ text[i] \in Lines \ {Boundary} /\ ~IsBoundary(text[i])
  <2>1. b + i \in b + 1 .. next - 1
    BY <1>3, <1>4
  <2>. QED
    BY <2>1, <1>5, <1>8
<1>11. text \in Seq(Lines \ {Boundary})
  <2>. DEFINE T == Lines \ {Boundary}
  <2>1. \A i \in 1 .. size : text[i] \in T
    BY <1>10
  <2>. HIDE DEF T
  <2>2. text \in [1 .. size -> T]
    BY <2>1, <1>8
  <2>3. text \in Seq(T)
    BY <2>2, <1>8, \A n \in Nat : [1 .. n -> T] \subseteq Seq(T)
  <2>. QED
    BY <2>3 DEF T
<1>12. b + Len(text) = Len(f) \/ (b + Len(text) < Len(f) /\ IsBoundary(f[b + Len(text) + 1]))
  <2>1. b + Len(text) = next - 1 /\ b + Len(text) + 1 = next
    BY <1>9, <1>3
  <2>2. next \in Int /\ next <= Len(f) + 1
    BY <1>3, <1>1
  <2>. DEFINE len == Len(f)
              at == b + Len(text)
  <2>3. at = next - 1 /\ at + 1 = next /\ len \in Nat /\ next <= len + 1
    BY <2>1, <2>2, <1>1
  <2>4. next <= len => IsBoundary(f[at + 1])
    BY <2>3, <1>6
  <2>. HIDE DEF len, at
  <2>5. at = len \/ (at < len /\ IsBoundary(f[at + 1]))
    BY <2>2, <2>3, <2>4
  <2>. QED
    BY <2>5 DEF len, at
<1>. QED
  BY <1>9, <1>10, <1>11, <1>12 DEF text, CommandText

(* What a text that is read from the file is: a line before any boundary,   *)
(* or what stands behind one.                                              *)
ReadAsLine(f, text) ==
  \E i \in 1 .. Len(f) : text = <<f[i]>> /\ \A j \in 1 .. i : f[j] # Boundary

ReadAsRecord(f, text) ==
  \E b \in 1 .. Len(f) : IsBoundary(f[b]) /\ text = Between(f, b) /\ text # <<>>

LEMMA PlainElements ==
  ASSUME NEW f \in Seq(Lines)
  PROVE  /\ Plain(f) \in Seq(CommandText)
         /\ \A k \in 1 .. Len(Plain(f)) : ReadAsLine(f, Plain(f)[k])
<1>. DEFINE T == Seq(Lines)
            seqs == [i \in 1 .. Len(f) |-> <<f[i]>>]
            at == {i \in 1 .. PlainEnd(f) : ~IsComment(f[i])}
            p == Plain(f)
<1>1. Len(f) \in Nat /\ Boundaries(f) \in SUBSET (1 .. Len(f))
  BY DEF Boundaries
<1>2. seqs \in Seq(T) /\ Len(seqs) = Len(f)
  <2>1. \A i \in 1 .. Len(f) : <<f[i]>> \in T
    OBVIOUS
  <2>. HIDE DEF T
  <2>. QED
    BY <1>1, <2>1
<1>3. /\ p \in Seq(T)
      /\ \A k \in 1 .. Len(p) : \E i \in at \intersect 1 .. Len(f) : p[k] = seqs[i]
  <2>1. p = Picked(seqs, at)
    BY DEF Plain
  <2>. HIDE DEF seqs, at, T, p
  <2>. QED
    BY <1>2, <2>1, PickedElements
<1>4. ASSUME NEW i \in at, NEW j \in 1 .. i
      PROVE  f[j] # Boundary
  <2>. DEFINE first == FirstFrom(Boundaries(f), Len(f))
  <2>1. first \in 1 .. Len(f) + 1 /\ \A b \in Boundaries(f) : first <= b
    BY <1>1, FirstFromFirst
  <2>2. i \in 1 .. first - 1
    BY DEF PlainEnd
  <2>. HIDE DEF first
  <2>3. j \in 1 .. Len(f) /\ ~(first <= j)
    BY <2>1, <2>2, <1>1
  <2>4. j \notin Boundaries(f)
    BY <2>1, <2>3
  <2>. QED
    BY <2>3, <2>4 DEF Boundaries, IsBoundary
<1>. HIDE DEF at, p, T
<1>5. ASSUME NEW k \in 1 .. Len(p)
      PROVE  ReadAsLine(f, p[k]) /\ p[k] \in CommandText
  <2>1. PICK i \in at \intersect 1 .. Len(f) : p[k] = seqs[i]
    BY <1>3
  <2>2. p[k] = <<f[i]>> /\ \A j \in 1 .. i : f[j] # Boundary
    BY <2>1, <1>4
  <2>3. f[i] \in Lines \ {Boundary}
    BY <2>2
  <2>. QED
    BY <2>2, <2>3 DEF ReadAsLine, CommandText
<1>6. p \in Seq(CommandText)
  <2>1. p = [k \in 1 .. Len(p) |-> p[k]] /\ Len(p) \in Nat
    BY <1>3
  <2>. HIDE DEF p
  <2>. QED
    BY <2>1, <1>5
<1>. QED
  BY <1>5, <1>6 DEF p

LEMMA ExtendedElements ==
  ASSUME NEW f \in Seq(Lines)
  PROVE  /\ Extended(f) \in Seq(CommandText)
         /\ \A k \in 1 .. Len(Extended(f)) : ReadAsRecord(f, Extended(f)[k])
<1>. DEFINE seqs == [i \in 1 .. Len(f) |-> Between(f, i)]
            at == {b \in Boundaries(f) : Between(f, b) # <<>>}
            p == Extended(f)
<1>1. Len(f) \in Nat
  OBVIOUS
<1>2. seqs \in Seq(CommandText) /\ Len(seqs) = Len(f)
  <2>1. \A i \in 1 .. Len(f) : Between(f, i) \in CommandText
    BY BetweenBoundaries
  <2>. QED
    BY <1>1, <2>1
<1>3. /\ p \in Seq(CommandText)
      /\ \A k \in 1 .. Len(p) : \E i \in at \intersect 1 .. Len(f) : p[k] = seqs[i]
  <2>1. p = Picked(seqs, at)
    BY DEF Extended
  <2>. HIDE DEF seqs, at, p
  <2>. QED
    BY <1>2, <2>1, PickedElements
<1>. HIDE DEF p
<1>4. ASSUME NEW k \in 1 .. Len(p)
      PROVE  ReadAsRecord(f, p[k])
  <2>1. PICK i \in at \intersect 1 .. Len(f) : p[k] = seqs[i]
    BY <1>3
  <2>2. IsBoundary(f[i]) /\ p[k] = Between(f, i) /\ p[k] # <<>>
    BY <2>1 DEF Boundaries
  <2>. QED
    BY <2>1, <2>2 DEF ReadAsRecord
<1>. QED
  BY <1>3, <1>4 DEF p

LEMMA ImportedElements ==
  ASSUME NEW f \in Seq(Lines)
  PROVE  /\ Imported(f) \in Seq(CommandText)
         /\ \A k \in 1 .. Len(Imported(f)) :
              ReadAsLine(f, Imported(f)[k]) \/ ReadAsRecord(f, Imported(f)[k])
<1>1. Plain(f) \in Seq(CommandText) /\ \A k \in 1 .. Len(Plain(f)) : ReadAsLine(f, Plain(f)[k])
  BY PlainElements
<1>2. Extended(f) \in Seq(CommandText) /\ \A k \in 1 .. Len(Extended(f)) : ReadAsRecord(f, Extended(f)[k])
  BY ExtendedElements
<1>. DEFINE p == Plain(f)
            q == Extended(f)
            all == p \o q
<1>3. /\ all \in Seq(CommandText)
      /\ \A i \in 1 .. Len(p) : all[i] = p[i]
      /\ \A i \in 1 .. Len(q) : all[Len(p) + i] = q[i]
      /\ \A i \in 1 .. Len(all) : i \in 1 .. Len(p) \/ (i > Len(p) /\ i - Len(p) \in 1 .. Len(q))
  BY <1>1, <1>2, ConcatElements
<1>. HIDE DEF all
<1>4. ASSUME NEW k \in 1 .. Len(all)
      PROVE  ReadAsLine(f, all[k]) \/ ReadAsRecord(f, all[k])
  <2>1. CASE k \in 1 .. Len(p)
    BY <2>1, <1>1, <1>3
  <2>2. CASE k > Len(p) /\ k - Len(p) \in 1 .. Len(q)
    <3>1. Len(p) \in Nat
      BY <1>1
    <3>2. Len(p) + (k - Len(p)) = k
      BY <3>1
    <3>3. all[Len(p) + (k - Len(p))] = q[k - Len(p)]
      BY <2>2, <1>3
    <3>. QED
      BY <2>2, <3>2, <3>3, <1>2
  <2>. QED
    BY <2>1, <2>2, <1>3
<1>. QED
  BY <1>3, <1>4 DEF all, Imported

(* The lines of a command that is not misleading, which is one or two.      *)
LEMMA ShapeOfCommand ==
  ASSUME TypeOK, NEW c \in Commands
  PROVE  /\ DOMAIN shape[c] = 1 .. Len(shape[c])
         /\ Len(shape[c]) = 1 \/ Len(shape[c]) = 2
         /\ Len(shape[c]) = 1 => Text(c) = <<Line(c, 1)>>
         /\ Len(shape[c]) = 2 => Text(c) = <<Line(c, 1), Line(c, 2)>>
         /\ ~Misleading(c) => (Pair(shape[c]) <=> Len(shape[c]) = 2)
<1>1. shape[c] \in Shapes
  BY DEF TypeOK, Commands
<1>2. shape[c] \in Seq(Kinds) /\ (Len(shape[c]) = 1 \/ Len(shape[c]) = 2)
  BY <1>1, HistoryAssumption
<1>3. DOMAIN shape[c] = 1 .. Len(shape[c])
  BY <1>2
<1>4. Text(c) = [n \in 1 .. Len(shape[c]) |-> Line(c, n)]
  BY <1>3 DEF Text
<1>5. ASSUME Len(shape[c]) = 1
      PROVE  Text(c) = <<Line(c, 1)>>
  <2>. DEFINE a == Line(c, 1)
  <2>1. \A n \in 1 .. 1 : Line(c, n) = a
    OBVIOUS
  <2>2. Text(c) = [n \in 1 .. 1 |-> a]
    BY <1>4, <1>5, <2>1
  <2>. HIDE DEF a
  <2>3. [n \in 1 .. 1 |-> a] = <<a>>
    OBVIOUS
  <2>. QED
    BY <2>2, <2>3 DEF a
<1>6. ASSUME Len(shape[c]) = 2
      PROVE  Text(c) = <<Line(c, 1), Line(c, 2)>>
  <2>. DEFINE a == Line(c, 1)
              b == Line(c, 2)
  <2>1. \A n \in 1 .. 2 : Line(c, n) = IF n = 1 THEN a ELSE b
    OBVIOUS
  <2>2. Text(c) = [n \in 1 .. 2 |-> IF n = 1 THEN a ELSE b]
    BY <1>4, <1>6, <2>1
  <2>. HIDE DEF a, b
  <2>3. [n \in 1 .. 2 |-> IF n = 1 THEN a ELSE b] = <<a, b>>
    OBVIOUS
  <2>. QED
    BY <2>2, <2>3 DEF a, b
<1>7. ~Misleading(c) => (Pair(shape[c]) <=> Len(shape[c]) = 2)
  BY <1>2 DEF Misleading, Pair
<1>. QED
  BY <1>2, <1>3, <1>5, <1>6, <1>7

(* No line of a pair is taken for a boundary.                               *)
LEMMA PairsAreNoBoundaries ==
  ASSUME TypeOK, NEW c \in Commands, Pair(shape[c]), NEW n \in {1, 2}
  PROVE  ~IsBoundary(Line(c, n))
<1>1. n \in DOMAIN shape[c]
  BY ShapeOfCommand DEF Pair
<1>2. shape[c][n] # "stamp"
  BY <1>1 DEF Pair
<1>3. Line(c, n) # Boundary /\ Line(c, n).command = c /\ Line(c, n).part = n
  BY DEF Line, Boundary
<1>. QED
  BY <1>2, <1>3 DEF IsBoundary, Is

(* What reads back as one line was a command of one line.                   *)
LEMMA LineReadsBack ==
  ASSUME TypeOK, NEW f \in Seq(Lines), ReadsBack(f, shape), NEW text, ReadAsLine(f, text)
  PROVE  WellFormed(text, shape) /\ (Regular(f) => Whole(text))
<1>1. PICK i \in 1 .. Len(f) : text = <<f[i]>> /\ \A j \in 1 .. i : f[j] # Boundary
  BY DEF ReadAsLine
<1>. DEFINE first == f[i]
<1>2. first \in Lines /\ first # Boundary /\ ~Pair(shape[first.command])
  <2>1. i \in 1 .. i
    OBVIOUS
  <2>. QED
    BY <1>1, <2>1 DEF ReadsBack, SinglesFirst
<1>3. first.command \in Commands /\ first.part \in {1, 2} /\ first = [command |-> first.command, part |-> first.part]
  BY <1>2 DEF Lines
<1>4. first.part = 2 => Len(shape[first.command]) = 2
  BY <1>2 DEF ReadsBack, Orderly, SecondStands
<1>5. Regular(f) => ~Misleading(first.command)
  <2>1. i \in DOMAIN f
    OBVIOUS
  <2>. QED
    BY <2>1, <1>2 DEF Regular
<1>. HIDE DEF first
<1>6. text = <<first>> /\ Len(text) = 1 /\ text[1] = first
  BY <1>1 DEF first
<1>7. Orderly(text, shape)
  BY <1>6, <1>2, <1>4 DEF Orderly, SecondStands
<1>8. ASSUME Regular(f)
      PROVE  Whole(text)
  <2>1. Len(shape[first.command]) = 1 /\ Text(first.command) = <<Line(first.command, 1)>>
    BY <1>2, <1>3, <1>5, <1>8, ShapeOfCommand
  <2>2. first = Line(first.command, 1)
    BY <1>3, <1>4, <2>1 DEF Line
  <2>. QED
    BY <1>3, <1>6, <2>1, <2>2 DEF Whole
<1>. QED
  BY <1>6, <1>7, <1>8 DEF WellFormed

(* What reads back from behind a boundary is made of commands, and is one   *)
(* when the file is regular.                                               *)
LEMMA RecordIsWellFormed ==
  ASSUME TypeOK, NEW f \in Seq(Lines), ReadsBack(f, shape), NEW text, ReadAsRecord(f, text)
  PROVE  WellFormed(text, shape)
<1>1. PICK b \in 1 .. Len(f) : IsBoundary(f[b]) /\ text = Between(f, b) /\ text # <<>>
  BY DEF ReadAsRecord
<1>. DEFINE n == Len(text)
<1>2. /\ text \in CommandText
      /\ \A i \in 1 .. n : b + i \in 1 .. Len(f) /\ text[i] = f[b + i]
      /\ b + n = Len(f) \/ (b + n < Len(f) /\ IsBoundary(f[b + n + 1]))
  BY <1>1, BetweenBoundaries
<1>3. n \in Nat /\ Len(f) \in Nat /\ b \in Nat
  BY <1>2 DEF CommandText
<1>. HIDE DEF n
<1>4. ASSUME NEW j \in 1 .. n
      PROVE  /\ text[j].part = 2 => SecondStands(text, shape, j)
             /\ text[j].part = 1 /\ Pair(shape[text[j].command]) => FirstStands(text, j)
  <2>. DEFINE k == b + j
              c == text[j].command
  <2>1. k \in 1 .. Len(f) /\ text[j] = f[k] /\ k - 1 = b + (j - 1) /\ k + 1 = b + (j + 1) /\ k \in Nat
    BY <1>2, <1>3
  <2>2. c \in Commands
    <3>1. text[j] \in Lines \ {Boundary}
      BY <1>2 DEF CommandText, n
    <3>. QED
      BY <3>1 DEF Lines
  <2>. HIDE DEF k, c
  <2>3. /\ f[k].part = 2 => SecondStands(f, shape, k)
        /\ f[k].part = 1 /\ Pair(shape[c]) => FirstStands(f, k)
    BY <2>1 DEF ReadsBack, Orderly, c
  <2>4. ASSUME text[j].part = 2
        PROVE  SecondStands(text, shape, j)
    <3>1. SecondStands(f, shape, k)
      BY <2>1, <2>3, <2>4
    <3>2. ASSUME Pair(shape[c])
          PROVE  j > 1 /\ text[j - 1] = Line(c, 1)
      <4>1. f[k - 1] = Line(c, 1)
        BY <3>1, <3>2, <2>1 DEF SecondStands, c
      <4>2. ~IsBoundary(Line(c, 1))
        BY <2>2, <3>2, PairsAreNoBoundaries
      <4>3. j = 1 => k - 1 = b
        BY <2>1, <1>3
      <4>4. j # 1
        BY <4>1, <4>2, <4>3, <1>1
      <4>5. j > 1 /\ j - 1 \in 1 .. n
        BY <4>4, <1>3
      <4>6. text[j - 1] = f[k - 1]
        BY <4>5, <2>1, <1>2
      <4>. QED
        BY <4>1, <4>5, <4>6
    <3>. QED
      BY <3>1, <3>2, <2>1 DEF SecondStands, c
  <2>5. ASSUME text[j].part = 1, Pair(shape[c])
        PROVE  FirstStands(text, j)
    <3>1. k < Len(f) /\ f[k + 1] = Line(c, 2)
      BY <2>1, <2>3, <2>5 DEF FirstStands, c
    <3>2. ~IsBoundary(Line(c, 2))
      BY <2>2, <2>5, PairsAreNoBoundaries
    <3>3. j # n
      <4>1. j = n => k + 1 = b + n + 1 /\ b + n < Len(f)
        BY <2>1, <3>1, <1>3 DEF k
      <4>. QED
        BY <3>1, <3>2, <4>1, <1>2, <1>3
    <3>4. j < n /\ j + 1 \in 1 .. n
      BY <3>3, <1>3
    <3>5. text[j + 1] = f[k + 1]
      BY <3>4, <2>1, <1>2
    <3>. QED
      BY <3>1, <3>4, <3>5 DEF FirstStands, n, c
  <2>. QED
    BY <2>4, <2>5 DEF c
<1>. QED
  BY <1>1, <1>4 DEF WellFormed, Orderly, n

LEMMA RecordReadsBackWhole ==
  ASSUME TypeOK, NEW f \in Seq(Lines), ReadsBack(f, shape), Regular(f), NEW text, ReadAsRecord(f, text)
  PROVE  Whole(text)
<1>1. PICK b \in 1 .. Len(f) : IsBoundary(f[b]) /\ text = Between(f, b) /\ text # <<>>
  BY DEF ReadAsRecord
<1>. DEFINE n == Len(text)
<1>2. /\ text \in CommandText
      /\ \A i \in 1 .. n : b + i \in 1 .. Len(f) /\ text[i] = f[b + i] /\ ~IsBoundary(text[i])
  BY <1>1, BetweenBoundaries
<1>3. n \in Nat /\ n >= 1 /\ b \in Nat /\ DOMAIN f = 1 .. Len(f)
  BY <1>1, <1>2 DEF CommandText
<1>4. \A i \in 1 .. n : text[i] \in Lines \ {Boundary}
  BY <1>2 DEF CommandText
<1>5. WellFormed(text, shape)
  BY RecordIsWellFormed
<1>6. ASSUME NEW i \in 1 .. n
      PROVE  /\ text[i].command \in Commands
             /\ text[i].part \in {1, 2} /\ text[i] = Line(text[i].command, text[i].part)
             /\ Pair(shape[text[i].command]) <=> Len(shape[text[i].command]) = 2
  <2>1. text[i] = f[b + i] /\ b + i \in DOMAIN f /\ text[i] # Boundary
    BY <1>2, <1>3, <1>4
  <2>2. ~Misleading(text[i].command)
    BY <2>1 DEF Regular
  <2>3. text[i].command \in Commands /\ text[i].part \in {1, 2} /\ text[i] = Line(text[i].command, text[i].part)
    BY <1>4 DEF Lines, Line
  <2>. QED
    BY <2>2, <2>3, ShapeOfCommand
<1>7. ASSUME NEW i \in 1 .. n, i > 1
      PROVE  text[i].part = 2
  <2>1. i - 1 \in 1 .. n /\ (b + i) - 1 = b + (i - 1) /\ b < b + i
    BY <1>3, <1>7
  <2>2. text[i - 1] = f[(b + i) - 1] /\ b + i \in 1 .. Len(f) /\ text[i] = f[b + i]
    BY <2>1, <1>2
  <2>3. ~IsBoundary(f[(b + i) - 1])
    BY <2>1, <2>2, <1>2
  <2>4. f[b + i].part # 1
    BY <2>1, <2>2, <2>3, <1>1, <1>3 DEF Regular, Mixed
  <2>. QED
    BY <2>2, <2>4, <1>6
<1>. HIDE DEF n
<1>8. \A j \in 1 .. n :
        /\ text[j].part = 2 => SecondStands(text, shape, j)
        /\ text[j].part = 1 /\ Pair(shape[text[j].command]) => FirstStands(text, j)
  BY <1>5 DEF WellFormed, Orderly, n
<1>9. ASSUME NEW j \in 1 .. n, text[j].part = 2
      PROVE  /\ j > 1 /\ text[j - 1] = Line(text[j].command, 1)
             /\ Len(shape[text[j].command]) = 2
  BY <1>6, <1>8, <1>9 DEF SecondStands
<1>. DEFINE c == text[1].command
<1>10. c \in Commands /\ text[1] = Line(c, 1) /\ text[1].part = 1
  <2>1. 1 \in 1 .. n
    BY <1>3
  <2>2. text[1].part # 2
    BY <2>1, <1>9
  <2>. QED
    BY <2>1, <2>2, <1>6
<1>11. n <= 2
  <2>. SUFFICES ASSUME n >= 3
                PROVE  FALSE
    BY <1>3
  <2>1. 3 \in 1 .. n /\ 2 \in 1 .. n
    BY <1>3
  <2>2. text[3].part = 2 /\ text[2].part = 2
    BY <2>1, <1>7
  <2>3. text[2] = Line(text[3].command, 1)
    <3>1. text[3 - 1] = Line(text[3].command, 1)
      BY <2>1, <2>2, <1>9
    <3>. QED
      BY <3>1
  <2>. QED
    BY <2>2, <2>3 DEF Line
<1>12. CASE n = 1
  <2>1. Len(shape[c]) = 1 /\ Text(c) = <<Line(c, 1)>>
    <3>1. 1 \in 1 .. n /\ ~(1 < Len(text))
      BY <1>12 DEF n
    <3>2. ~Pair(shape[c])
      BY <3>1, <1>8, <1>10 DEF FirstStands
    <3>. QED
      BY <3>1, <3>2, <1>6, <1>10, ShapeOfCommand
  <2>2. text = <<text[1]>>
    BY <1>12, <1>2 DEF n, CommandText
  <2>. QED
    BY <2>1, <2>2, <1>10 DEF Whole
<1>13. CASE n = 2
  <2>1. 2 \in 1 .. n /\ 2 > 1
    BY <1>13
  <2>2. text[2].part = 2
    BY <2>1, <1>7
  <2>3. text[1] = Line(text[2].command, 1) /\ Len(shape[text[2].command]) = 2
    <3>1. text[2 - 1] = Line(text[2].command, 1) /\ Len(shape[text[2].command]) = 2
      BY <2>1, <2>2, <1>9
    <3>. QED
      BY <3>1
  <2>4. text[2].command = c
    BY <2>3 DEF Line
  <2>5. text[2] = Line(c, 2)
    BY <2>1, <2>2, <2>4, <1>6
  <2>6. text = <<text[1], text[2]>>
    BY <1>13, <1>2 DEF n, CommandText
  <2>7. Text(c) = <<Line(c, 1), Line(c, 2)>>
    BY <2>3, <2>4, <1>10, ShapeOfCommand
  <2>. QED
    BY <2>5, <2>6, <2>7, <1>10 DEF Whole
<1>. QED
  BY <1>3, <1>11, <1>12, <1>13

-----------------------------------------------------------------------------
(***************************************************************************)
(* Commands that are entered leave what is there as it was.                *)
(***************************************************************************)
LEMMA SeqGrows ==
  ASSUME NEW S, NEW T, S \subseteq T
  PROVE  Seq(S) \subseteq Seq(T)
BY SeqMonotonic

LEMMA ShapeGrows ==
  ASSUME TypeOK, NEW kind \in Shapes, shape' = Append(shape, kind)
  PROVE  /\ shape' \in Seq(Shapes) /\ Len(shape') = Len(shape) + 1
         /\ shape'[NextCommand] = kind
         /\ \A c \in Commands : shape'[c] = shape[c]
         /\ Lines \subseteq Lines' /\ CommandText \subseteq CommandText'
         /\ Items \subseteq Items' /\ Flushes \subseteq Flushes'
<1>1. shape \in Seq(Shapes)
  BY DEF TypeOK
<1>2. /\ shape' \in Seq(Shapes) /\ Len(shape') = Len(shape) + 1
      /\ shape'[NextCommand] = kind
      /\ \A c \in Commands : shape'[c] = shape[c]
  BY <1>1, AppendProperties DEF NextCommand, Commands
<1>3. Commands \subseteq Commands'
  BY <1>1, <1>2 DEF Commands
<1>4. Lines \subseteq Lines'
  BY <1>3 DEF Lines
<1>5. CommandText \subseteq CommandText'
  <2>1. Lines \ {Boundary} \subseteq Lines' \ {Boundary}
    BY <1>4
  <2>2. Seq(Lines \ {Boundary}) \subseteq Seq(Lines' \ {Boundary})
    BY <2>1, SeqGrows
  <2>. QED
    BY <2>2 DEF CommandText, Boundary
<1>6. Items \subseteq Items'
  BY <1>5 DEF Items
<1>7. Flushes \subseteq Flushes'
  <2>1. Seq(Lines) \subseteq Seq(Lines')
    BY <1>4, SeqGrows
  <2>. QED
    BY <2>1 DEF Flushes
<1>. QED
  BY <1>2, <1>4, <1>5, <1>6, <1>7

LEMMA OrderStays ==
  ASSUME NEW n \in Nat, NEW f \in Seq(LinesOf(n)), NEW kinds, NEW more,
         \A c \in 1 .. n : more[c] = kinds[c]
  PROVE  /\ Orderly(f, kinds) => Orderly(f, more)
         /\ SinglesFirst(f, kinds) => SinglesFirst(f, more)
<1>1. ASSUME NEW j \in 1 .. Len(f), f[j] # Boundary
      PROVE  more[f[j].command] = kinds[f[j].command]
  <2>1. f[j] \in LinesOf(n)
    OBVIOUS
  <2>2. f[j].command \in 1 .. n
    BY <2>1, <1>1 DEF LinesOf
  <2>. QED
    BY <2>2
<1>2. \A j \in 1 .. Len(f) : f[j].part = 1 \/ f[j].part = 2 => f[j] # Boundary
  BY DEF Boundary
<1>3. ASSUME Orderly(f, kinds)
      PROVE  Orderly(f, more)
  BY <1>1, <1>2, <1>3 DEF Orderly, SecondStands, FirstStands
<1>4. ASSUME SinglesFirst(f, kinds)
      PROVE  SinglesFirst(f, more)
  <2>. SUFFICES ASSUME NEW j \in 1 .. Len(f), \A i \in 1 .. j : f[i] # Boundary
                PROVE  ~Pair(more[f[j].command])
    BY DEF SinglesFirst
  <2>1. f[j] # Boundary
    OBVIOUS
  <2>2. ~Pair(kinds[f[j].command])
    BY <1>4 DEF SinglesFirst
  <2>. QED
    BY <2>1, <2>2, <1>1
<1>. QED
  BY <1>3, <1>4

(* What was well-formed is still when one more command has been entered.    *)
LEMMA ShapeKeepsOrder ==
  ASSUME TypeOK, NEW kind \in Shapes, shape' = Append(shape, kind), NEW f \in Seq(Lines)
  PROVE  /\ Orderly(f, shape) => Orderly(f, shape')
         /\ ReadsBack(f, shape) => ReadsBack(f, shape')
         /\ WellFormed(f, shape) => WellFormed(f, shape')
<1>. DEFINE n == Len(shape)
            kinds == shape
            more == shape'
<1>1. n \in Nat /\ f \in Seq(LinesOf(n)) /\ \A c \in 1 .. n : more[c] = kinds[c]
  <2>1. Lines = LinesOf(n)
    BY DEF Lines, LinesOf, Commands
  <2>. QED
    BY <2>1, ShapeGrows DEF TypeOK, Commands
<1>. HIDE DEF n, kinds, more
<1>2. /\ Orderly(f, kinds) => Orderly(f, more)
      /\ SinglesFirst(f, kinds) => SinglesFirst(f, more)
  BY <1>1, OrderStays
<1>. QED
  BY <1>2 DEF kinds, more, ReadsBack, WellFormed

(* The item of a command just entered.                                      *)
LEMMA EnteredItem ==
  ASSUME TypeOK, NEW s \in Sessions, NEW kind \in Shapes, shape' = Append(shape, kind)
  PROVE  /\ Entered(s, kind) \in Seq(Items')
         /\ Len(Entered(s, kind)) = Len(items[s]) + 1
         /\ \A i \in 1 .. Len(items[s]) : Entered(s, kind)[i] = items[s][i]
         /\ WellFormed(Entered(s, kind)[Len(items[s]) + 1].text, shape')
<1>. DEFINE c == NextCommand
            text == [n \in DOMAIN kind |-> Line(c, n)]
            item == Item(text, TRUE)
<1>1. /\ shape' \in Seq(Shapes) /\ Len(shape') = Len(shape) + 1
      /\ shape'[c] = kind /\ Items \subseteq Items'
  BY ShapeGrows
<1>2. c \in Commands' /\ c \in Nat
  BY <1>1 DEF Commands, NextCommand, TypeOK
<1>3. Line(c, 1) \in Lines' \ {Boundary} /\ Line(c, 2) \in Lines' \ {Boundary}
  <2>1. c # 0
    BY <1>1 DEF NextCommand, TypeOK
  <2>2. c \in 1 .. Len(shape')
    BY <1>2 DEF Commands
  <2>. QED
    BY <2>1, <2>2 DEF Lines, Line, Boundary, Commands
<1>4. kind \in Seq(Kinds) /\ (Len(kind) = 1 \/ Len(kind) = 2) /\ DOMAIN kind = 1 .. Len(kind)
  BY HistoryAssumption
<1>a. Len(text) = Len(kind) /\ \A n \in 1 .. Len(kind) : text[n] = Line(c, n)
  <2>1. text = [n \in 1 .. Len(kind) |-> Line(c, n)] /\ Len(kind) \in Nat
    BY <1>4
  <2>. HIDE DEF text, c
  <2>. QED
    BY <2>1
<1>b. item \in Items'
  <2>. DEFINE T == Lines' \ {Boundary}
              k == Len(kind)
  <2>1. \A n \in 1 .. k : text[n] \in T
    <3>1. \A n \in 1 .. k : n = 1 \/ n = 2
      BY <1>4
    <3>2. \A n \in 1 .. k : text[n] = Line(c, n)
      BY <1>a
    <3>. HIDE DEF text, T, k
    <3>. QED
      BY <3>1, <3>2, <1>3 DEF T
  <2>2. text = [n \in 1 .. k |-> text[n]] /\ k \in Nat
    BY <1>4
  <2>. HIDE DEF T, text, k
  <2>3. text \in Seq(T)
    BY <2>1, <2>2
  <2>4. text \in Seq(Lines' \ {Boundary})
    BY <2>3 DEF T
  <2>. QED
    BY <2>4 DEF Items, Item, CommandText, Boundary
<1>5. WellFormed(text, shape')
  <2>1. \A n \in 1 .. Len(kind) : text[n].part = n /\ text[n].command = c /\ text[n] = Line(c, n)
    BY <1>a DEF Line
  <2>2. shape'[c] = kind /\ Len(text) = Len(kind)
    BY <1>1, <1>a
  <2>. HIDE DEF text, c
  <2>3. ASSUME NEW j \in 1 .. Len(text)
        PROVE  /\ text[j].part = 2 => SecondStands(text, shape', j)
               /\ text[j].part = 1 /\ Pair(shape'[text[j].command]) => FirstStands(text, j)
    <3>1. text[j].part = j /\ text[j].command = c /\ j \in Nat
      BY <2>1, <2>2
    <3>2. ASSUME j = 2
          PROVE  SecondStands(text, shape', j)
      <4>1. Len(kind) = 2 /\ 1 \in 1 .. Len(kind) /\ j - 1 = 1 /\ j > 1
        BY <3>2, <2>2, <1>4
      <4>2. text[j - 1] = Line(c, 1)
        BY <4>1, <2>1
      <4>. QED
        BY <4>1, <4>2, <3>1, <2>2 DEF SecondStands
    <3>3. ASSUME j = 1, Pair(kind)
          PROVE  FirstStands(text, j)
      <4>1. 2 \in 1 .. Len(kind) /\ j + 1 = 2 /\ j < Len(text)
        BY <3>3, <2>2 DEF Pair
      <4>2. text[j + 1] = Line(c, 2)
        BY <4>1, <2>1
      <4>. QED
        BY <4>1, <4>2, <3>1 DEF FirstStands
    <3>. QED
      BY <3>1, <3>2, <3>3, <2>2
  <2>4. text # <<>>
    BY <2>2, <1>4
  <2>. QED
    BY <2>3, <2>4 DEF WellFormed, Orderly
<1>6. items[s] \in Seq(Items')
  <2>1. items[s] \in Seq(Items)
    BY DEF TypeOK
  <2>. QED
    BY <2>1, <1>1, SeqGrows
<1>7. Entered(s, kind) = Append(items[s], item)
  BY DEF Entered
<1>8. item.text = text
  BY DEF Item
<1>. HIDE DEF item, text
<1>9. /\ Append(items[s], item) \in Seq(Items')
      /\ Len(Append(items[s], item)) = Len(items[s]) + 1
      /\ \A i \in 1 .. Len(items[s]) : Append(items[s], item)[i] = items[s][i]
      /\ Append(items[s], item)[Len(items[s]) + 1] = item
  BY <1>b, <1>6, AppendProperties
<1>. QED
  BY <1>5, <1>7, <1>8, <1>9

-----------------------------------------------------------------------------
(***************************************************************************)
(* The type invariant, action by action.                                   *)
(***************************************************************************)
LEMMA ShapeSame ==
  ASSUME UNCHANGED shape
  PROVE  Commands' = Commands /\ Lines' = Lines /\ CommandText' = CommandText /\ Items' = Items /\ Flushes' = Flushes
<1>1. Commands' = Commands
  BY DEF Commands
<1>2. Lines' = Lines
  BY <1>1 DEF Lines, Boundary
<1>3. CommandText' = CommandText
  BY <1>2 DEF CommandText, Boundary
<1>4. Items' = Items
  BY <1>3 DEF Items
<1>5. Flushes' = Flushes
  BY <1>2 DEF Flushes, Modes
<1>. QED
  BY <1>1, <1>2, <1>3, <1>4, <1>5

LEMMA RemoveAtElements ==
  ASSUME NEW T, NEW q \in Seq(T), NEW i \in 1 .. Len(q)
  PROVE  /\ RemoveAt(q, i) \in Seq(T)
         /\ \A k \in 1 .. Len(RemoveAt(q, i)) : \E j \in 1 .. Len(q) : RemoveAt(q, i)[k] = q[j]
<1>. DEFINE a == SubSeq(q, 1, i - 1)
            b == SubSeq(q, i + 1, Len(q))
            n == Len(q)
<1>1. n \in Nat /\ i \in Nat /\ 1 <= i /\ i <= n
  OBVIOUS
<1>2. a \in Seq(T) /\ Len(a) = i - 1 /\ \A k \in 1 .. Len(a) : a[k] = q[k]
  BY <1>1
<1>3. b \in Seq(T) /\ Len(b) = n - i /\ \A k \in 1 .. Len(b) : b[k] = q[i + k]
  <2>1. b = [k \in 1 .. n - i |-> q[i + k]]
    BY <1>1
  <2>2. \A k \in 1 .. n - i : q[i + k] \in T
    BY <1>1
  <2>3. n - i \in Nat
    BY <1>1
  <2>. HIDE DEF b, n
  <2>. QED
    BY <2>1, <2>2, <2>3
<1>. HIDE DEF a, b, n
<1>4. /\ a \o b \in Seq(T)
      /\ \A k \in 1 .. Len(a) : (a \o b)[k] = a[k]
      /\ \A k \in 1 .. Len(b) : (a \o b)[Len(a) + k] = b[k]
      /\ \A k \in 1 .. Len(a \o b) : k \in 1 .. Len(a) \/ (k > Len(a) /\ k - Len(a) \in 1 .. Len(b))
  BY <1>2, <1>3, ConcatElements
<1>5. ASSUME NEW k \in 1 .. Len(a \o b)
      PROVE  \E j \in 1 .. n : (a \o b)[k] = q[j]
  <2>1. CASE k \in 1 .. Len(a)
    <3>1. k \in 1 .. n /\ (a \o b)[k] = q[k]
      BY <2>1, <1>1, <1>2, <1>4
    <3>. QED
      BY <3>1
  <2>2. CASE k > Len(a) /\ k - Len(a) \in 1 .. Len(b)
    <3>. DEFINE m == k - Len(a)
    <3>1. m \in 1 .. Len(b) /\ Len(a) + m = k /\ i + m \in 1 .. n
      BY <2>2, <1>1, <1>2, <1>3
    <3>. HIDE DEF m
    <3>2. (a \o b)[k] = q[i + m]
      BY <3>1, <1>3, <1>4
    <3>. QED
      BY <3>1, <3>2
  <2>. QED
    BY <2>1, <2>2, <1>4
<1>6. RemoveAt(q, i) = a \o b
  BY DEF RemoveAt, a, b
<1>. QED
  BY <1>4, <1>5, <1>6 DEF n

(* The items of a session that starts.                                      *)
LoadedItems == [i \in DOMAIN Newest(Imported(file), HistSize) |-> Item(Newest(Imported(file), HistSize)[i], FALSE)]

LEMMA Loaded ==
  ASSUME TypeOK, ReadsBack(file, shape)
  PROVE  /\ LoadedItems \in Seq(Items)
         /\ \A i \in 1 .. Len(LoadedItems) : WellFormed(LoadedItems[i].text, shape)
<1>. DEFINE kept == Newest(Imported(file), HistSize)
<1>1. file \in Seq(Lines) /\ HistSize \in Nat
  BY HistoryAssumption DEF TypeOK
<1>2. /\ Imported(file) \in Seq(CommandText)
      /\ \A k \in 1 .. Len(Imported(file)) :
           ReadAsLine(file, Imported(file)[k]) \/ ReadAsRecord(file, Imported(file)[k])
  BY <1>1, ImportedElements
<1>3. /\ kept \in Seq(CommandText)
      /\ \A i \in 1 .. Len(kept) : \E j \in 1 .. Len(Imported(file)) : kept[i] = Imported(file)[j]
  BY <1>1, <1>2, NewestElements
<1>. HIDE DEF kept
<1>4. ASSUME NEW i \in 1 .. Len(kept)
      PROVE  kept[i] \in CommandText /\ WellFormed(kept[i], shape) /\ Item(kept[i], FALSE) \in Items
  <2>1. kept[i] \in CommandText
    BY <1>3
  <2>2. ReadAsLine(file, kept[i]) \/ ReadAsRecord(file, kept[i])
    BY <1>2, <1>3
  <2>3. WellFormed(kept[i], shape)
    BY <2>2, <1>1, LineReadsBack, RecordIsWellFormed
  <2>4. Item(kept[i], FALSE) \in Items
    BY <2>1 DEF Item, Items
  <2>. QED
    BY <2>1, <2>3, <2>4
<1>5. LoadedItems = [i \in 1 .. Len(kept) |-> Item(kept[i], FALSE)] /\ Len(kept) \in Nat
  BY <1>3 DEF LoadedItems, kept
<1>6. LoadedItems \in Seq(Items) /\ Len(LoadedItems) = Len(kept)
  <2>1. \A i \in 1 .. Len(kept) : LoadedItems[i] \in Items
    BY <1>4, <1>5
  <2>2. LoadedItems = [i \in 1 .. Len(kept) |-> LoadedItems[i]]
    BY <1>5
  <2>3. Len(kept) \in Nat
    BY <1>5
  <2>. QED
    BY <2>1, <2>2, <2>3
<1>7. \A i \in 1 .. Len(kept) : LoadedItems[i].text = kept[i]
  BY <1>5 DEF Item
<1>. QED
  BY <1>4, <1>6, <1>7

LEMMA MarkedItems ==
  ASSUME NEW its \in Seq(Items)
  PROVE  /\ mark_items_saved(its) \in Seq(Items)
         /\ Len(mark_items_saved(its)) = Len(its)
         /\ \A i \in 1 .. Len(its) : mark_items_saved(its)[i] = [its[i] EXCEPT !.dirty = FALSE]
                                  /\ mark_items_saved(its)[i].text = its[i].text
<1>1. Len(its) \in Nat /\ DOMAIN its = 1 .. Len(its)
  OBVIOUS
<1>2. ASSUME NEW i \in 1 .. Len(its)
      PROVE  /\ [its[i] EXCEPT !.dirty = FALSE] \in Items
             /\ [its[i] EXCEPT !.dirty = FALSE].text = its[i].text
  <2>1. its[i] \in Items
    OBVIOUS
  <2>. QED
    BY <2>1 DEF Items
<1>3. mark_items_saved(its) = [i \in 1 .. Len(its) |-> [its[i] EXCEPT !.dirty = FALSE]]
  BY <1>1 DEF mark_items_saved
<1>. DEFINE marked == mark_items_saved(its)
<1>. HIDE DEF marked
<1>4. \A i \in 1 .. Len(its) : marked[i] \in Items /\ marked[i] = [its[i] EXCEPT !.dirty = FALSE]
  BY <1>2, <1>3 DEF marked
<1>5. marked = [i \in 1 .. Len(its) |-> marked[i]]
  BY <1>3 DEF marked
<1>6. marked \in Seq(Items) /\ Len(marked) = Len(its)
  BY <1>1, <1>4, <1>5
<1>. QED
  BY <1>2, <1>4, <1>6 DEF marked

LEMMA TypeSame ==
  ASSUME TypeOK, UNCHANGED shape,
         file' \in Seq(Lines), up' \subseteq Sessions,
         items' \in [Sessions -> Seq(Items)],
         entries' \in [Sessions -> Seq(CommandText)],
         changed' \in [Sessions -> BOOLEAN],
         rewritten' \in [Sessions -> BOOLEAN],
         flush' \in [Sessions -> Seq(Flushes)],
         \A s \in Sessions : Len(flush'[s]) <= 1
  PROVE  TypeOK'
BY ShapeSame DEF TypeOK

LEMMA TypeGrown ==
  ASSUME TypeOK, NEW s \in Sessions, NEW kind \in Shapes, shape' = Append(shape, kind),
         NEW its \in Seq(Items'), items' = [items EXCEPT ![s] = its],
         changed' \in [Sessions -> BOOLEAN], rewritten' \in [Sessions -> BOOLEAN],
         UNCHANGED <<file, up, entries, flush>>
  PROVE  TypeOK'
<1>1. /\ shape' \in Seq(Shapes)
      /\ Lines \subseteq Lines' /\ CommandText \subseteq CommandText'
      /\ Items \subseteq Items' /\ Flushes \subseteq Flushes'
  BY ShapeGrows
<1>2. /\ Seq(Lines) \subseteq Seq(Lines') /\ Seq(CommandText) \subseteq Seq(CommandText')
      /\ Seq(Items) \subseteq Seq(Items') /\ Seq(Flushes) \subseteq Seq(Flushes')
  BY <1>1, SeqGrows
<1>3. items' \in [Sessions -> Seq(Items')]
  BY <1>2 DEF TypeOK
<1>4. entries' \in [Sessions -> Seq(CommandText')]
  BY <1>2 DEF TypeOK
<1>5. flush' \in [Sessions -> Seq(Flushes')] /\ \A t \in Sessions : Len(flush'[t]) <= 1
  BY <1>2 DEF TypeOK
<1>6. file' \in Seq(Lines') /\ up' \subseteq Sessions
  BY <1>2 DEF TypeOK
<1>. QED
  BY <1>1, <1>3, <1>4, <1>5, <1>6 DEF TypeOK

(* The write a session is in the middle of.                                 *)
LEMMA TheFlush ==
  ASSUME TypeOK, NEW s \in Sessions, Writing(s)
  PROVE  /\ flush[s][1] \in Flushes
         /\ flush[s] = <<flush[s][1]>> /\ Len(flush[s]) = 1
<1>1. flush[s] \in Seq(Flushes) /\ Len(flush[s]) <= 1 /\ flush[s] # <<>>
  BY DEF TypeOK, Writing
<1>2. Len(flush[s]) \in Nat /\ Len(flush[s]) # 0
  BY <1>1
<1>3. Len(flush[s]) = 1
  <2>. DEFINE n == Len(flush[s])
  <2>1. n \in Nat /\ n # 0 /\ n <= 1
    BY <1>1, <1>2
  <2>. HIDE DEF n
  <2>2. n = 1
    BY <2>1
  <2>. QED
    BY <2>2 DEF n
<1>. QED
  BY <1>1, <1>3

LEMMA TypeStep ==
  ASSUME HistoryInv, [Next]_vars
  PROVE  TypeOK'
<1>1. TypeOK /\ ReadsBack(file, shape) /\ HistSize \in Nat
  BY HistoryAssumption DEF HistoryInv
<1>. USE DEF history
<1>2. /\ file \in Seq(Lines) /\ up \subseteq Sessions
      /\ items \in [Sessions -> Seq(Items)] /\ entries \in [Sessions -> Seq(CommandText)]
      /\ changed \in [Sessions -> BOOLEAN] /\ rewritten \in [Sessions -> BOOLEAN]
      /\ flush \in [Sessions -> Seq(Flushes)] /\ \A s \in Sessions : Len(flush[s]) <= 1
  BY <1>1 DEF TypeOK
<1>3. ASSUME UNCHANGED vars
      PROVE  TypeOK'
  BY <1>1, <1>2, <1>3, TypeSame DEF vars
<1>4. ASSUME NEW s \in Sessions, SessionStarts(s)
      PROVE  TypeOK'
  <2>1. items' \in [Sessions -> Seq(Items)]
    <3>1. load_history(s) => items' = [items EXCEPT ![s] = LoadedItems]
      BY DEF load_history, LoadedItems
    <3>2. LoadedItems \in Seq(Items)
      BY <1>1, Loaded
    <3>. QED
      BY <1>2, <1>4, <3>1, <3>2 DEF SessionStarts
  <2>2. entries' \in [Sessions -> Seq(CommandText)]
    BY <1>2, <1>4 DEF SessionStarts
  <2>. QED
    BY <1>1, <1>2, <1>4, <2>1, <2>2, TypeSame DEF SessionStarts
<1>5. ASSUME NEW s \in Sessions, SyncEntries(s)
      PROVE  TypeOK'
  <2>. DEFINE its == items[s]
              old == entries[s]
              tail == SubSeq(Texts(its), Len(old) + 1, Len(its))
  <2>1. its \in Seq(Items) /\ old \in Seq(CommandText)
    BY <1>2
  <2>2. Texts(its) \in Seq(CommandText) /\ Len(Texts(its)) = Len(its)
    <3>. HIDE DEF its
    <3>1. ASSUME NEW i \in 1 .. Len(its)
          PROVE  its[i].text \in CommandText
      <4>1. its[i] \in Items
        BY <2>1
      <4>. QED
        BY <4>1 DEF Items
    <3>. QED
      BY <2>1, <3>1 DEF Texts
  <2>3. ASSUME OnlyAppended(s)
        PROVE  tail \in Seq(CommandText)
    <3>. DEFINE m == Len(old) + 1
                n == Len(its)
                all == Texts(its)
    <3>1. n >= Len(old)
      BY <2>3 DEF OnlyAppended
    <3>2. Len(old) \in Nat /\ n \in Nat /\ m \in 1 .. Len(old) + 1 /\ all \in Seq(CommandText) /\ Len(all) = n
      BY <2>1, <2>2
    <3>3. \A i \in m .. n : all[i] \in CommandText
      BY <3>2
    <3>4. n >= m - 1 /\ m \in Int /\ n \in Int /\ m >= 1
      BY <3>1, <3>2
    <3>. HIDE DEF n, m, all
    <3>. QED
      BY <3>2, <3>3, <3>4, SubSeqProperties DEF all, m, n
  <2>4. OnlyAppended(s) => old \o tail \in Seq(CommandText)
    <3>. HIDE DEF old, tail
    <3>. QED
      BY <2>1, <2>3, ConcatProperties
  <2>5. entries' \in [Sessions -> Seq(CommandText)]
    BY <1>2, <1>5, <2>2, <2>4 DEF SyncEntries
  <2>. QED
    BY <1>1, <1>2, <1>5, <2>5, TypeSame DEF SyncEntries
<1>6. ASSUME NEW s \in Sessions, NEW kind \in Shapes, AddToHistory(s, kind)
      PROVE  TypeOK'
  <2>. DEFINE new == Entered(s, kind)
              its == Newest(new, HistSize)
  <2>1. shape' = Append(shape, kind) /\ UNCHANGED <<file, up, entries, flush>>
    BY <1>6 DEF AddToHistory
  <2>2. new \in Seq(Items')
    BY <1>1, <2>1, EnteredItem
  <2>3. its \in Seq(Items')
    <3>. HIDE DEF new
    <3>. QED
      BY <1>1, <2>2, NewestElements
  <2>4. items' = [items EXCEPT ![s] = its]
    BY <1>6 DEF AddToHistory, truncate_to_max_items
  <2>5. changed' \in [Sessions -> BOOLEAN] /\ rewritten' \in [Sessions -> BOOLEAN]
    BY <1>2, <1>6 DEF AddToHistory, truncate_to_max_items
  <2>. HIDE DEF its
  <2>. QED
    BY <1>1, <2>1, <2>3, <2>4, <2>5, TypeGrown
<1>7. ASSUME NEW s \in Sessions, NEW kind \in Shapes, AddSilently(s, kind)
      PROVE  TypeOK'
  <2>. DEFINE new == Entered(s, kind)
  <2>1. /\ shape' = Append(shape, kind) /\ UNCHANGED <<file, up, entries, flush>>
        /\ items' = [items EXCEPT ![s] = new]
    BY <1>7 DEF AddSilently
  <2>2. new \in Seq(Items')
    BY <1>1, <2>1, EnteredItem
  <2>3. changed' \in [Sessions -> BOOLEAN] /\ rewritten' \in [Sessions -> BOOLEAN]
    BY <1>2, <1>7 DEF AddSilently
  <2>. HIDE DEF new
  <2>. QED
    BY <1>1, <2>1, <2>2, <2>3, TypeGrown
<1>8. ASSUME NEW s \in Sessions, NEW i \in 1 .. Len(items[s]), Delete(s, i)
      PROVE  TypeOK'
  <2>1. RemoveAt(items[s], i) \in Seq(Items)
    BY <1>2, RemoveAtElements
  <2>2. items' \in [Sessions -> Seq(Items)]
    BY <1>2, <1>8, <2>1 DEF Delete
  <2>. QED
    BY <1>1, <1>2, <1>8, <2>2, TypeSame DEF Delete, NotAnAppend
<1>9. ASSUME NEW s \in Sessions, Clear(s)
      PROVE  TypeOK'
  <2>1. items' \in [Sessions -> Seq(Items)]
    BY <1>2, <1>9 DEF Clear
  <2>. QED
    BY <1>1, <1>2, <1>9, <2>1, TypeSame DEF Clear, NotAnAppend
<1>10. ASSUME NEW s \in Sessions, NEW mode \in Modes, NEW timestamps \in BOOLEAN,
              FlushBegins(s, mode, timestamps)
       PROVE  TypeOK'
  <2>. DEFINE w == [mode |-> mode, todo |-> Selected(s, mode), temp |-> <<>>,
                    boundaries |-> WriteBoundaries(s, Selected(s, mode), timestamps), raced |-> FALSE]
  <2>1. Selected(s, mode) \in SUBSET Nat
    <3>1. items[s] \in Seq(Items)
      BY <1>2
    <3>. QED
      BY <3>1 DEF Selected
  <2>2. WriteBoundaries(s, Selected(s, mode), timestamps) \in BOOLEAN
    BY DEF WriteBoundaries
  <2>3. w \in Flushes
    BY <2>1, <2>2 DEF Flushes
  <2>4. flush' = [flush EXCEPT ![s] = <<w>>]
    BY <1>10 DEF FlushBegins
  <2>5. flush' \in [Sessions -> Seq(Flushes)] /\ \A t \in Sessions : Len(flush'[t]) <= 1
    <3>. HIDE DEF w
    <3>. QED
      BY <1>2, <2>3, <2>4
  <2>. QED
    BY <1>1, <1>2, <1>10, <2>5, TypeSame DEF FlushBegins
<1>11. ASSUME NEW s \in Sessions, WriteRecord(s)
       PROVE  TypeOK'
  <2>. DEFINE w == flush[s][1]
  <2>1. w \in Flushes /\ flush[s] = <<w>> /\ Len(flush[s]) = 1
    BY <1>1, <1>11, TheFlush DEF WriteRecord
  <2>2. PICK i \in w.todo : WriteOut(s, i, Record(items[s][i], w.boundaries))
    BY <1>11 DEF WriteRecord
  <2>. DEFINE record == Record(items[s][i], w.boundaries)
              appended == StillTo(s, i)
              extended == [StillTo(s, i) EXCEPT !.temp = @ \o record]
  <2>3. record \in Seq(Lines)
    <3>1. Writing(s) => WriteFollows(s, w)
      BY DEF HistoryInv
    <3>2. WriteFollows(s, w)
      BY <3>1, <1>11 DEF WriteRecord
    <3>3. i \in 1 .. Len(items[s])
      BY <3>2, <2>1, <1>2 DEF WriteFollows, Appends, ReplacesTheFile, Selected
    <3>4. items[s][i] \in Items
      BY <3>3, <1>2
    <3>5. items[s][i].text \in Seq(Lines)
      BY <3>4 DEF Items, CommandText
    <3>6. Boundary \in Lines
      BY DEF Lines
    <3>. QED
      BY <3>5, <3>6 DEF Record
  <2>. HIDE DEF record
  <2>4. file' \in Seq(Lines)
    <3>1. file' = file \/ file' = file \o record
      BY <2>2 DEF WriteOut, record
    <3>2. file \in Seq(Lines) /\ file \o record \in Seq(Lines)
      BY <1>2, <2>3, ConcatProperties
    <3>. QED
      BY <3>1, <3>2
  <2>5. flush' = [flush EXCEPT ![s] = <<appended>>] \/ flush' = [flush EXCEPT ![s] = <<extended>>]
    BY <2>2 DEF WriteOut, record
  <2>6. appended \in Flushes /\ extended \in Flushes
    <3>1. w.temp \o record \in Seq(Lines) /\ w.todo \ {i} \in SUBSET Nat
      <4>1. w.temp \in Seq(Lines) /\ w.todo \in SUBSET Nat
        BY <2>1 DEF Flushes
      <4>. QED
        BY <4>1, <2>3
    <3>2. appended = [w EXCEPT !.todo = @ \ {i}]
      BY DEF StillTo
    <3>3. extended = [[w EXCEPT !.todo = @ \ {i}] EXCEPT !.temp = @ \o record]
      BY <3>2
    <3>. HIDE DEF w, appended, extended
    <3>. QED
      BY <2>1, <3>1, <3>2, <3>3 DEF Flushes
  <2>7. flush' \in [Sessions -> Seq(Flushes)] /\ \A t \in Sessions : Len(flush'[t]) <= 1
    <3>. HIDE DEF appended, extended
    <3>1. \A v \in Flushes : <<v>> \in Seq(Flushes) /\ Len(<<v>>) = 1
      OBVIOUS
    <3>2. PICK v \in Flushes : flush' = [flush EXCEPT ![s] = <<v>>]
      BY <2>5, <2>6
    <3>. QED
      BY <1>2, <3>1, <3>2
  <2>. QED
    BY <1>1, <1>2, <1>11, <2>4, <2>7, TypeSame DEF WriteRecord
<1>12. ASSUME NEW s \in Sessions, FlushEnds(s)
       PROVE  TypeOK'
  <2>1. items' \in [Sessions -> Seq(Items)]
    BY <1>2, <1>12, MarkedItems DEF FlushEnds
  <2>2. flush[s][1] \in Flushes
    BY <1>1, <1>12, TheFlush DEF FlushEnds
  <2>3. file' \in Seq(Lines)
    BY <1>2, <1>12, <2>2 DEF FlushEnds, Flushes
  <2>4. Raced(s) \in [Sessions -> Seq(Flushes)] /\ \A t \in Sessions : Len(Raced(s)[t]) <= 1
    <3>1. ASSUME NEW t \in Sessions
          PROVE  Raced(s)[t] \in Seq(Flushes) /\ Len(Raced(s)[t]) <= 1
      <4>1. CASE t # s /\ Writing(t)
        <5>1. flush[t][1] \in Flushes
          BY <1>1, <4>1, TheFlush
        <5>2. [flush[t][1] EXCEPT !.raced = TRUE] \in Flushes
          BY <5>1 DEF Flushes
        <5>. QED
          BY <4>1, <5>2 DEF Raced
      <4>2. CASE t # s /\ ~Writing(t)
        BY <1>2, <4>2 DEF Raced
      <4>3. CASE t = s
        BY <4>3 DEF Raced
      <4>. QED
        BY <4>1, <4>2, <4>3
    <3>. QED
      BY <3>1 DEF Raced
  <2>5. flush' \in [Sessions -> Seq(Flushes)] /\ \A t \in Sessions : Len(flush'[t]) <= 1
    <3>1. flush' = [flush EXCEPT ![s] = <<>>] \/ flush' = Raced(s)
      BY <1>12 DEF FlushEnds
    <3>2. CASE flush' = [flush EXCEPT ![s] = <<>>]
      BY <1>2, <3>2
    <3>3. CASE flush' = Raced(s)
      BY <2>4, <3>3
    <3>. QED
      BY <3>1, <3>2, <3>3
  <2>. QED
    BY <1>1, <1>2, <1>12, <2>1, <2>3, <2>5, TypeSame DEF FlushEnds
<1>13. ASSUME NEW s \in Sessions, FlushFails(s)
       PROVE  TypeOK'
  <2>1. flush' \in [Sessions -> Seq(Flushes)] /\ \A t \in Sessions : Len(flush'[t]) <= 1
    BY <1>2, <1>13 DEF FlushFails
  <2>. QED
    BY <1>1, <1>2, <1>13, <2>1, TypeSame DEF FlushFails
<1>14. ASSUME NEW s \in Sessions, SessionEnds(s)
       PROVE  TypeOK'
  <2>1. flush' \in [Sessions -> Seq(Flushes)] /\ \A t \in Sessions : Len(flush'[t]) <= 1
    BY <1>2, <1>14 DEF SessionEnds
  <2>2. items' \in [Sessions -> Seq(Items)] /\ entries' \in [Sessions -> Seq(CommandText)]
    BY <1>2, <1>14 DEF SessionEnds
  <2>. QED
    BY <1>1, <1>2, <1>14, <2>1, <2>2, TypeSame DEF SessionEnds
<1>. QED
  BY <1>3, <1>4, <1>5, <1>6, <1>7, <1>8, <1>9, <1>10, <1>11, <1>12, <1>13, <1>14
     DEF Next, Edits, Writes

-----------------------------------------------------------------------------
(***************************************************************************)
(* The editor's copy.                                                      *)
(***************************************************************************)
LEMMA CopyStays ==
  ASSUME NEW t, CopyFollows(t), changed'[t] = changed[t], rewritten'[t] = rewritten[t],
         entries'[t] = entries[t], Len(items'[t]) = Len(items[t]),
         \A i \in 1 .. Len(items[t]) : items'[t][i].text = items[t][i].text,
         Len(entries[t]) \in Nat, Len(items[t]) \in Nat
  PROVE  CopyFollows(t)'
<1>. DEFINE n == Len(items[t])
            m == Len(entries[t])
            e == entries[t]
<1>1. /\ ~changed[t] => ~rewritten[t] /\ m = n
      /\ ~rewritten[t] => m <= n /\ \A i \in 1 .. m : e[i] = items[t][i].text
  BY DEF CopyFollows
<1>2. ~rewritten[t] => \A i \in 1 .. m : e[i] = items'[t][i].text
  BY <1>1
<1>3. Len(items'[t]) = n /\ entries'[t] = e
  OBVIOUS
<1>. QED
  BY <1>1, <1>2, <1>3 DEF CopyFollows

LEMMA CopyRewritten ==
  ASSUME NEW t, changed'[t], rewritten'[t]
  PROVE  CopyFollows(t)'
BY DEF CopyFollows

LEMMA CopyGrown ==
  ASSUME NEW t, CopyFollows(t), changed'[t], entries'[t] = entries[t],
         ~rewritten'[t] =>
           /\ ~rewritten[t]
           /\ Len(items'[t]) = Len(items[t]) + 1
           /\ \A i \in 1 .. Len(items[t]) : items'[t][i] = items[t][i],
         Len(entries[t]) \in Nat, Len(items[t]) \in Nat
  PROVE  CopyFollows(t)'
<1>. SUFFICES ASSUME ~rewritten'[t]
              PROVE  /\ Len(entries'[t]) <= Len(items'[t])
                     /\ \A i \in 1 .. Len(entries'[t]) : entries'[t][i] = items'[t][i].text
  BY DEF CopyFollows
<1>. DEFINE n == Len(items[t])
            m == Len(entries[t])
            its == items'[t]
<1>1. m <= n /\ \A i \in 1 .. m : entries[t][i] = items[t][i].text
  BY DEF CopyFollows
<1>2. Len(its) = n + 1 /\ \A i \in 1 .. n : its[i] = items[t][i]
  OBVIOUS
<1>3. m \in Nat /\ n \in Nat
  OBVIOUS
<1>. HIDE DEF n, m, its
<1>4. m <= Len(its) /\ \A i \in 1 .. m : entries[t][i] = its[i].text
  BY <1>1, <1>2, <1>3
<1>. QED
  BY <1>4 DEF m, its

LEMMA CopyStep ==
  ASSUME HistoryInv, [Next]_vars, NEW t \in Sessions
  PROVE  CopyFollows(t)'
<1>1. /\ items \in [Sessions -> Seq(Items)] /\ entries \in [Sessions -> Seq(CommandText)]
      /\ changed \in [Sessions -> BOOLEAN] /\ rewritten \in [Sessions -> BOOLEAN]
      /\ HistSize \in Nat /\ TypeOK
  BY HistoryAssumption DEF HistoryInv, TypeOK
<1>2. CopyFollows(t)
  BY DEF HistoryInv
<1>3. /\ items[t] \in Seq(Items) /\ entries[t] \in Seq(CommandText)
      /\ Len(entries[t]) \in Nat /\ Len(items[t]) \in Nat
  BY <1>1
<1>4. ASSUME changed'[t] = changed[t], rewritten'[t] = rewritten[t], entries'[t] = entries[t], items'[t] = items[t]
      PROVE  CopyFollows(t)'
  BY <1>2, <1>3, <1>4, CopyStays
<1>. USE DEF history
<1>5. ASSUME UNCHANGED <<items, entries, changed, rewritten>>
      PROVE  CopyFollows(t)'
  BY <1>4, <1>5
<1>6. ASSUME NEW s \in Sessions, SessionStarts(s)
      PROVE  CopyFollows(t)'
  <2>1. CASE s = t
    BY <1>1, <1>6, <2>1, CopyRewritten DEF SessionStarts
  <2>2. CASE s # t
    BY <1>1, <1>4, <1>6, <2>2 DEF SessionStarts, load_history
  <2>. QED
    BY <2>1, <2>2
<1>7. ASSUME NEW s \in Sessions, SyncEntries(s)
      PROVE  CopyFollows(t)'
  <2>1. CASE s # t
    BY <1>1, <1>4, <1>7, <2>1 DEF SyncEntries
  <2>2. CASE s = t
    <3>. DEFINE its == items[t]
                old == entries[t]
                all == Texts(its)
                tail == SubSeq(all, Len(old) + 1, Len(its))
                new == entries'[t]
    <3>1. items'[t] = its /\ ~changed'[t] /\ ~rewritten'[t]
      BY <1>1, <1>7, <2>2 DEF SyncEntries
    <3>2. Len(all) = Len(its) /\ \A i \in 1 .. Len(its) : all[i] = its[i].text
      BY <1>3 DEF Texts
    <3>3. all \in Seq(CommandText)
      <4>. HIDE DEF its
      <4>1. ASSUME NEW i \in 1 .. Len(its)
            PROVE  its[i].text \in CommandText
        <5>1. its[i] \in Items
          BY <1>3 DEF its
        <5>. QED
          BY <5>1 DEF Items
      <4>2. its \in Seq(Items)
        BY <1>3 DEF its
      <4>. QED
        BY <4>1, <4>2 DEF Texts
    <3>4. new = IF OnlyAppended(t) THEN old \o tail ELSE all
      BY <1>1, <1>7, <2>2 DEF SyncEntries
    <3>5. new = all
      <4>1. CASE ~OnlyAppended(t)
        BY <3>4, <4>1
      <4>2. CASE OnlyAppended(t)
        <5>. DEFINE n == Len(its)
                    m == Len(old)
        <5>1. n >= m /\ m \in Nat /\ n \in Nat /\ \A i \in 1 .. m : old[i] = its[i].text
          BY <4>2, <1>2, <1>3 DEF OnlyAppended, CopyFollows
        <5>2. /\ tail \in Seq(CommandText) /\ Len(tail) = n - m
              /\ \A i \in 1 .. n - m : tail[i] = all[m + i]
          <6>. HIDE DEF all, n, m
          <6>1. \A i \in m + 1 .. n : all[i] \in CommandText
            BY <5>1, <3>2, <3>3 DEF n
          <6>2. /\ SubSeq(all, m + 1, n) \in Seq(CommandText)
                /\ Len(SubSeq(all, m + 1, n)) = IF m + 1 <= n THEN n - (m + 1) + 1 ELSE 0
                /\ \A i \in 1 .. n - (m + 1) + 1 : SubSeq(all, m + 1, n)[i] = all[(m + 1) + i - 1]
            BY <5>1, <6>1, SubSeqProperties
          <6>3. tail = SubSeq(all, m + 1, n)
            BY DEF n, m
          <6>4. n - (m + 1) + 1 = n - m /\ (IF m + 1 <= n THEN n - (m + 1) + 1 ELSE 0) = n - m
            BY <5>1
          <6>5. \A i \in 1 .. n - m : (m + 1) + i - 1 = m + i
            BY <5>1
          <6>. QED
            BY <6>2, <6>3, <6>4, <6>5
        <5>3. old \in Seq(CommandText)
          BY <1>3
        <5>. HIDE DEF tail, old, all, its
        <5>4. /\ old \o tail \in Seq(CommandText) /\ Len(old \o tail) = Len(old) + Len(tail)
              /\ \A i \in 1 .. Len(old) : (old \o tail)[i] = old[i]
              /\ \A i \in 1 .. Len(tail) : (old \o tail)[Len(old) + i] = tail[i]
          BY <5>2, <5>3, ConcatElements
        <5>5. ASSUME NEW i \in 1 .. n
              PROVE  (old \o tail)[i] = all[i]
          <6>1. CASE i <= m
            <7>1. i \in 1 .. m /\ i \in 1 .. n
              BY <5>1, <6>1
            <7>. QED
              BY <7>1, <3>2, <5>1, <5>4
          <6>2. CASE ~(i <= m)
            <7>1. i - m \in 1 .. n - m /\ m + (i - m) = i
              BY <5>1, <6>2
            <7>. QED
              BY <7>1, <5>2, <5>4
          <6>. QED
            BY <6>1, <6>2
        <5>6. Len(old \o tail) = n /\ Len(all) = n
          BY <5>1, <5>2, <5>4, <3>2
        <5>7. old \o tail = all
          BY <5>4, <5>5, <5>6, <3>3, SeqEqual
        <5>. QED
          BY <3>4, <4>2, <5>7
      <4>. QED
        BY <4>1, <4>2
    <3>6. Len(new) = Len(its) /\ \A i \in 1 .. Len(new) : new[i] = its[i].text
      <4>. HIDE DEF new, all
      <4>. QED
        BY <3>2, <3>5
    <3>. QED
      BY <3>1, <3>6, <1>3 DEF CopyFollows
  <2>. QED
    BY <2>1, <2>2
<1>8. ASSUME NEW s \in Sessions, NEW kind \in Shapes, AddToHistory(s, kind)
      PROVE  CopyFollows(t)'
  <2>. DEFINE new == Entered(s, kind)
              its == Newest(new, HistSize)
  <2>1. /\ shape' = Append(shape, kind) /\ items' = [items EXCEPT ![s] = its]
        /\ changed' = [changed EXCEPT ![s] = TRUE] /\ UNCHANGED entries
        /\ rewritten' = [rewritten EXCEPT ![s] = @ \/ Len(new) > HistSize]
    BY <1>8 DEF AddToHistory, truncate_to_max_items
  <2>2. /\ new \in Seq(Items') /\ Len(new) = Len(items[s]) + 1
        /\ \A i \in 1 .. Len(items[s]) : new[i] = items[s][i]
    BY <1>1, <2>1, EnteredItem
  <2>3. ~(Len(new) > HistSize) => its = new
    <3>. HIDE DEF new
    <3>1. Len(new) \in Nat /\ (Len(new) <= HistSize => its = new)
      BY <1>1, <2>2, NewestElements
    <3>. QED
      BY <1>1, <3>1
  <2>. HIDE DEF new, its
  <2>4. CASE s = t
    <3>1. /\ changed'[t] /\ entries'[t] = entries[t] /\ items'[t] = its
          /\ rewritten'[t] = (rewritten[t] \/ Len(new) > HistSize)
      BY <1>1, <2>1, <2>4
    <3>. QED
      BY <1>2, <1>3, <2>2, <2>3, <2>4, <3>1, CopyGrown
  <2>5. CASE s # t
    BY <1>1, <1>4, <2>1, <2>5
  <2>. QED
    BY <2>4, <2>5
<1>9. ASSUME NEW s \in Sessions, NEW kind \in Shapes, AddSilently(s, kind)
      PROVE  CopyFollows(t)'
  <2>. DEFINE new == Entered(s, kind)
  <2>1. /\ shape' = Append(shape, kind) /\ items' = [items EXCEPT ![s] = new]
        /\ changed' = [changed EXCEPT ![s] = TRUE] /\ UNCHANGED <<entries, rewritten>>
    BY <1>9 DEF AddSilently
  <2>2. /\ Len(new) = Len(items[s]) + 1
        /\ \A i \in 1 .. Len(items[s]) : new[i] = items[s][i]
    BY <1>1, <2>1, EnteredItem
  <2>. HIDE DEF new
  <2>3. CASE s = t
    <3>1. changed'[t] /\ entries'[t] = entries[t] /\ items'[t] = new /\ rewritten'[t] = rewritten[t]
      BY <1>1, <2>1, <2>3
    <3>. QED
      BY <1>2, <1>3, <2>2, <2>3, <3>1, CopyGrown
  <2>4. CASE s # t
    BY <1>1, <1>4, <2>1, <2>4
  <2>. QED
    BY <2>3, <2>4
<1>10. ASSUME NEW s \in Sessions, NEW its, NotAnAppend(s), items' = [items EXCEPT ![s] = its], UNCHANGED entries
       PROVE  CopyFollows(t)'
  <2>1. CASE s = t
    BY <1>1, <1>10, <2>1, CopyRewritten DEF NotAnAppend
  <2>2. CASE s # t
    BY <1>1, <1>4, <1>10, <2>2 DEF NotAnAppend
  <2>. QED
    BY <2>1, <2>2
<1>11. ASSUME NEW s \in Sessions, NEW i \in 1 .. Len(items[s]), Delete(s, i)
       PROVE  CopyFollows(t)'
  BY <1>10, <1>11 DEF Delete
<1>12. ASSUME NEW s \in Sessions, Clear(s)
       PROVE  CopyFollows(t)'
  BY <1>10, <1>12 DEF Clear
<1>13. ASSUME NEW s \in Sessions, FlushEnds(s)
       PROVE  CopyFollows(t)'
  <2>1. CASE s # t
    BY <1>1, <1>4, <1>13, <2>1 DEF FlushEnds
  <2>2. CASE s = t
    <3>1. /\ items'[t] = mark_items_saved(items[t]) /\ entries'[t] = entries[t]
          /\ changed'[t] = changed[t] /\ rewritten'[t] = rewritten[t]
      BY <1>1, <1>13, <2>2 DEF FlushEnds
    <3>2. Len(items'[t]) = Len(items[t]) /\ \A i \in 1 .. Len(items[t]) : items'[t][i].text = items[t][i].text
      BY <1>3, <3>1, MarkedItems
    <3>. QED
      BY <1>2, <1>3, <3>1, <3>2, CopyStays
  <2>. QED
    BY <2>1, <2>2
<1>14. ASSUME NEW s \in Sessions, SessionEnds(s)
       PROVE  CopyFollows(t)'
  <2>1. CASE s = t
    BY <1>1, <1>14, <2>1, CopyRewritten DEF SessionEnds
  <2>2. CASE s # t
    BY <1>1, <1>4, <1>14, <2>2 DEF SessionEnds
  <2>. QED
    BY <2>1, <2>2
<1>15. ASSUME UNCHANGED vars
       PROVE  CopyFollows(t)'
  BY <1>5, <1>15 DEF vars
<1>16. ASSUME NEW s \in Sessions, NEW mode \in Modes, NEW timestamps \in BOOLEAN,
              FlushBegins(s, mode, timestamps) \/ WriteRecord(s) \/ FlushFails(s)
       PROVE  CopyFollows(t)'
  BY <1>5, <1>16 DEF FlushBegins, WriteRecord, FlushFails
<1>17. \E mode \in Modes, timestamps \in BOOLEAN : TRUE
  BY DEF Modes
<1>. QED
  BY <1>6, <1>7, <1>8, <1>9, <1>11, <1>12, <1>13, <1>14, <1>15, <1>16, <1>17 DEF Next, Edits, Writes

-----------------------------------------------------------------------------
(***************************************************************************)
(* What is in memory and in the file is made of commands.                  *)
(***************************************************************************)
LEMMA ItemsLines ==
  ASSUME TypeOK, NEW t \in Sessions, NEW i \in 1 .. Len(items[t])
  PROVE  items[t][i] \in Items /\ items[t][i].text \in Seq(Lines)
<1>1. items[t] \in Seq(Items)
  BY DEF TypeOK
<1>2. items[t][i] \in Items
  BY <1>1
<1>3. items[t][i].text \in Seq(Lines \ {Boundary})
  BY <1>2 DEF Items, CommandText
<1>. QED
  BY <1>2, <1>3

LEMMA ItemsFrom ==
  ASSUME NEW t, ItemsWellFormed(t), UNCHANGED shape,
         \A i \in 1 .. Len(items'[t]) : \E j \in 1 .. Len(items[t]) : items'[t][i].text = items[t][j].text
  PROVE  ItemsWellFormed(t)'
BY DEF ItemsWellFormed

LEMMA ItemsGrown ==
  ASSUME TypeOK, NEW t \in Sessions, ItemsWellFormed(t), NEW kind \in Shapes, shape' = Append(shape, kind),
         NEW s \in Sessions, NEW its,
         \A i \in 1 .. Len(its) : \E j \in 1 .. Len(Entered(s, kind)) : its[i] = Entered(s, kind)[j],
         \A u \in Sessions : ItemsWellFormed(u),
         items' = [items EXCEPT ![s] = its]
  PROVE  ItemsWellFormed(t)'
<1>1. ASSUME NEW u \in Sessions, NEW i \in 1 .. Len(items[u])
      PROVE  WellFormed(items[u][i].text, shape')
  <2>1. items[u][i].text \in Seq(Lines)
    BY ItemsLines
  <2>2. WellFormed(items[u][i].text, shape)
    BY DEF ItemsWellFormed
  <2>. QED
    BY <2>1, <2>2, ShapeKeepsOrder
<1>2. CASE s # t
  <2>1. items'[t] = items[t]
    BY <1>2 DEF TypeOK
  <2>. QED
    BY <1>1, <2>1 DEF ItemsWellFormed
<1>3. CASE s = t
  <2>. DEFINE new == Entered(s, kind)
  <2>1. items'[t] = its
    BY <1>3 DEF TypeOK
  <2>2. /\ Len(new) = Len(items[s]) + 1
        /\ \A i \in 1 .. Len(items[s]) : new[i] = items[s][i]
        /\ WellFormed(new[Len(items[s]) + 1].text, shape')
    BY EnteredItem
  <2>5. Len(items[s]) \in Nat
    <3>1. items[s] \in Seq(Items)
      BY DEF TypeOK
    <3>. QED
      BY <3>1
  <2>. HIDE DEF new
  <2>3. ASSUME NEW j \in 1 .. Len(new)
        PROVE  WellFormed(new[j].text, shape')
    <3>1. j \in 1 .. Len(items[s]) \/ j = Len(items[s]) + 1
      BY <2>2, <2>5
    <3>. QED
      BY <3>1, <2>2, <1>1
  <2>4. \A i \in 1 .. Len(its) : WellFormed(its[i].text, shape')
    BY <2>3 DEF new
  <2>. QED
    BY <2>1, <2>4 DEF ItemsWellFormed
<1>. QED
  BY <1>2, <1>3

LEMMA ItemsStep ==
  ASSUME HistoryInv, [Next]_vars, NEW t \in Sessions
  PROVE  ItemsWellFormed(t)'
<1>1. /\ items \in [Sessions -> Seq(Items)] /\ HistSize \in Nat /\ TypeOK
      /\ \A u \in Sessions : ItemsWellFormed(u)
      /\ ReadsBack(file, shape)
  BY HistoryAssumption DEF HistoryInv, TypeOK
<1>. USE DEF history
<1>2. ASSUME UNCHANGED shape, items'[t] = items[t]
      PROVE  ItemsWellFormed(t)'
  BY <1>1, <1>2 DEF ItemsWellFormed
<1>3. ASSUME NEW s \in Sessions, SessionStarts(s)
      PROVE  ItemsWellFormed(t)'
  <2>1. UNCHANGED shape /\ (items' = items \/ items' = [items EXCEPT ![s] = LoadedItems])
    BY <1>3 DEF SessionStarts, load_history, LoadedItems
  <2>2. CASE items'[t] = items[t]
    BY <1>2, <2>1, <2>2
  <2>3. CASE items'[t] # items[t]
    <3>1. items'[t] = LoadedItems
      BY <1>1, <2>1, <2>3
    <3>2. \A i \in 1 .. Len(LoadedItems) : WellFormed(LoadedItems[i].text, shape)
      BY <1>1, Loaded
    <3>. QED
      BY <2>1, <3>1, <3>2 DEF ItemsWellFormed
  <2>. QED
    BY <2>2, <2>3
<1>4. ASSUME NEW s \in Sessions, NEW kind \in Shapes, AddToHistory(s, kind)
      PROVE  ItemsWellFormed(t)'
  <2>. DEFINE new == Entered(s, kind)
              its == Newest(new, HistSize)
  <2>1. shape' = Append(shape, kind) /\ items' = [items EXCEPT ![s] = its]
    BY <1>4 DEF AddToHistory, truncate_to_max_items
  <2>2. \A i \in 1 .. Len(its) : \E j \in 1 .. Len(new) : its[i] = new[j]
    <3>1. new \in Seq(Items')
      BY <1>1, <2>1, EnteredItem
    <3>. HIDE DEF new
    <3>. QED
      BY <1>1, <3>1, NewestElements
  <2>. HIDE DEF its
  <2>. QED
    BY <1>1, <2>1, <2>2, ItemsGrown
<1>5. ASSUME NEW s \in Sessions, NEW kind \in Shapes, AddSilently(s, kind)
      PROVE  ItemsWellFormed(t)'
  <2>. DEFINE its == Entered(s, kind)
  <2>1. shape' = Append(shape, kind) /\ items' = [items EXCEPT ![s] = its]
    BY <1>5 DEF AddSilently
  <2>2. \A i \in 1 .. Len(its) : \E j \in 1 .. Len(Entered(s, kind)) : its[i] = Entered(s, kind)[j]
    OBVIOUS
  <2>. HIDE DEF its
  <2>. QED
    BY <1>1, <2>1, <2>2, ItemsGrown
<1>6. ASSUME NEW s \in Sessions, NEW i \in 1 .. Len(items[s]), Delete(s, i)
      PROVE  ItemsWellFormed(t)'
  <2>1. items'[t] = items[t] \/ (s = t /\ items'[t] = RemoveAt(items[t], i))
    BY <1>1, <1>6 DEF Delete
  <2>2. s = t => \A k \in 1 .. Len(RemoveAt(items[t], i)) :
                   \E j \in 1 .. Len(items[t]) : RemoveAt(items[t], i)[k] = items[t][j]
    <3>1. items[t] \in Seq(Items)
      BY <1>1
    <3>2. ASSUME s = t
          PROVE  i \in 1 .. Len(items[t])
      BY <3>2
    <3>. QED
      BY <3>1, <3>2, RemoveAtElements
  <2>. QED
    BY <1>1, <1>2, <1>6, <2>1, <2>2, ItemsFrom DEF Delete
<1>7. ASSUME NEW s \in Sessions, Clear(s) \/ SessionEnds(s)
      PROVE  ItemsWellFormed(t)'
  <2>1. UNCHANGED shape /\ (items'[t] = items[t] \/ items'[t] = <<>>)
    BY <1>1, <1>7 DEF Clear, SessionEnds
  <2>2. CASE items'[t] = <<>>
    BY <2>2 DEF ItemsWellFormed
  <2>. QED
    BY <1>2, <2>1, <2>2
<1>8. ASSUME NEW s \in Sessions, FlushEnds(s)
      PROVE  ItemsWellFormed(t)'
  <2>1. UNCHANGED shape /\ (items'[t] = items[t] \/ items'[t] = mark_items_saved(items[t]))
    BY <1>1, <1>8 DEF FlushEnds
  <2>2. CASE items'[t] = mark_items_saved(items[t])
    <3>1. /\ Len(items'[t]) = Len(items[t])
          /\ \A i \in 1 .. Len(items[t]) : items'[t][i].text = items[t][i].text
      <4>1. items[t] \in Seq(Items)
        BY <1>1
      <4>. QED
        BY <2>2, <4>1, MarkedItems
    <3>2. \A i \in 1 .. Len(items'[t]) : \E j \in 1 .. Len(items[t]) : items'[t][i].text = items[t][j].text
      BY <3>1
    <3>. QED
      BY <1>1, <2>1, <3>2, ItemsFrom
  <2>. QED
    BY <1>2, <2>1, <2>2
<1>9. ASSUME UNCHANGED <<shape, items>>
      PROVE  ItemsWellFormed(t)'
  BY <1>2, <1>9
<1>10. ASSUME UNCHANGED vars
       PROVE  ItemsWellFormed(t)'
  BY <1>9, <1>10 DEF vars
<1>11. ASSUME NEW s \in Sessions, NEW mode \in Modes, NEW timestamps \in BOOLEAN,
              SyncEntries(s) \/ FlushBegins(s, mode, timestamps) \/ WriteRecord(s) \/ FlushFails(s)
       PROVE  ItemsWellFormed(t)'
  BY <1>9, <1>11 DEF SyncEntries, FlushBegins, WriteRecord, FlushFails
<1>12. \E mode \in Modes, timestamps \in BOOLEAN : TRUE
  BY DEF Modes
<1>. QED
  BY <1>3, <1>4, <1>5, <1>6, <1>7, <1>8, <1>10, <1>11, <1>12 DEF Next, Edits, Writes

(* The record a session writes next.                                        *)
LEMMA NextRecord ==
  ASSUME HistoryInv, NEW s \in Sessions, Writing(s), NEW i \in flush[s][1].todo
  PROVE  LET record == Record(items[s][i], flush[s][1].boundaries)
         IN /\ i \in 1 .. Len(items[s])
            /\ record \in Seq(Lines) /\ ReadsBack(record, shape)
            /\ Holds(record, items[s][i].text)
<1>. DEFINE w == flush[s][1]
<1>1. TypeOK /\ ItemsWellFormed(s) /\ WriteFollows(s, w)
  BY DEF HistoryInv
<1>2. w \in Flushes /\ items[s] \in Seq(Items)
  BY <1>1, TheFlush DEF TypeOK
<1>3. i \in 1 .. Len(items[s])
  BY <1>1, <1>2 DEF WriteFollows, Appends, ReplacesTheFile, Selected
<1>4. items[s][i] \in Items /\ WellFormed(items[s][i].text, shape)
  BY <1>1, <1>3, ItemsLines DEF ItemsWellFormed
<1>5. w.boundaries \in BOOLEAN /\ (w.boundaries \/ ~MultiLine(items[s][i]))
  BY <1>1, <1>2 DEF WriteFollows, Flushes
<1>. HIDE DEF w
<1>6. LET record == Record(items[s][i], w.boundaries)
      IN record \in Seq(Lines) /\ ReadsBack(record, shape) /\ Holds(record, items[s][i].text)
  BY <1>4, <1>5, RecordReadsBack
<1>. QED
  BY <1>3, <1>6 DEF w

LEMMA FileStep ==
  ASSUME HistoryInv, [Next]_vars
  PROVE  ReadsBack(file', shape')
<1>1. TypeOK /\ ReadsBack(file, shape) /\ file \in Seq(Lines)
  BY DEF HistoryInv, TypeOK
<1>. USE DEF history
<1>2. ASSUME UNCHANGED <<shape, file>>
      PROVE  ReadsBack(file', shape')
  BY <1>1, <1>2
<1>3. ASSUME NEW kind \in Shapes, shape' = Append(shape, kind), UNCHANGED file
      PROVE  ReadsBack(file', shape')
  BY <1>1, <1>3, ShapeKeepsOrder
<1>4. ASSUME NEW s \in Sessions, NEW kind \in Shapes, AddToHistory(s, kind) \/ AddSilently(s, kind)
      PROVE  ReadsBack(file', shape')
  BY <1>3, <1>4 DEF AddToHistory, AddSilently
<1>5. ASSUME NEW s \in Sessions, WriteRecord(s)
      PROVE  ReadsBack(file', shape')
  <2>1. PICK i \in flush[s][1].todo : WriteOut(s, i, Record(items[s][i], flush[s][1].boundaries))
    BY <1>5 DEF WriteRecord
  <2>. DEFINE record == Record(items[s][i], flush[s][1].boundaries)
  <2>2. record \in Seq(Lines) /\ ReadsBack(record, shape)
    BY <1>5, NextRecord DEF WriteRecord
  <2>3. UNCHANGED shape /\ (file' = file \/ file' = file \o record)
    BY <1>5, <2>1 DEF WriteRecord, WriteOut
  <2>. HIDE DEF record
  <2>4. ReadsBack(file \o record, shape)
    BY <1>1, <2>2, ReadsBackConcat
  <2>. QED
    BY <1>1, <2>3, <2>4
<1>6. ASSUME NEW s \in Sessions, FlushEnds(s)
      PROVE  ReadsBack(file', shape')
  <2>1. UNCHANGED shape /\ (file' = file \/ file' = flush[s][1].temp)
    BY <1>6 DEF FlushEnds
  <2>2. ReadsBack(flush[s][1].temp, shape)
    BY <1>6 DEF HistoryInv, FlushEnds, WriteFollows
  <2>. QED
    BY <1>1, <2>1, <2>2
<1>7. ASSUME NEW s \in Sessions, NEW i, NEW mode, NEW timestamps,
             \/ SessionStarts(s) \/ SyncEntries(s) \/ Delete(s, i) \/ Clear(s)
             \/ FlushBegins(s, mode, timestamps) \/ FlushFails(s) \/ SessionEnds(s)
      PROVE  ReadsBack(file', shape')
  BY <1>2, <1>7 DEF SessionStarts, SyncEntries, Delete, Clear, FlushBegins, FlushFails, SessionEnds
<1>8. ASSUME UNCHANGED vars
      PROVE  ReadsBack(file', shape')
  BY <1>2, <1>8 DEF vars
<1>. QED
  BY <1>4, <1>5, <1>6, <1>7, <1>8 DEF Next, Edits, Writes

-----------------------------------------------------------------------------
(***************************************************************************)
(* Writes.                                                                 *)
(***************************************************************************)
LEMMA HoldsPrefixed ==
  ASSUME NEW T, NEW f \in Seq(T), NEW g \in Seq(T), NEW text \in Seq(T), Holds(g, text)
  PROVE  Holds(f \o g, text)
<1>. DEFINE n == Len(text)
            m == Len(f)
            h == f \o g
<1>1. PICK i \in 0 .. Len(g) - n : SubSeq(g, i + 1, i + n) = text
  BY DEF Holds
<1>2. m \in Nat /\ Len(g) \in Nat /\ n \in Nat /\ i \in Nat /\ i + n <= Len(g)
  BY <1>1
<1>3. Len(h) = m + Len(g) /\ h \in Seq(T) /\ \A k \in 1 .. Len(g) : h[m + k] = g[k]
  BY ConcatElements
<1>. HIDE DEF h, m, n
<1>4. m + i \in 0 .. Len(h) - n
  BY <1>2, <1>3
<1>5. SubSeq(h, (m + i) + 1, (m + i) + n) = SubSeq(g, i + 1, i + n)
  <2>1. SubSeq(h, (m + i) + 1, (m + i) + n) = [k \in 1 .. n |-> h[(m + i) + k]]
    BY <1>2, <1>3
  <2>2. SubSeq(g, i + 1, i + n) = [k \in 1 .. n |-> g[i + k]]
    BY <1>2
  <2>3. ASSUME NEW k \in 1 .. n
        PROVE  h[(m + i) + k] = g[i + k]
    <3>1. (m + i) + k = m + (i + k) /\ i + k \in 1 .. Len(g)
      BY <1>2
    <3>. QED
      BY <3>1, <1>3
  <2>. QED
    BY <2>1, <2>2, <2>3
<1>6. Holds(h, text)
  BY <1>1, <1>4, <1>5 DEF Holds, n
<1>. QED
  BY <1>6 DEF h

(* The write of a session goes on when its items stay and the file keeps    *)
(* what it holds, or has been replaced.                                     *)
LEMMA WriteKept ==
  ASSUME HistoryInv, NEW t \in Sessions, Writing(t), items'[t] = items[t], t \in up',
         flush'[t][1].mode = flush[t][1].mode, flush'[t][1].todo = flush[t][1].todo,
         flush'[t][1].temp = flush[t][1].temp, flush'[t][1].boundaries = flush[t][1].boundaries,
         ReadsBack(flush[t][1].temp, shape'),
         \/ flush'[t][1].raced
         \/ /\ flush'[t][1].raced = flush[t][1].raced
            /\ \A text \in Seq(Lines) : Holds(file, text) => Holds(file', text)
  PROVE  WriteFollows(t, flush[t][1])'
<1>. DEFINE w == flush[t][1]
            v == flush'[t][1]
<1>1. TypeOK /\ WriteFollows(t, w)
  BY DEF HistoryInv
<1>2. Selected(t, "append")' = Selected(t, "append")
  BY DEF Selected
<1>3. ReadsBack(v.temp, shape') /\ (~v.boundaries => \A i \in v.todo : ~MultiLine(items'[t][i]))
  BY <1>1 DEF WriteFollows
<1>4. CASE w.mode = "append"
  <2>1. /\ w.todo \subseteq Selected(t, "append")
        /\ ~w.raced => \A i \in Selected(t, "append") \ w.todo : Holds(file, items[t][i].text)
    BY <1>1, <1>4 DEF WriteFollows, Appends
  <2>2. ASSUME ~v.raced, NEW i \in Selected(t, "append") \ w.todo
        PROVE  Holds(file', items[t][i].text)
    <3>1. i \in 1 .. Len(items[t])
      BY <1>1 DEF TypeOK, Selected
    <3>2. items[t][i].text \in Seq(Lines)
      BY <1>1, <3>1, ItemsLines
    <3>3. Holds(file, items[t][i].text)
      BY <2>1, <2>2
    <3>. QED
      BY <2>2, <3>2, <3>3
  <2>3. Appends(t, w)'
    BY <1>2, <2>1, <2>2 DEF Appends
  <2>. QED
    BY <1>3, <1>4, <2>3 DEF WriteFollows
<1>5. CASE w.mode # "append"
  <2>1. PICK n \in 0 .. Len(items[t]) :
          /\ w.todo = (n + 1) .. Len(items[t])
          /\ w.temp = FlattenSeq(Records(t, n, w.boundaries))
          /\ \A i \in 1 .. n : Holds(w.temp, items[t][i].text)
    BY <1>1, <1>5 DEF WriteFollows, ReplacesTheFile
  <2>2. Records(t, n, w.boundaries) = [i \in 1 .. n |-> Record(items'[t][i], v.boundaries)]
    BY DEF Records
  <2>3. v.temp = FlattenSeq([i \in 1 .. n |-> Record(items'[t][i], v.boundaries)])
    BY <2>1, <2>2
  <2>4. ReplacesTheFile(t, w)'
    BY <2>1, <2>3 DEF ReplacesTheFile, Records
  <2>. QED
    BY <1>3, <1>5, <2>4 DEF WriteFollows
<1>. QED
  BY <1>4, <1>5

LEMMA WriteBegins ==
  ASSUME HistoryInv, NEW t \in Sessions, NEW mode \in Modes, NEW timestamps \in BOOLEAN,
         FlushBegins(t, mode, timestamps)
  PROVE  WriteFollows(t, flush[t][1])'
<1>. DEFINE w == [mode |-> mode, todo |-> Selected(t, mode), temp |-> <<>>,
                  boundaries |-> WriteBoundaries(t, Selected(t, mode), timestamps), raced |-> FALSE]
            v == flush'[t][1]
<1>1. items \in [Sessions -> Seq(Items)] /\ flush \in [Sessions -> Seq(Flushes)]
  BY DEF HistoryInv, TypeOK
<1>2. flush' = [flush EXCEPT ![t] = <<w>>] /\ items' = items /\ up' = up /\ t \in up
  BY DEF FlushBegins, Idle, history
<1>3. v = w
  <2>. HIDE DEF w
  <2>. QED
    BY <1>1, <1>2
<1>4. /\ v.mode = mode /\ v.todo = Selected(t, mode) /\ v.temp = <<>>
      /\ v.boundaries = WriteBoundaries(t, Selected(t, mode), timestamps)
  BY <1>3
<1>. HIDE DEF w, v
<1>5. ReadsBack(v.temp, shape')
  <2>1. Len(v.temp) = 0
    BY <1>4
  <2>. QED
    BY <2>1 DEF ReadsBack, Orderly, SinglesFirst
<1>6. ~v.boundaries => \A i \in v.todo : ~MultiLine(items'[t][i])
  BY <1>2, <1>4 DEF WriteBoundaries
<1>7. CASE mode = "append"
  <2>1. Selected(t, "append")' = v.todo
    BY <1>2, <1>4, <1>7 DEF Selected
  <2>2. Appends(t, flush[t][1])'
    BY <2>1 DEF Appends, v
  <2>. QED
    BY <1>2, <1>4, <1>5, <1>6, <1>7, <2>2 DEF WriteFollows, v
<1>8. CASE mode # "append"
  <2>1. v.todo = 1 .. Len(items'[t]) /\ Len(items'[t]) \in Nat
    BY <1>1, <1>2, <1>4, <1>8 DEF Selected
  <2>2. FlattenSeq([i \in 1 .. 0 |-> Record(items'[t][i], v.boundaries)]) = v.temp
    <3>. DEFINE none == [i \in 1 .. 0 |-> Record(items'[t][i], v.boundaries)]
    <3>1. none = <<>>
      OBVIOUS
    <3>2. FlattenSeq(<<>>) = <<>>
      BY DEF FlattenSeq
    <3>. QED
      BY <3>1, <3>2, <1>4
  <2>3. ReplacesTheFile(t, flush[t][1])'
    <3>1. 0 \in 0 .. Len(items'[t]) /\ v.todo = (0 + 1) .. Len(items'[t])
      BY <2>1
    <3>2. \A i \in 1 .. 0 : Holds(v.temp, items'[t][i].text)
      OBVIOUS
    <3>. QED
      BY <2>2, <3>1, <3>2 DEF ReplacesTheFile, Records, v
  <2>. QED
    BY <1>2, <1>4, <1>5, <1>6, <1>8, <2>3 DEF WriteFollows, v
<1>. QED
  BY <1>7, <1>8

(* The records of all items so far are sequences of lines.                  *)
LEMMA RecordsLines ==
  ASSUME HistoryInv, NEW s \in Sessions, NEW boundaries \in BOOLEAN, NEW n \in 0 .. Len(items[s])
  PROVE  Records(s, n, boundaries) \in Seq(Seq(Lines)) /\ Len(Records(s, n, boundaries)) = n
<1>1. TypeOK /\ items[s] \in Seq(Items)
  BY DEF HistoryInv, TypeOK
<1>2. Len(items[s]) \in Nat /\ n \in Nat
  BY <1>1
<1>3. ASSUME NEW i \in 1 .. n
      PROVE  Record(items[s][i], boundaries) \in Seq(Lines)
  <2>1. i \in 1 .. Len(items[s])
    BY <1>2
  <2>2. items[s][i].text \in Seq(Lines)
    BY <1>1, <2>1, ItemsLines
  <2>. DEFINE mark == IF boundaries THEN <<Boundary>> ELSE <<>>
  <2>3. mark \in Seq(Lines)
    <3>1. Boundary \in Lines
      BY DEF Lines
    <3>. QED
      BY <3>1
  <2>. HIDE DEF mark
  <2>4. mark \o items[s][i].text \in Seq(Lines)
    BY <2>2, <2>3, ConcatProperties
  <2>. QED
    BY <2>4 DEF Record, mark
<1>. DEFINE U == Seq(Lines)
            rs == [i \in 1 .. n |-> Record(items[s][i], boundaries)]
<1>4. \A i \in 1 .. n : Record(items[s][i], boundaries) \in U
  BY <1>3
<1>. HIDE DEF U
<1>5. rs \in Seq(U) /\ Len(rs) = n
  BY <1>2, <1>4
<1>. HIDE DEF rs
<1>. QED
  BY <1>5 DEF Records, rs, U

LEMMA RecordsGrow ==
  ASSUME NEW s, NEW boundaries, NEW n \in Nat, NEW T, Records(s, n, boundaries) \in Seq(T),
         Record(items[s][n + 1], boundaries) \in T
  PROVE  Records(s, n + 1, boundaries) = Append(Records(s, n, boundaries), Record(items[s][n + 1], boundaries))
<1>. DEFINE old == Records(s, n, boundaries)
            new == Records(s, n + 1, boundaries)
            record == Record(items[s][n + 1], boundaries)
<1>1. /\ Len(old) = n /\ \A i \in 1 .. n : old[i] = Record(items[s][i], boundaries)
  BY DEF Records
<1>2. \A i \in 1 .. n + 1 : new[i] = Record(items[s][i], boundaries)
  BY DEF Records
<1>3. new = [i \in 1 .. n + 1 |-> new[i]]
  BY DEF Records
<1>4. /\ Append(old, record) = [i \in 1 .. n + 1 |-> Append(old, record)[i]]
      /\ \A i \in 1 .. n : Append(old, record)[i] = old[i]
      /\ Append(old, record)[n + 1] = record
  <2>. HIDE DEF old, record
  <2>1. Append(old, record) \in Seq(T) /\ Len(Append(old, record)) = n + 1
    BY <1>1 DEF old, record
  <2>. QED
    BY <1>1, <2>1, AppendProperties DEF old, record
<1>. HIDE DEF old, new, record
<1>5. \A i \in 1 .. n + 1 : new[i] = Append(old, record)[i]
  <2>1. \A i \in 1 .. n + 1 : i \in 1 .. n \/ i = n + 1
    OBVIOUS
  <2>. QED
    BY <1>1, <1>2, <1>4, <2>1 DEF record
<1>. QED
  BY <1>3, <1>4, <1>5 DEF old, new, record

(* A record is written: what was in the file, or in the temporary file,     *)
(* stays in it, and this record is in it too.                               *)
LEMMA WriteProgress ==
  ASSUME HistoryInv, NEW t \in Sessions, WriteRecord(t)
  PROVE  WriteFollows(t, flush[t][1])'
<1>. DEFINE w == flush[t][1]
            v == flush'[t][1]
<1>1. Writing(t) /\ UNCHANGED <<shape, up, items>>
  BY DEF WriteRecord, history
<1>2. PICK i \in w.todo : (\A j \in w.todo : i <= j) /\ WriteOut(t, i, Record(items[t][i], w.boundaries))
  BY DEF WriteRecord
<1>. DEFINE record == Record(items[t][i], w.boundaries)
<1>3. /\ i \in 1 .. Len(items[t])
      /\ record \in Seq(Lines) /\ ReadsBack(record, shape) /\ Holds(record, items[t][i].text)
  BY <1>1, <1>2, NextRecord
<1>4. /\ TypeOK /\ WriteFollows(t, w) /\ file \in Seq(Lines) /\ w \in Flushes
      /\ flush \in [Sessions -> Seq(Flushes)] /\ items[t] \in Seq(Items)
  BY <1>1, TheFlush DEF HistoryInv, TypeOK
<1>5. /\ w.temp \in Seq(Lines) /\ w.boundaries \in BOOLEAN /\ w.mode \in Modes /\ w.raced \in BOOLEAN
      /\ w.todo \subseteq Nat
  BY <1>4 DEF Flushes
<1>6. \A k \in 1 .. Len(items[t]) : items[t][k].text \in Seq(Lines)
  BY <1>4, ItemsLines
<1>7. \A k \in w.todo \ {i} : ~w.boundaries => ~MultiLine(items[t][k])
  BY <1>4 DEF WriteFollows
<1>8. t \in up /\ ReadsBack(w.temp, shape)
  BY <1>4 DEF WriteFollows
<1>9. CASE w.mode = "append"
  <2>. DEFINE next == [w EXCEPT !.todo = @ \ {i}]
  <2>1. /\ flush' = [flush EXCEPT ![t] = <<next>>]
        /\ file' = IF w.raced THEN file ELSE file \o record
    BY <1>2, <1>9 DEF WriteOut, StillTo
  <2>2. /\ next.mode = w.mode /\ next.todo = w.todo \ {i} /\ next.temp = w.temp
        /\ next.boundaries = w.boundaries /\ next.raced = w.raced
    BY <1>4 DEF Flushes
  <2>3. v = next
    <3>. HIDE DEF next
    <3>. QED
      BY <1>4, <2>1
  <2>. HIDE DEF v, next
  <2>4. /\ w.todo \subseteq Selected(t, "append")
        /\ ~w.raced => \A k \in Selected(t, "append") \ w.todo : Holds(file, items[t][k].text)
    BY <1>4, <1>9 DEF WriteFollows, Appends
  <2>. HIDE DEF w, record
  <2>5. ASSUME ~w.raced, NEW k \in Selected(t, "append") \ (w.todo \ {i})
        PROVE  Holds(file', items[t][k].text)
    <3>1. k \in 1 .. Len(items[t])
      BY <1>4 DEF Selected
    <3>2. items[t][k].text \in Seq(Lines) /\ file' = file \o record
      BY <1>6, <2>1, <2>5, <3>1
    <3>3. CASE k = i
      <4>1. Holds(file \o record, items[t][i].text)
        BY <1>3, <1>4, <1>6, HoldsPrefixed
      <4>. QED
        BY <3>2, <3>3, <4>1
    <3>4. CASE k # i
      <4>1. Holds(file, items[t][k].text)
        BY <2>4, <2>5, <3>4
      <4>2. Holds(file \o record, items[t][k].text)
        BY <1>3, <1>4, <3>2, <4>1, HoldsConcat
      <4>. QED
        BY <3>2, <4>2
    <3>. QED
      BY <3>3, <3>4
  <2>6. Selected(t, "append")' = Selected(t, "append")
    BY <1>1 DEF Selected
  <2>7. Appends(t, flush[t][1])'
    <3>1. v.todo = w.todo \ {i} /\ v.raced = w.raced
      BY <2>2, <2>3
    <3>2. v.todo \subseteq Selected(t, "append")
      BY <2>4, <3>1
    <3>3. ~v.raced => \A k \in Selected(t, "append") \ v.todo : Holds(file', items'[t][k].text)
      BY <1>1, <2>5, <3>1
    <3>. QED
      BY <2>6, <3>2, <3>3 DEF Appends, v
  <2>. QED
    BY <1>1, <1>7, <1>8, <1>9, <2>2, <2>3, <2>7 DEF WriteFollows, v
<1>10. CASE w.mode # "append"
  <2>. DEFINE still == [w EXCEPT !.todo = @ \ {i}]
              next == [still EXCEPT !.temp = @ \o record]
  <2>1. flush' = [flush EXCEPT ![t] = <<next>>] /\ file' = file
    BY <1>2, <1>10 DEF WriteOut, StillTo
  <2>2. /\ next.mode = w.mode /\ next.todo = w.todo \ {i} /\ next.temp = w.temp \o record
        /\ next.boundaries = w.boundaries
    <3>. HIDE DEF record
    <3>. QED
      BY <1>4 DEF Flushes
  <2>3. v = next
    <3>. HIDE DEF next
    <3>. QED
      BY <1>4, <2>1
  <2>. HIDE DEF v, next, still
  <2>4. PICK n \in 0 .. Len(items[t]) :
          /\ w.todo = (n + 1) .. Len(items[t])
          /\ w.temp = FlattenSeq(Records(t, n, w.boundaries))
          /\ \A k \in 1 .. n : Holds(w.temp, items[t][k].text)
    BY <1>4, <1>10 DEF WriteFollows, ReplacesTheFile
  <2>5. Len(items[t]) \in Nat /\ n \in Nat
    BY <1>4
  <2>6. i = n + 1 /\ n + 1 \in 0 .. Len(items[t]) /\ w.todo \ {i} = ((n + 1) + 1) .. Len(items[t])
    <3>1. i \in (n + 1) .. Len(items[t])
      BY <1>2, <2>4
    <3>2. n + 1 \in (n + 1) .. Len(items[t])
      BY <2>5, <3>1
    <3>3. i <= n + 1
      BY <1>2, <2>4, <3>2
    <3>4. i = n + 1 /\ n + 1 \in 0 .. Len(items[t])
      BY <2>5, <3>1, <3>3
    <3>5. ((n + 1) .. Len(items[t])) \ {n + 1} = ((n + 1) + 1) .. Len(items[t])
      BY <2>5
    <3>. QED
      BY <2>4, <3>4, <3>5
  <2>7. FlattenSeq(Records(t, n + 1, w.boundaries)) = w.temp \o record
    <3>1. Records(t, n, w.boundaries) \in Seq(Seq(Lines))
      BY <1>5, RecordsLines
    <3>2. Record(items[t][n + 1], w.boundaries) \in Seq(Lines)
      BY <1>3, <2>6
    <3>. DEFINE U == Seq(Lines)
                b == w.boundaries
    <3>3. Records(t, n, b) \in Seq(U) /\ Record(items[t][n + 1], b) \in U
      BY <3>1, <3>2
    <3>. HIDE DEF U, b, w, record
    <3>4. Records(t, n + 1, b) = Append(Records(t, n, b), Record(items[t][n + 1], b))
      BY <2>5, <3>3, RecordsGrow
    <3>5. FlattenSeq(Append(Records(t, n, b), Record(items[t][n + 1], b)))
            = FlattenSeq(Records(t, n, b)) \o Record(items[t][n + 1], b)
      BY <3>3, FlattenAppend DEF U
    <3>. QED
      BY <2>4, <2>6, <3>4, <3>5 DEF b, record
  <2>. HIDE DEF w, record
  <2>8. ReadsBack(w.temp \o record, shape)
    BY <1>3, <1>5, <1>8, ReadsBackConcat
  <2>9. ASSUME NEW k \in 1 .. n + 1
        PROVE  Holds(w.temp \o record, items[t][k].text)
    <3>1. k \in 1 .. Len(items[t]) /\ (k \in 1 .. n \/ k = i)
      BY <2>5, <2>6
    <3>2. items[t][k].text \in Seq(Lines)
      BY <1>6, <3>1
    <3>3. CASE k \in 1 .. n
      BY <1>3, <1>5, <2>4, <3>2, <3>3, HoldsConcat
    <3>4. CASE k = i
      BY <1>3, <1>5, <3>2, <3>4, HoldsPrefixed
    <3>. QED
      BY <3>1, <3>3, <3>4
  <2>10. /\ v.todo = ((n + 1) + 1) .. Len(items'[t])
         /\ v.temp = FlattenSeq([k \in 1 .. n + 1 |-> Record(items'[t][k], v.boundaries)])
         /\ \A k \in 1 .. n + 1 : Holds(v.temp, items'[t][k].text)
         /\ n + 1 \in 0 .. Len(items'[t])
    BY <1>1, <2>2, <2>3, <2>6, <2>7, <2>9 DEF Records
  <2>11. ReplacesTheFile(t, flush[t][1])'
    BY <2>10 DEF ReplacesTheFile, Records, v
  <2>12. v.mode # "append" /\ (~v.boundaries => \A k \in v.todo : ~MultiLine(items'[t][k]))
    BY <1>1, <1>7, <1>10, <2>2, <2>3
  <2>13. ReadsBack(v.temp, shape') /\ t \in up'
    BY <1>1, <1>8, <2>2, <2>3, <2>8
  <2>. QED
    BY <2>11, <2>12, <2>13 DEF WriteFollows, v
<1>. QED
  BY <1>9, <1>10

LEMMA WriteStep ==
  ASSUME HistoryInv, [Next]_vars, NEW t \in Sessions, Writing(t)'
  PROVE  WriteFollows(t, flush[t][1])'
<1>. DEFINE w == flush[t][1]
            same == /\ items'[t] = items[t] /\ t \in up' /\ flush'[t] = flush[t]
<1>1. /\ TypeOK /\ file \in Seq(Lines) /\ up \subseteq Sessions
      /\ flush \in [Sessions -> Seq(Flushes)] /\ items \in [Sessions -> Seq(Items)]
  BY DEF HistoryInv, TypeOK
<1>2. Writing(t) => t \in up /\ ReadsBack(w.temp, shape) /\ w.temp \in Seq(Lines) /\ w \in Flushes
  <2>1. Writing(t) => w \in Flushes
    BY <1>1, TheFlush
  <2>. QED
    BY <2>1 DEF HistoryInv, WriteFollows, Flushes
<1>. USE DEF history
(* Nothing of the write changes; the file keeps what it holds.              *)
<1>3. ASSUME same, UNCHANGED shape, \A text \in Seq(Lines) : Holds(file, text) => Holds(file', text)
      PROVE  WriteFollows(t, flush[t][1])'
  <2>1. Writing(t) /\ flush'[t][1] = w
    BY <1>3 DEF Writing
  <2>2. ReadsBack(w.temp, shape')
    BY <1>2, <1>3, <2>1
  <2>. HIDE DEF w
  <2>. QED
    BY <1>3, <2>1, <2>2, WriteKept DEF w
<1>4. ASSUME same, UNCHANGED file, NEW kind \in Shapes, shape' = Append(shape, kind)
      PROVE  WriteFollows(t, flush[t][1])'
  <2>1. Writing(t) /\ flush'[t][1] = w
    BY <1>4 DEF Writing
  <2>2. ReadsBack(w.temp, shape')
    BY <1>1, <1>2, <1>4, <2>1, ShapeKeepsOrder
  <2>3. \A text \in Seq(Lines) : Holds(file, text) => Holds(file', text)
    BY <1>4
  <2>. HIDE DEF w
  <2>. QED
    BY <1>4, <2>1, <2>2, <2>3, WriteKept DEF w
<1>5. ASSUME NEW s \in Sessions, SessionStarts(s) \/ SyncEntries(s) \/ Clear(s)
      PROVE  WriteFollows(t, flush[t][1])'
  <2>1. UNCHANGED <<shape, file, flush>>
    BY <1>5 DEF SessionStarts, SyncEntries, Clear
  <2>2. Writing(t) /\ t \in up
    BY <1>2, <2>1 DEF Writing
  <2>3. s # t \/ SyncEntries(s)
    BY <1>5, <2>2 DEF SessionStarts, Clear, Idle
  <2>4. items'[t] = items[t] /\ t \in up'
    BY <1>1, <1>5, <2>2, <2>3 DEF SessionStarts, SyncEntries, Clear, load_history
  <2>. QED
    BY <1>3, <2>1, <2>4
<1>6. ASSUME NEW s \in Sessions, NEW i, Delete(s, i)
      PROVE  WriteFollows(t, flush[t][1])'
  <2>1. UNCHANGED <<shape, file, flush, up>>
    BY <1>6 DEF Delete
  <2>2. Writing(t) /\ t \in up
    BY <1>2, <2>1 DEF Writing
  <2>3. items'[t] = items[t]
    BY <1>1, <1>6, <2>2 DEF Delete, Idle
  <2>. QED
    BY <1>3, <2>1, <2>2, <2>3
<1>7. ASSUME NEW s \in Sessions, NEW kind \in Shapes, AddToHistory(s, kind) \/ AddSilently(s, kind)
      PROVE  WriteFollows(t, flush[t][1])'
  <2>1. UNCHANGED <<file, flush, up>> /\ shape' = Append(shape, kind)
    BY <1>7 DEF AddToHistory, AddSilently
  <2>2. Writing(t) /\ t \in up
    <3>1. flush'[t] = flush[t]
      BY <2>1
    <3>. QED
      BY <3>1, <1>2 DEF Writing
  <2>3. items'[t] = items[t]
    BY <1>1, <1>7, <2>2 DEF AddToHistory, AddSilently, Idle, truncate_to_max_items
  <2>4. same
    BY <2>1, <2>2, <2>3
  <2>. HIDE DEF same
  <2>. QED
    BY <1>4, <2>1, <2>4
<1>8. ASSUME NEW s \in Sessions, NEW mode \in Modes, NEW timestamps \in BOOLEAN, FlushBegins(s, mode, timestamps)
      PROVE  WriteFollows(t, flush[t][1])'
  <2>1. CASE s = t
    BY <1>8, <2>1, WriteBegins
  <2>2. CASE s # t
    <3>1. UNCHANGED <<shape, file, up, items>> /\ flush'[t] = flush[t]
      BY <1>1, <1>8, <2>2 DEF FlushBegins
    <3>2. t \in up
      BY <1>2, <3>1 DEF Writing
    <3>. QED
      BY <1>3, <3>1, <3>2
  <2>. QED
    BY <2>1, <2>2
<1>9. ASSUME NEW s \in Sessions, WriteRecord(s)
      PROVE  WriteFollows(t, flush[t][1])'
  <2>1. CASE s = t
    BY <1>9, <2>1, WriteProgress
  <2>2. CASE s # t
    <3>1. PICK i \in flush[s][1].todo : WriteOut(s, i, Record(items[s][i], flush[s][1].boundaries))
      BY <1>9 DEF WriteRecord
    <3>. DEFINE record == Record(items[s][i], flush[s][1].boundaries)
    <3>2. record \in Seq(Lines)
      BY <1>9, NextRecord DEF WriteRecord
    <3>3. UNCHANGED <<shape, up, items>> /\ (file' = file \/ file' = file \o record)
      BY <1>9, <3>1 DEF WriteRecord, WriteOut
    <3>4. flush'[t] = flush[t]
      BY <1>1, <2>2, <3>1 DEF WriteOut
    <3>. HIDE DEF record
    <3>5. \A text \in Seq(Lines) : Holds(file, text) => Holds(file', text)
      BY <1>1, <3>2, <3>3, HoldsConcat
    <3>6. t \in up
      BY <1>2, <3>4 DEF Writing
    <3>. QED
      BY <1>3, <3>3, <3>4, <3>5, <3>6
  <2>. QED
    BY <2>1, <2>2
<1>10. ASSUME NEW s \in Sessions, FlushEnds(s)
       PROVE  WriteFollows(t, flush[t][1])'
  <2>1. UNCHANGED <<shape, up>> /\ items' = [items EXCEPT ![s] = mark_items_saved(@)]
    BY <1>10 DEF FlushEnds
  <2>2. CASE flush[s][1].mode = "append"
    <3>1. flush' = [flush EXCEPT ![s] = <<>>] /\ file' = file
      BY <1>10, <2>2 DEF FlushEnds
    <3>2. s # t
      BY <1>1, <3>1 DEF Writing
    <3>3. flush'[t] = flush[t] /\ items'[t] = items[t]
      BY <1>1, <2>1, <3>1, <3>2
    <3>4. t \in up
      BY <1>2, <3>3 DEF Writing
    <3>. QED
      BY <1>3, <2>1, <3>1, <3>3, <3>4
  <2>3. CASE flush[s][1].mode # "append"
    <3>1. flush' = Raced(s)
      BY <1>10, <2>3 DEF FlushEnds
    <3>2. s # t
      BY <3>1 DEF Raced, Writing
    <3>3. /\ Writing(t) => flush'[t] = <<[flush[t][1] EXCEPT !.raced = TRUE]>>
          /\ ~Writing(t) => flush'[t] = flush[t]
      BY <3>1, <3>2 DEF Raced
    <3>4. Writing(t)
      BY <3>3 DEF Writing
    <3>5. w \in Flushes /\ t \in up /\ ReadsBack(w.temp, shape)
      BY <1>2, <3>4
    <3>6. /\ flush'[t][1].mode = flush[t][1].mode /\ flush'[t][1].todo = flush[t][1].todo
          /\ flush'[t][1].temp = flush[t][1].temp /\ flush'[t][1].boundaries = flush[t][1].boundaries
          /\ flush'[t][1].raced
      <4>1. flush'[t][1] = [w EXCEPT !.raced = TRUE]
        BY <3>3, <3>4
      <4>. QED
        BY <3>5, <4>1 DEF Flushes
    <3>7. items'[t] = items[t]
      BY <1>1, <2>1, <3>2
    <3>8. ReadsBack(flush[t][1].temp, shape') /\ t \in up'
      BY <2>1, <3>5
    <3>. QED
      BY <3>4, <3>6, <3>7, <3>8, WriteKept
  <2>. QED
    BY <2>2, <2>3
<1>11. ASSUME NEW s \in Sessions, FlushFails(s) \/ SessionEnds(s)
       PROVE  WriteFollows(t, flush[t][1])'
  <2>1. flush' = [flush EXCEPT ![s] = <<>>] /\ UNCHANGED <<shape, file>>
    BY <1>11 DEF FlushFails, SessionEnds
  <2>2. s # t
    BY <1>1, <2>1 DEF Writing
  <2>3. flush'[t] = flush[t] /\ items'[t] = items[t]
    BY <1>1, <1>11, <2>1, <2>2 DEF FlushFails, SessionEnds
  <2>4. t \in up'
    BY <1>2, <1>11, <2>2, <2>3 DEF Writing, FlushFails, SessionEnds
  <2>. QED
    BY <1>3, <2>1, <2>3, <2>4
<1>12. ASSUME UNCHANGED vars
       PROVE  WriteFollows(t, flush[t][1])'
  <2>1. UNCHANGED <<shape, file, up, items, flush>>
    BY <1>12 DEF vars
  <2>2. t \in up
    BY <1>2, <2>1 DEF Writing
  <2>. QED
    BY <1>3, <2>1, <2>2
<1>. QED
  BY <1>5, <1>6, <1>7, <1>8, <1>9, <1>10, <1>11, <1>12 DEF Next, Edits, Writes

-----------------------------------------------------------------------------
(* The invariant holds in every reachable state.                            *)
LEMMA HistoryStarts ==
  ASSUME Init
  PROVE  HistoryInv
<1>1. TypeOK
  BY DEF Init, TypeOK
<1>2. ReadsBack(file, shape)
  BY DEF Init, ReadsBack, Orderly, SinglesFirst
<1>3. \A s \in Sessions : CopyFollows(s) /\ ItemsWellFormed(s) /\ ~Writing(s)
  BY DEF Init, CopyFollows, ItemsWellFormed, Writing
<1>. QED
  BY <1>1, <1>2, <1>3 DEF HistoryInv

(***************************************************************************)
(* In every state the sessions can reach, each editor's copy follows its    *)
(* history, everything in memory and in the file is made of commands that   *)
(* were entered, and each write that has begun is where the rest of it      *)
(* takes it to be (history.rs, flush and flush_with_replacement).           *)
(***************************************************************************)
THEOREM HistoryInvariant == Spec => []HistoryInv
<1>1. Init => HistoryInv
  BY HistoryStarts
<1>2. HistoryInv /\ [Next]_vars => HistoryInv'
  <2>. SUFFICES ASSUME HistoryInv, [Next]_vars
                PROVE  HistoryInv'
    OBVIOUS
  <2>1. TypeOK'
    BY TypeStep
  <2>2. ReadsBack(file', shape')
    BY FileStep
  <2>3. \A s \in Sessions : CopyFollows(s)' /\ ItemsWellFormed(s)'
    BY CopyStep, ItemsStep
  <2>4. \A s \in Sessions : Writing(s)' => WriteFollows(s, flush[s][1])'
    BY WriteStep
  <2>. QED
    BY <2>1, <2>2, <2>3, <2>4 DEF HistoryInv
<1>. QED
  BY <1>1, <1>2, PTL DEF Spec

(* Every variable keeps its type: in particular no session has two writes   *)
(* open, and what is in memory never holds a boundary line.                 *)
THEOREM HistoryTypes == Spec => []TypeOK
<1>1. HistoryInv => TypeOK
  BY DEF HistoryInv
<1>. QED
  BY <1>1, HistoryInvariant, PTL

-----------------------------------------------------------------------------
(***************************************************************************)
(* The properties the runs check.                                          *)
(***************************************************************************)
(* Whenever the revisions say that nothing changed, the line editor's copy  *)
(* of the history is exact (sync_history_entries, input_backend.rs).        *)
THEOREM EntriesAlwaysCurrent == Spec => []EntriesCurrent
<1>1. HistoryInv => EntriesCurrent
  <2>. SUFFICES ASSUME HistoryInv, NEW s \in up, ~changed[s]
                PROVE  entries[s] = Texts(items[s])
    BY DEF EntriesCurrent
  <2>1. s \in Sessions /\ items[s] \in Seq(Items) /\ entries[s] \in Seq(CommandText)
    BY DEF HistoryInv, TypeOK
  <2>2. /\ Len(entries[s]) = Len(items[s])
        /\ \A i \in 1 .. Len(entries[s]) : entries[s][i] = items[s][i].text
    BY <2>1 DEF HistoryInv, CopyFollows
  <2>3. entries[s] = [i \in 1 .. Len(entries[s]) |-> entries[s][i]]
    BY <2>1
  <2>4. Texts(items[s]) = [i \in 1 .. Len(items[s]) |-> items[s][i].text]
    BY <2>1 DEF Texts
  <2>. QED
    BY <2>2, <2>3, <2>4
<1>. QED
  BY <1>1, HistoryInvariant, PTL

(* A file written with boundaries throughout, or without any, reads back as *)
(* commands somebody entered, each whole and by itself, whoever wrote it at *)
(* the same time and whatever failed (import_with_limit, flush), unless a   *)
(* line of a command that has several reads as a boundary; a command that   *)
(* is such a line counts as a boundary itself (parse_timestamp_boundary).   *)
THEOREM RecordsAlwaysWhole == Spec => []RecordsWhole
<1>1. HistoryInv => RecordsWhole
  <2>. SUFFICES ASSUME HistoryInv, Regular(file), NEW i \in DOMAIN Imported(file)
                PROVE  Whole(Imported(file)[i])
    BY DEF RecordsWhole
  <2>1. TypeOK /\ file \in Seq(Lines) /\ ReadsBack(file, shape)
    BY DEF HistoryInv, TypeOK
  <2>2. /\ Imported(file) \in Seq(CommandText)
        /\ \A k \in 1 .. Len(Imported(file)) :
             ReadAsLine(file, Imported(file)[k]) \/ ReadAsRecord(file, Imported(file)[k])
    BY <2>1, ImportedElements
  <2>3. ReadAsLine(file, Imported(file)[i]) \/ ReadAsRecord(file, Imported(file)[i])
    BY <2>2
  <2>. QED
    BY <2>1, <2>3, LineReadsBack, RecordReadsBackWhole
<1>. QED
  BY <1>1, HistoryInvariant, PTL

(* An item is marked saved only once all its lines are in the file, unless  *)
(* another session replaced the file meanwhile (flush, mark_items_saved).   *)
THEOREM SavedItemsWritten == Spec => SavedMeansWritten
<1>. DEFINE Marks(s, i) ==
       /\ items[s][i].dirty
       /\ i \in DOMAIN items'[s]
       /\ items'[s][i] = [items[s][i] EXCEPT !.dirty = FALSE]
       /\ Writing(s)
<1>1. ASSUME HistoryInv, [Next]_vars, NEW s \in up, NEW i \in DOMAIN items[s], Marks(s, i)
      PROVE  flush[s][1].raced \/ Holds(file', items[s][i].text)
  <2>. DEFINE w == flush[s][1]
  <2>1. /\ TypeOK /\ s \in Sessions /\ items \in [Sessions -> Seq(Items)] /\ items[s] \in Seq(Items)
        /\ WriteFollows(s, w)
    BY <1>1 DEF HistoryInv, TypeOK
  <2>2. i \in 1 .. Len(items[s]) /\ items[s][i] \in Items
    BY <2>1
  <2>3. items'[s] # items[s]
    <3>1. [items[s][i] EXCEPT !.dirty = FALSE].dirty = FALSE
      BY <2>2 DEF Items
    <3>. QED
      BY <1>1, <3>1
  <2>4. FlushEnds(s)
    <3>. USE DEF history
    <3>1. ASSUME NEW u \in Sessions, SessionStarts(u)
          PROVE  FlushEnds(s)
      <4>1. u # s
        BY <3>1 DEF SessionStarts
      <4>. QED
        BY <2>1, <2>3, <3>1, <4>1 DEF SessionStarts, load_history
    <3>2. ASSUME NEW u \in Sessions, NEW kind, AddToHistory(u, kind) \/ AddSilently(u, kind)
          PROVE  FlushEnds(s)
      <4>1. u # s
        BY <1>1, <3>2 DEF AddToHistory, AddSilently, Idle
      <4>. QED
        BY <2>1, <2>3, <3>2, <4>1 DEF AddToHistory, AddSilently, truncate_to_max_items
    <3>3. ASSUME NEW u \in Sessions, NEW k, Delete(u, k) \/ Clear(u)
          PROVE  FlushEnds(s)
      <4>1. u # s
        BY <1>1, <3>3 DEF Delete, Clear, Idle
      <4>. QED
        BY <2>1, <2>3, <3>3, <4>1 DEF Delete, Clear
    <3>4. ASSUME NEW u \in Sessions, NEW mode, NEW timestamps,
                 SyncEntries(u) \/ FlushBegins(u, mode, timestamps) \/ WriteRecord(u) \/ FlushFails(u)
          PROVE  FlushEnds(s)
      BY <2>3, <3>4 DEF SyncEntries, FlushBegins, WriteRecord, FlushFails
    <3>5. ASSUME NEW u \in Sessions, SessionEnds(u)
          PROVE  FlushEnds(s)
      <4>1. u # s
        <5>1. u = s => items'[s] = <<>>
          BY <2>1, <3>5 DEF SessionEnds
        <5>2. DOMAIN <<>> = {}
          OBVIOUS
        <5>. QED
          BY <1>1, <5>1, <5>2
      <4>. QED
        BY <2>1, <2>3, <3>5, <4>1 DEF SessionEnds
    <3>6. ASSUME NEW u \in Sessions, FlushEnds(u)
          PROVE  FlushEnds(s)
      <4>1. u = s
        BY <2>1, <2>3, <3>6 DEF FlushEnds
      <4>. QED
        BY <3>6, <4>1
    <3>7. ASSUME UNCHANGED vars
          PROVE  FlushEnds(s)
      BY <2>3, <3>7 DEF vars
    <3>. QED
      BY <1>1, <3>1, <3>2, <3>3, <3>4, <3>5, <3>6, <3>7 DEF Next, Edits, Writes
  <2>5. w.todo = {}
    BY <2>4 DEF FlushEnds
  <2>6. CASE w.mode = "append"
    <3>1. file' = file
      BY <2>4, <2>6 DEF FlushEnds
    <3>2. i \in Selected(s, "append") \ w.todo
      BY <1>1, <2>5 DEF Selected
    <3>3. ~w.raced => Holds(file, items[s][i].text)
      BY <2>1, <2>6, <3>2 DEF WriteFollows, Appends
    <3>. QED
      BY <3>1, <3>3
  <2>7. CASE w.mode # "append"
    <3>1. file' = w.temp
      BY <2>4, <2>7 DEF FlushEnds
    <3>2. PICK n \in 0 .. Len(items[s]) :
            /\ w.todo = (n + 1) .. Len(items[s])
            /\ \A k \in 1 .. n : Holds(w.temp, items[s][k].text)
      BY <2>1, <2>7 DEF WriteFollows, ReplacesTheFile
    <3>3. i \in 1 .. n
      <4>1. Len(items[s]) \in Nat /\ n \in Nat
        BY <2>1
      <4>2. i \notin (n + 1) .. Len(items[s])
        BY <2>5, <3>2
      <4>. QED
        BY <2>2, <4>1, <4>2
    <3>. QED
      BY <3>1, <3>2, <3>3
  <2>. QED
    BY <2>6, <2>7
<1>2. HistoryInv /\ [Next]_vars =>
        [\A s \in up : \A i \in DOMAIN items[s] :
           Marks(s, i) => flush[s][1].raced \/ Holds(file', items[s][i].text)]_vars
  BY <1>1
<1>. QED
  BY <1>2, HistoryInvariant, PTL DEF Spec, SavedMeansWritten

(* A step appends one whole record of a session that runs, or replaces the  *)
(* file by a complete image of one session's history; nothing that fails or *)
(* is killed half-way shows in it (flush_with_replacement).                 *)
THEOREM FileNeverTorn == Spec => NeverTorn
<1>. DEFINE Appended == \E s \in up : \E i \in DOMAIN items[s], boundaries \in BOOLEAN :
                          items[s][i].dirty /\ file' = file \o Record(items[s][i], boundaries)
<1>1. ASSUME HistoryInv, [Next]_vars, file' # file
      PROVE  Appended \/ \E s \in up : ImageOf(s)
  <2>1. TypeOK /\ items \in [Sessions -> Seq(Items)]
    BY <1>1 DEF HistoryInv, TypeOK
  <2>2. ASSUME NEW s \in Sessions, WriteRecord(s)
        PROVE  Appended
    <3>. DEFINE w == flush[s][1]
    <3>1. PICK i \in w.todo : WriteOut(s, i, Record(items[s][i], w.boundaries))
      BY <2>2 DEF WriteRecord
    <3>2. w.mode = "append" /\ file' = file \o Record(items[s][i], w.boundaries)
      BY <1>1, <3>1 DEF WriteOut
    <3>3. Writing(s) /\ WriteFollows(s, w) /\ w \in Flushes
      BY <1>1, <2>1, <2>2, TheFlush DEF WriteRecord, HistoryInv
    <3>4. s \in up /\ i \in Selected(s, "append") /\ w.boundaries \in BOOLEAN
      BY <3>2, <3>3 DEF WriteFollows, Appends, Flushes
    <3>5. i \in DOMAIN items[s] /\ items[s][i].dirty
      BY <3>4 DEF Selected
    <3>. QED
      BY <3>2, <3>4, <3>5
  <2>3. ASSUME NEW s \in Sessions, FlushEnds(s)
        PROVE  \E t \in up : ImageOf(t)
    <3>. DEFINE w == flush[s][1]
    <3>1. w.mode # "append" /\ file' = w.temp /\ w.todo = {}
      BY <1>1, <2>3 DEF FlushEnds
    <3>2. Writing(s) /\ WriteFollows(s, w) /\ w \in Flushes /\ items[s] \in Seq(Items)
      BY <1>1, <2>1, <2>3, TheFlush DEF FlushEnds, HistoryInv
    <3>3. PICK n \in 0 .. Len(items[s]) :
            /\ w.todo = (n + 1) .. Len(items[s])
            /\ w.temp = FlattenSeq(Records(s, n, w.boundaries))
      BY <3>1, <3>2 DEF WriteFollows, ReplacesTheFile
    <3>4. n = Len(items[s])
      <4>1. Len(items[s]) \in Nat /\ n \in Nat /\ n <= Len(items[s])
        BY <3>2
      <4>2. (n + 1) .. Len(items[s]) = {}
        BY <3>1, <3>3
      <4>3. n < Len(items[s]) => n + 1 \in (n + 1) .. Len(items[s])
        BY <4>1
      <4>4. ~(n < Len(items[s]))
        BY <4>2, <4>3
      <4>. QED
        BY <4>1, <4>4
    <3>5. DOMAIN items[s] = 1 .. n
      BY <3>2, <3>4
    <3>6. s \in up /\ w.boundaries \in BOOLEAN
      BY <3>2 DEF WriteFollows, Flushes
    <3>7. file' = FlattenSeq([i \in DOMAIN items[s] |-> Record(items[s][i], w.boundaries)])
      BY <3>1, <3>3, <3>5 DEF Records
    <3>. QED
      BY <3>6, <3>7 DEF ImageOf
  <2>4. ASSUME NEW s \in Sessions, NEW i, NEW kind, NEW mode, NEW timestamps,
               \/ SessionStarts(s) \/ SyncEntries(s) \/ AddToHistory(s, kind) \/ AddSilently(s, kind)
               \/ Delete(s, i) \/ Clear(s) \/ FlushBegins(s, mode, timestamps)
               \/ FlushFails(s) \/ SessionEnds(s)
        PROVE  FALSE
    BY <1>1, <2>4 DEF SessionStarts, SyncEntries, AddToHistory, AddSilently, Delete, Clear,
                      FlushBegins, FlushFails, SessionEnds
  <2>5. ~UNCHANGED vars
    BY <1>1 DEF vars
  <2>. QED
    BY <1>1, <2>2, <2>3, <2>4, <2>5 DEF Next, Edits, Writes
<1>2. HistoryInv /\ [Next]_vars =>
        [file' # file => Appended \/ \E s \in up : ImageOf(s)]_vars
  BY <1>1
<1>. QED
  BY <1>2, HistoryInvariant, PTL DEF Spec, NeverTorn

-----------------------------------------------------------------------------
(***************************************************************************)
(* The menu, and what the editor's keys do.                                *)
(***************************************************************************)
(***************************************************************************)
(* Room for the menu: the screen scrolled.                                 *)
(***************************************************************************)
ScrolledBy(iter, t, lines) ==
  iter = [s \in SUBSET DOMAIN lines |-> IF s = {} THEN t ELSE Newline(iter[s \ {Max(s)}])]

LEMMA ScrolledUnfolds ==
  \A t, n : Scrolled(t, n) = (CHOOSE iter : ScrolledBy(iter, t, Spaces(n)))[DOMAIN Spaces(n)]
  BY Zenon DEF Scrolled, FoldLeft, MapThenFoldSet, ScrolledBy

Scrolls(d, t, n) ==
  /\ d \in [0 .. n -> Consoles]
  /\ d[0] = t
  /\ \A k \in 0 .. (n - 1) : d[k + 1] = Newline(d[k])

LEMMA ScrolledFolds ==
  ASSUME NEW t \in Consoles, NEW n \in Nat
  PROVE  \E d : Scrolls(d, t, n) /\ Scrolled(t, n) = d[n]
<1>. PICK lines : lines = Spaces(n)
  OBVIOUS
<1>. DEFINE V == Consoles
            step == [p \in Nat \X V |-> Newline(p[2])]
<1>1. DOMAIN lines = 1 .. n
  BY DEF Spaces
<1>2. step \in [Nat \X V -> V] /\ t \in V
  BY NewlineMoves
<1>3. \A m \in 1 .. n, v \in V : step[<<m, v>>] = Newline(v)
  OBVIOUS
<1>. HIDE DEF step, V
<1>4. PICK iter : FoldedBy(iter, n, V, t, step)
  BY <1>2, FoldExists
<1>. DEFINE h == CHOOSE g : ScrolledBy(g, t, lines)
<1>5. ScrolledBy(h, t, lines)
  <2>1. FoldsTo(iter, n, V, t, step)
    BY <1>2, <1>4, FoldValues
  <2>2. \A s \in SUBSET (1 .. n) : s # {} => iter[s] = Newline(iter[s \ {Max(s)}])
    BY <2>1, <1>3 DEF FoldsTo
  <2>3. ScrolledBy(iter, t, lines)
    BY <1>1, <2>1, <2>2 DEF ScrolledBy, FoldsTo
  <2>. QED
    BY <2>3
<1>6. Scrolled(t, n) = h[1 .. n]
  BY <1>1, ScrolledUnfolds
<1>. HIDE DEF h
<1>7. h[{}] = t /\ \A s \in SUBSET (1 .. n) : s # {} => h[s] = Newline(h[s \ {Max(s)}])
  BY <1>1, <1>5 DEF ScrolledBy
<1>8. \A s \in SUBSET (1 .. n) : s # {} => Max(s) \in 1 .. n
  BY <1>2, <1>4, FoldValues DEF FoldsTo
<1>9. Steps(h, n, V, t, step)
  BY <1>3, <1>7, <1>8 DEF Steps
<1>a. Chained(h, n, V, t, step)
  BY <1>2, <1>9, FoldChain
<1>10. PICK d : Chain(d, n, V, t, step) /\ h[1 .. n] = d[n]
  BY <1>a DEF Chained
<1>11. \A k \in 0 .. (n - 1) : d[k + 1] = Newline(d[k])
  <2>1. \A k \in 0 .. (n - 1) : k + 1 \in 1 .. n /\ k \in 0 .. n
    OBVIOUS
  <2>2. \A k \in 0 .. (n - 1) : d[k] \in V /\ d[k + 1] = step[<<k + 1, d[k]>>]
    BY <1>10, <2>1 DEF Chain
  <2>. QED
    BY <2>1, <2>2, <1>3
<1>12. Scrolls(d, t, n)
  BY <1>10, <1>11 DEF Chain, Scrolls, V
<1>. QED
  BY <1>6, <1>10, <1>12

(* After k newlines every row from the k-th above the cursor on is blank, but for that row itself. *)
BlankFrom(s, k) == \A r \in 1 .. Height : s.y < r + k => BlankAfter(s.cells[r], 0)
RowAfter(t, k) == IF t.y + k <= Height THEN t.y + k ELSE Height

LEMMA NewlineScrolls ==
  ASSUME NEW s \in Consoles, NEW k \in Nat, BlankFrom(s, k)
  PROVE  BlankFrom(Newline(s), k + 1)
<1>. PICK u : u = Newline(s)
  OBVIOUS
<1>. PICK h \in Nat : h = Height
  BY Sizes
<1>. PICK y \in Nat : y = s.y
  BY ConsoleFields
<1>. SUFFICES ASSUME NEW r \in 1 .. h, u.y < r + (k + 1)
              PROVE  BlankAfter(u.cells[r], 0)
  BY DEF BlankFrom
<1>1. CASE y < h
  <2>1. u.y = y + 1 /\ u.cells = s.cells
    BY <1>1, NewlineMoves
  <2>2. y < r + k
    BY <2>1
  <2>. QED
    BY <2>1, <2>2 DEF BlankFrom
<1>2. CASE ~(y < h)
  <2>0. y = h
    BY <1>2, ConsoleFields
  <2>1. u.y = h /\ \A i \in 1 .. h : u.cells[i] = IF i < h THEN s.cells[i + 1] ELSE EmptyRow
    BY <2>0, NewlineMoves
  <2>2. CASE r < h
    <3>1. r + 1 \in 1 .. h /\ y < (r + 1) + k
      BY <2>0, <2>1, <2>2
    <3>2. u.cells[r] = s.cells[r + 1]
      BY <2>1, <2>2
    <3>. QED
      BY <3>1, <3>2 DEF BlankFrom
  <2>3. CASE ~(r < h)
    <3>1. u.cells[r] = EmptyRow
      BY <2>1, <2>3
    <3>. QED
      BY <3>1, EmptyRowBlank
  <2>. QED
    BY <2>2, <2>3
<1>. QED
  BY <1>1, <1>2

LEMMA ScrolledIs ==
  ASSUME NEW t \in Consoles, NEW n \in Nat
  PROVE  /\ Scrolled(t, n) \in Consoles
         /\ Scrolled(t, n).y = RowAfter(t, n)
         /\ BlankBelow(t) => BlankFrom(Scrolled(t, n), n)
<1>1. PICK d : Scrolls(d, t, n) /\ Scrolled(t, n) = d[n]
  BY ScrolledFolds
<1>. DEFINE S == {k \in Nat : k <= n => d[k].y = RowAfter(t, k) /\ (BlankBelow(t) => BlankFrom(d[k], k))}
<1>. PICK h \in Nat : h = Height
  BY Sizes
<1>2. 0 \in S
  <2>1. d[0] = t
    BY <1>1 DEF Scrolls
  <2>2. t.y \in Nat /\ t.y + 0 <= h /\ t.y + 0 = t.y /\ \A r \in 1 .. h : r + 0 = r
    BY ConsoleFields
  <2>3. RowAfter(t, 0) = t.y
    BY <2>2 DEF RowAfter
  <2>4. BlankBelow(t) => BlankFrom(t, 0)
    BY <2>2 DEF BlankBelow, BlankFrom
  <2>. QED
    BY <2>1, <2>3, <2>4
<1>3. ASSUME NEW k \in Nat, k \in S
      PROVE  k + 1 \in S
  <2>. SUFFICES ASSUME k + 1 <= n
                PROVE  d[k + 1].y = RowAfter(t, k + 1) /\ (BlankBelow(t) => BlankFrom(d[k + 1], k + 1))
    OBVIOUS
  <2>1. k \in 0 .. (n - 1) /\ k \in 0 .. n /\ k <= n
    OBVIOUS
  <2>. PICK s : s = d[k]
    OBVIOUS
  <2>2. s \in Consoles /\ d[k + 1] = Newline(s)
    BY <1>1, <2>1 DEF Scrolls
  <2>3. s.y = RowAfter(t, k) /\ (BlankBelow(t) => BlankFrom(s, k))
    BY <1>3, <2>1
  <2>4. Newline(s).y = RowAfter(t, k + 1)
    <3>. PICK y \in Nat : y = t.y /\ y <= h
      BY ConsoleFields
    <3>1. s.y = IF y + k <= h THEN y + k ELSE h
      BY <2>3 DEF RowAfter
    <3>2. Newline(s).y = IF s.y < h THEN s.y + 1 ELSE h
      BY <2>2, NewlineMoves, ConsoleFields
    <3>3. Newline(s).y = IF y + (k + 1) <= h THEN y + (k + 1) ELSE h
      BY <3>1, <3>2
    <3>. QED
      BY <3>3 DEF RowAfter
  <2>5. BlankBelow(t) => BlankFrom(Newline(s), k + 1)
    BY <2>2, <2>3, NewlineScrolls
  <2>. QED
    BY <2>2, <2>4, <2>5
<1>. HIDE DEF S
<1>4. n \in S
  BY <1>2, <1>3, Induction
<1>5. n \in 0 .. n /\ n <= n
  OBVIOUS
<1>. QED
  BY <1>1, <1>4, <1>5 DEF S, Scrolls

-----------------------------------------------------------------------------
(***************************************************************************)
(* A row of the menu.                                                      *)
(***************************************************************************)
CellAt(candidates, selected, width, index) ==
  format_completion_cell(IF index = selected THEN ">" ELSE " ", format_completion_candidate(candidates[index + 1]), width)

RowStep(candidates, rows, selected, width, row, shown, column) ==
  IF (column - 1) * rows + row < Len(candidates)
  THEN shown \o CellAt(candidates, selected, width, (column - 1) * rows + row)
  ELSE shown

MenuRowBy(iter, candidates, rows, columns, selected, width, row) ==
  iter = [s \in SUBSET DOMAIN columns |->
            IF s = {} THEN <<>>
            ELSE RowStep(candidates, rows, selected, width, row, iter[s \ {Max(s)}], columns[Max(s)])]

MenuRowOf(candidates, rows, columns, selected, width, row) ==
  (CHOOSE iter : MenuRowBy(iter, candidates, rows, columns, selected, width, row))[DOMAIN columns]

LEMMA MenuRowUnfolds ==
  \A m, width, row :
    MenuRow(m, width, row)
      = MenuRowOf(m.candidates, m.rows, [column \in 1 .. m.columns |-> column], m.selected, width, row)
  BY Zenon DEF MenuRow, FoldLeft, MapThenFoldSet, MenuRowBy, MenuRowOf, RowStep, CellAt, Marker

LEMMA Markers == {">", " "} \subseteq Characters \ WideChars
  BY EditorAssumption

LEMMA CellAtType ==
  ASSUME NEW candidates \in CandidateLists, NEW selected, NEW index \in Nat, index < Len(candidates),
         NEW width \in Nat, width = completion_column_width(candidates)
  PROVE  /\ CellAt(candidates, selected, width, index) \in RowTexts
         /\ display_width(CellAt(candidates, selected, width, index)) = width
<1>. PICK n \in Nat : n = Len(candidates)
  BY Candidates
<1>1. index + 1 \in 1 .. n /\ n >= 1
  OBVIOUS
<1>. PICK value : value = format_completion_candidate(candidates[index + 1])
  OBVIOUS
<1>2. value \in RowTexts /\ width >= 2
  BY <1>1, ColumnWidth
<1>0. PICK marker : marker = IF index = selected THEN ">" ELSE " "
  OBVIOUS
<1>3. marker \in Characters \ WideChars
  BY <1>0, Markers, Zenon
<1>4. CellAt(candidates, selected, width, index) = format_completion_cell(marker, value, width)
  BY <1>0, Zenon DEF CellAt
<1>. QED
  BY <1>2, <1>3, <1>4, CellType

LEMMA RowStepType ==
  ASSUME NEW candidates \in CandidateLists, NEW rows \in Nat, NEW selected,
         NEW width \in Nat, width = completion_column_width(candidates),
         NEW row \in Nat, NEW shown \in RowTexts, NEW column \in Nat \ {0}
  PROVE  /\ RowStep(candidates, rows, selected, width, row, shown, column) \in RowTexts
         /\ display_width(RowStep(candidates, rows, selected, width, row, shown, column)) <= display_width(shown) + width
<1>. PICK before \in Nat : before = column - 1
  OBVIOUS
<1>. PICK n \in Nat : n = Len(candidates)
  BY Candidates
<1>. PICK index : index = before * rows + row
  OBVIOUS
<1>1. index \in Nat
  OBVIOUS
<1>. PICK w \in Nat : w = display_width(shown)
  BY WidthType DEF RowTexts
<1>. PICK next : next = RowStep(candidates, rows, selected, width, row, shown, column)
  OBVIOUS
<1>2. CASE index < n
  <2>. PICK cell : cell = CellAt(candidates, selected, width, index)
    OBVIOUS
  <2>1. cell \in RowTexts /\ display_width(cell) = width
    BY <1>1, <1>2, CellAtType
  <2>2. next = shown \o cell
    BY <1>2 DEF RowStep
  <2>3. next \in RowTexts /\ display_width(next) = w + width
    BY <2>1, <2>2, ConcatProperties, WidthConcat DEF RowTexts
  <2>. QED
    BY <2>3
<1>3. CASE ~(index < n)
  <2>1. next = shown
    BY <1>3 DEF RowStep
  <2>2. w <= w + width
    OBVIOUS
  <2>. QED
    BY <2>1, <2>2
<1>. QED
  BY <1>2, <1>3

RowGrows(d, candidates, rows, n, selected, width, row) ==
  /\ d \in [0 .. n -> RowTexts]
  /\ d[0] = <<>>
  /\ \A k \in 0 .. (n - 1) : d[k + 1] = RowStep(candidates, rows, selected, width, row, d[k], k + 1)

LEMMA MenuRowFolds ==
  ASSUME NEW candidates \in CandidateLists, NEW rows \in Nat, NEW n \in Nat, NEW selected,
         NEW width \in Nat, width = completion_column_width(candidates), NEW row \in Nat
  PROVE  \E d : /\ RowGrows(d, candidates, rows, n, selected, width, row)
                /\ MenuRowOf(candidates, rows, [column \in 1 .. n |-> column], selected, width, row) = d[n]
<1>. PICK columns : columns = [column \in 1 .. n |-> column]
  OBVIOUS
<1>. DEFINE V == RowTexts
            Longer(v, column) == RowStep(candidates, rows, selected, width, row, v, column)
            step == [p \in Nat \X V |-> IF p[1] \in 1 .. n THEN Longer(p[2], columns[p[1]]) ELSE p[2]]
<1>. PICK base : base = <<>>
  OBVIOUS
<1>1. DOMAIN columns = 1 .. n /\ \A i \in 1 .. n : columns[i] = i /\ i \in Nat \ {0}
  OBVIOUS
<1>b. \A v \in RowTexts, i \in 1 .. n : Longer(v, i) \in RowTexts
  BY <1>1, RowStepType
<1>. HIDE DEF Longer
<1>2. step \in [Nat \X V -> V] /\ base \in V
  <2>1. ASSUME NEW p \in Nat \X V, p[1] \in 1 .. n
        PROVE  Longer(p[2], columns[p[1]]) \in V
    <3>1. p[2] \in RowTexts /\ columns[p[1]] = p[1]
      BY <2>1, <1>1
    <3>. QED
      BY <2>1, <3>1, <1>b
  <2>2. base \in V
    BY Histories
  <2>. QED
    BY <2>1, <2>2
<1>3. \A m \in 1 .. n, v \in V : step[<<m, v>>] = Longer(v, columns[m])
  OBVIOUS
<1>. HIDE DEF step, V
<1>4. PICK iter : FoldedBy(iter, n, V, base, step)
  BY <1>2, FoldExists
<1>. DEFINE h == CHOOSE g : MenuRowBy(g, candidates, rows, columns, selected, width, row)
<1>5. MenuRowBy(h, candidates, rows, columns, selected, width, row)
  <2>1. FoldsTo(iter, n, V, base, step)
    BY <1>2, <1>4, FoldValues
  <2>2. \A s \in SUBSET (1 .. n) : s # {} => iter[s] = Longer(iter[s \ {Max(s)}], columns[Max(s)])
    BY <2>1, <1>3, ZenonT(20) DEF FoldsTo
  <2>3. MenuRowBy(iter, candidates, rows, columns, selected, width, row)
    BY <1>1, <2>1, <2>2 DEF MenuRowBy, FoldsTo, Longer
  <2>. QED
    BY <2>3
<1>6. MenuRowOf(candidates, rows, columns, selected, width, row) = h[1 .. n]
  BY <1>1 DEF MenuRowOf
<1>. HIDE DEF h
<1>7. h[{}] = base /\ \A s \in SUBSET (1 .. n) : s # {} => h[s] = Longer(h[s \ {Max(s)}], columns[Max(s)])
  BY <1>1, <1>5 DEF MenuRowBy, Longer
<1>8. \A s \in SUBSET (1 .. n) : s # {} => Max(s) \in 1 .. n
  BY <1>2, <1>4, FoldValues DEF FoldsTo
<1>9. Steps(h, n, V, base, step)
  BY <1>3, <1>7, <1>8 DEF Steps
<1>a. Chained(h, n, V, base, step)
  BY <1>2, <1>9, FoldChain
<1>10. PICK d : Chain(d, n, V, base, step) /\ h[1 .. n] = d[n]
  BY <1>a DEF Chained
<1>11. \A k \in 0 .. (n - 1) : d[k + 1] = Longer(d[k], k + 1)
  <2>1. \A k \in 0 .. (n - 1) : k + 1 \in 1 .. n /\ k \in 0 .. n
    OBVIOUS
  <2>2. \A k \in 0 .. (n - 1) : d[k] \in V /\ d[k + 1] = step[<<k + 1, d[k]>>]
    BY <1>10, <2>1 DEF Chain
  <2>. QED
    BY <2>1, <2>2, <1>1, <1>3
<1>12. RowGrows(d, candidates, rows, n, selected, width, row)
  BY <1>10, <1>11 DEF Chain, RowGrows, V, Longer
<1>. QED
  BY <1>6, <1>10, <1>12

RowFits(w, k, width) == w <= k * width

LEMMA OneCellMore ==
  ASSUME NEW w \in Nat, NEW k \in Nat, NEW width \in Nat, RowFits(w, k, width), NEW more \in Nat, more <= w + width
  PROVE  RowFits(more, k + 1, width)
<1>1. (k + 1) * width = k * width + width
  OBVIOUS
<1>. PICK p \in Nat : p = k * width
  OBVIOUS
<1>2. w <= p
  BY DEF RowFits
<1>3. more <= p + width
  BY <1>2
<1>4. more <= (k + 1) * width
  BY <1>1, <1>3
<1>. QED
  BY <1>4 DEF RowFits

LEMMA MenuRowOfType ==
  ASSUME NEW candidates \in CandidateLists, NEW rows \in Nat, NEW n \in Nat, NEW selected,
         NEW width \in Nat, width = completion_column_width(candidates), NEW row \in Nat, NEW shown,
         shown = MenuRowOf(candidates, rows, [column \in 1 .. n |-> column], selected, width, row)
  PROVE  shown \in RowTexts /\ RowFits(display_width(shown), n, width)
<1>1. PICK d : RowGrows(d, candidates, rows, n, selected, width, row) /\ shown = d[n]
  BY MenuRowFolds
<1>. DEFINE S == {k \in Nat : k <= n => RowFits(display_width(d[k]), k, width)}
<1>2. 0 \in S
  <2>1. d[0] = <<>>
    BY <1>1 DEF RowGrows
  <2>2. display_width(d[0]) = 0
    BY <2>1, WidthEmpty
  <2>3. 0 * width = 0
    OBVIOUS
  <2>4. RowFits(0, 0, width)
    BY <2>3 DEF RowFits
  <2>. QED
    BY <2>2, <2>4
<1>3. ASSUME NEW k \in Nat, k \in S
      PROVE  k + 1 \in S
  <2>. SUFFICES ASSUME k + 1 <= n
                PROVE  RowFits(display_width(d[k + 1]), k + 1, width)
    OBVIOUS
  <2>1. k \in 0 .. (n - 1) /\ k \in 0 .. n /\ k <= n /\ k + 1 \in 0 .. n /\ k + 1 \in Nat \ {0}
    OBVIOUS
  <2>. PICK next : next = d[k + 1]
    OBVIOUS
  <2>. PICK now : now = d[k]
    OBVIOUS
  <2>2. now \in RowTexts /\ next \in RowTexts /\ next = RowStep(candidates, rows, selected, width, row, now, k + 1)
    BY <1>1, <2>1 DEF RowGrows
  <2>3. display_width(next) <= display_width(now) + width
    BY <2>1, <2>2, RowStepType
  <2>4. display_width(next) \in Nat /\ display_width(now) \in Nat
    BY <2>2, WidthType DEF RowTexts
  <2>5. RowFits(display_width(now), k, width)
    BY <1>3, <2>1
  <2>. QED
    BY <2>3, <2>4, <2>5, OneCellMore
<1>. HIDE DEF S
<1>4. n \in S
  BY <1>2, <1>3, Induction
<1>5. n \in 0 .. n /\ n <= n
  OBVIOUS
<1>. QED
  BY <1>1, <1>4, <1>5 DEF S, RowGrows

(* What a menu's rows and columns must be for it to be drawn. *)
Drawable(m) ==
  /\ m.candidates \in CandidateLists /\ Len(m.candidates) >= 1
  /\ m.rows \in Nat /\ m.columns \in Nat \ {0}

(* The menu fits its columns into a row of the console. *)
Narrow(m) == m.columns * completion_column_width(m.candidates) < Width

LEMMA MenuRowIs ==
  ASSUME NEW m, Drawable(m), NEW row \in Nat, NEW shown, shown = MenuRow(m, completion_column_width(m.candidates), row)
  PROVE  shown \in RowTexts /\ (Narrow(m) => display_width(shown) < Width)
<1>. PICK candidates \in CandidateLists : candidates = m.candidates
  BY DEF Drawable
<1>. PICK rows \in Nat : rows = m.rows
  BY DEF Drawable
<1>. PICK n \in Nat : n = m.columns
  BY DEF Drawable
<1>. PICK width \in Nat : width = completion_column_width(candidates)
  BY ColumnWidth DEF Drawable
<1>1. shown = MenuRowOf(candidates, rows, [column \in 1 .. n |-> column], m.selected, width, row)
  BY MenuRowUnfolds
<1>2. shown \in RowTexts /\ RowFits(display_width(shown), n, width)
  BY <1>1, MenuRowOfType
<1>3. display_width(shown) \in Nat
  BY <1>2, WidthType DEF RowTexts
<1>4. ASSUME Narrow(m)
      PROVE  display_width(shown) < Width
  <2>. PICK w \in Nat : w = display_width(shown)
    BY <1>3
  <2>. PICK p : p = n * width
    OBVIOUS
  <2>1. p \in Nat
    OBVIOUS
  <2>2. w <= p /\ p < Width
    BY <1>2, <1>4 DEF RowFits, Narrow
  <2>. QED
    BY <2>1, <2>2, Sizes
<1>. QED
  BY <1>2, <1>4

(* The number of lines rendered is no part of what a row shows. *)
LEMMA SameMenuRow ==
  ASSUME NEW m, NEW k, k.candidates = m.candidates, k.rows = m.rows, k.columns = m.columns, k.selected = m.selected,
         NEW width, NEW row
  PROVE  MenuRow(k, width, row) = MenuRow(m, width, row)
  BY MenuRowUnfolds

-----------------------------------------------------------------------------
(***************************************************************************)
(* The menu on the console, row by row.                                    *)
(***************************************************************************)
MenuLine(m, row) == MenuRow(m, completion_column_width(m.candidates), row - 1)
DrawLine(s, y, m, row) == Display(set_cursor_position(s, 0, y + row), MenuLine(m, row))

DrawnBy(iter, t, y, m, lines) ==
  iter = [s \in SUBSET DOMAIN lines |-> IF s = {} THEN t ELSE DrawLine(iter[s \ {Max(s)}], y, m, lines[Max(s)])]

LEMMA DrawnUnfolds ==
  \A t, y, m :
    Drawn(t, y, m)
      = (CHOOSE iter : DrawnBy(iter, t, y, m, [row \in 1 .. m.rows |-> row]))[DOMAIN [row \in 1 .. m.rows |-> row]]
  BY Zenon DEF Drawn, FoldLeft, MapThenFoldSet, DrawnBy, DrawLine, MenuLine

LEMMA MenuLineIs ==
  ASSUME NEW m, Drawable(m), NEW row \in Nat \ {0}
  PROVE  MenuLine(m, row) \in RowTexts /\ (Narrow(m) => display_width(MenuLine(m, row)) < Width)
<1>. PICK before \in Nat : before = row - 1
  OBVIOUS
<1>. QED
  BY MenuRowIs DEF MenuLine

LEMMA DrawLineType ==
  ASSUME NEW s \in Consoles, NEW y \in 1 .. Height, NEW m, Drawable(m), NEW row \in Nat \ {0}, y + row <= Height
  PROVE  DrawLine(s, y, m, row) \in Consoles
<1>1. y + row \in 1 .. Height /\ 0 \in 0 .. Width - 1
  BY Sizes
<1>. PICK t : t = set_cursor_position(s, 0, y + row)
  OBVIOUS
<1>2. t \in Consoles
  BY <1>1, MovedTo
<1>3. MenuLine(m, row) \in Seq(Printed)
  BY MenuLineIs, TextsArePrinted
<1>. QED
  BY <1>2, <1>3, DisplayType DEF DrawLine

Draws(d, t, y, m, n) ==
  /\ d \in [0 .. n -> Consoles]
  /\ d[0] = t
  /\ \A k \in 0 .. (n - 1) : d[k + 1] = DrawLine(d[k], y, m, k + 1)

LEMMA DrawnFolds ==
  ASSUME NEW t \in Consoles, NEW y \in 1 .. Height, NEW m, Drawable(m), NEW n \in Nat, n = m.rows, y + n <= Height
  PROVE  \E d : Draws(d, t, y, m, n) /\ Drawn(t, y, m) = d[n]
<1>. PICK lines : lines = [row \in 1 .. n |-> row]
  OBVIOUS
<1>. DEFINE V == Consoles
            step == [p \in Nat \X V |-> IF p[1] \in 1 .. n THEN DrawLine(p[2], y, m, lines[p[1]]) ELSE p[2]]
<1>1. DOMAIN lines = 1 .. n /\ \A i \in 1 .. n : lines[i] = i /\ i \in Nat \ {0} /\ y + i <= Height
  BY Sizes
<1>b. \A v \in Consoles, i \in 1 .. n : DrawLine(v, y, m, i) \in Consoles
  BY <1>1, DrawLineType
<1>2. step \in [Nat \X V -> V] /\ t \in V
  <2>1. ASSUME NEW p \in Nat \X V, p[1] \in 1 .. n
        PROVE  DrawLine(p[2], y, m, lines[p[1]]) \in V
    <3>1. p[2] \in Consoles /\ lines[p[1]] = p[1]
      BY <2>1, <1>1
    <3>. QED
      BY <2>1, <3>1, <1>b
  <2>. QED
    BY <2>1
<1>3. \A k \in 1 .. n, v \in V : step[<<k, v>>] = DrawLine(v, y, m, lines[k])
  OBVIOUS
<1>. HIDE DEF step, V
<1>4. PICK iter : FoldedBy(iter, n, V, t, step)
  BY <1>2, FoldExists
<1>. DEFINE h == CHOOSE g : DrawnBy(g, t, y, m, lines)
<1>5. DrawnBy(h, t, y, m, lines)
  <2>1. FoldsTo(iter, n, V, t, step)
    BY <1>2, <1>4, FoldValues
  <2>2. ASSUME NEW s \in SUBSET (1 .. n), s # {}
        PROVE  iter[s] = DrawLine(iter[s \ {Max(s)}], y, m, lines[Max(s)])
    <3>. PICK k : k = Max(s)
      OBVIOUS
    <3>. PICK v : v = iter[s \ {k}]
      OBVIOUS
    <3>1. k \in 1 .. n /\ v \in V /\ iter[s] = step[<<k, v>>]
      BY <2>1, <2>2 DEF FoldsTo
    <3>. QED
      BY <3>1, <1>3
  <2>3. DrawnBy(iter, t, y, m, lines)
    BY <1>1, <2>1, <2>2 DEF DrawnBy, FoldsTo
  <2>. QED
    BY <2>3
<1>6. Drawn(t, y, m) = h[1 .. n]
  BY <1>1, DrawnUnfolds
<1>. HIDE DEF h
<1>7. h[{}] = t /\ \A s \in SUBSET (1 .. n) : s # {} => h[s] = DrawLine(h[s \ {Max(s)}], y, m, lines[Max(s)])
  BY <1>1, <1>5 DEF DrawnBy
<1>8. \A s \in SUBSET (1 .. n) : s # {} => Max(s) \in 1 .. n
  BY <1>2, <1>4, FoldValues DEF FoldsTo
<1>9. Steps(h, n, V, t, step)
  BY <1>3, <1>7, <1>8 DEF Steps
<1>a. Chained(h, n, V, t, step)
  BY <1>2, <1>9, FoldChain
<1>10. PICK d : Chain(d, n, V, t, step) /\ h[1 .. n] = d[n]
  BY <1>a DEF Chained
<1>11. \A k \in 0 .. (n - 1) : d[k + 1] = DrawLine(d[k], y, m, k + 1)
  <2>1. \A k \in 0 .. (n - 1) : k + 1 \in 1 .. n /\ k \in 0 .. n
    OBVIOUS
  <2>2. \A k \in 0 .. (n - 1) : d[k] \in V /\ d[k + 1] = step[<<k + 1, d[k]>>]
    BY <1>10, <2>1 DEF Chain
  <2>. QED
    BY <2>1, <2>2, <1>1, <1>3, ZenonT(20)
<1>12. Draws(d, t, y, m, n)
  BY <1>10, <1>11 DEF Chain, Draws, V
<1>. QED
  BY <1>6, <1>10, <1>12

(* The first rows of the menu are drawn, the others still blank, and nothing above them has changed. *)
DrawnUpTo(s, t, y, m, k) ==
  /\ \A r \in 1 .. Height : r <= y => s.cells[r] = t.cells[r]
  /\ \A j \in 1 .. k : Shows1(s.cells[y + j], 0, MenuLine(m, j))
  /\ \A r \in 1 .. Height : y + k < r => BlankAfter(s.cells[r], 0)

LEMMA OneLine ==
  ASSUME NEW s \in Consoles, NEW row \in 1 .. Height, BlankAfter(s.cells[row], 0),
         NEW chars \in RowTexts, display_width(chars) < Width, NEW u,
         u = Display(set_cursor_position(s, 0, row), chars)
  PROVE  /\ u \in Consoles /\ Shows1(u.cells[row], 0, chars)
         /\ \A r \in 1 .. Height : r # row => u.cells[r] = s.cells[r]
<1>. PICK v : v = set_cursor_position(s, 0, row)
  OBVIOUS
<1>. PICK w \in Nat : w = display_width(chars)
  BY WidthType DEF RowTexts
<1>0. 0 \in 0 .. Width - 1 /\ 0 + w = w /\ w <= Width /\ \A j \in 1 .. Width : w < j => 0 < j
  BY Sizes
<1>1. v \in Consoles /\ v.x = 0 /\ v.y = row /\ v.cells = s.cells
  BY <1>0, MovedTo
<1>2. Wrote(u, v, chars)
  BY <1>0, <1>1, DisplayWrites
<1>3. /\ u \in Consoles /\ u.y = row
      /\ \A r \in 1 .. Height : r # row => u.cells[r] = s.cells[r]
      /\ \A j \in 1 .. Width : u.cells[row][j] = IF 0 < j /\ j <= 0 + w THEN Cells(chars)[j - 0] ELSE s.cells[row][j]
  BY <1>1, <1>2 DEF Wrote
<1>4. Has(u.cells[row], 0, chars)
  BY <1>0, <1>1, <1>2, <1>3, HasWritten
<1>5. \A j \in 1 .. Width : w < j => u.cells[row][j] = s.cells[row][j]
  <2>1. \A j \in 1 .. Width : w < j => ~(j <= 0 + w)
    BY Sizes
  <2>. QED
    BY <1>3, <2>1
<1>6. BlankAfter(u.cells[row], w)
  BY <1>0, <1>5 DEF BlankAfter
<1>. QED
  BY <1>0, <1>3, <1>4, <1>6 DEF Shows1

LEMMA LineDrawn ==
  ASSUME NEW t, NEW s \in Consoles, NEW y \in 1 .. Height, NEW m, Drawable(m), Narrow(m), NEW k \in Nat,
         y + (k + 1) <= Height, DrawnUpTo(s, t, y, m, k)
  PROVE  DrawnUpTo(DrawLine(s, y, m, k + 1), t, y, m, k + 1)
<1>. PICK h \in Nat : h = Height
  BY Sizes
<1>. PICK next \in Nat \ {0} : next = k + 1
  OBVIOUS
<1>. PICK row : row = y + next
  OBVIOUS
<1>1. row \in 1 .. h /\ y + k < row /\ y < row
  OBVIOUS
<1>. PICK chars : chars = MenuLine(m, next)
  OBVIOUS
<1>2. chars \in RowTexts /\ display_width(chars) < Width
  BY MenuLineIs
<1>. PICK u : u = DrawLine(s, y, m, next)
  OBVIOUS
<1>3. u = Display(set_cursor_position(s, 0, row), chars)
  BY DEF DrawLine
<1>4. /\ \A r \in 1 .. h : r <= y => s.cells[r] = t.cells[r]
      /\ \A j \in 1 .. k : Shows1(s.cells[y + j], 0, MenuLine(m, j))
      /\ \A r \in 1 .. h : y + k < r => BlankAfter(s.cells[r], 0)
  BY DEF DrawnUpTo
<1>5. Shows1(u.cells[row], 0, chars) /\ \A r \in 1 .. h : r # row => u.cells[r] = s.cells[r]
  BY <1>1, <1>2, <1>3, <1>4, OneLine
<1>6. \A r \in 1 .. h : r <= y => u.cells[r] = t.cells[r]
  <2>1. \A r \in 1 .. h : r <= y => r # row
    BY <1>1
  <2>. QED
    BY <2>1, <1>4, <1>5
<1>7. ASSUME NEW j \in 1 .. next
      PROVE  Shows1(u.cells[y + j], 0, MenuLine(m, j))
  <2>1. CASE j = next
    BY <2>1, <1>5
  <2>2. CASE j # next
    <3>1. j \in 1 .. k /\ y + j \in 1 .. h /\ y + j # row
      BY <2>2
    <3>. QED
      BY <3>1, <1>4, <1>5
  <2>. QED
    BY <2>1, <2>2
<1>8. \A r \in 1 .. h : y + next < r => BlankAfter(u.cells[r], 0)
  <2>1. \A r \in 1 .. h : y + next < r => r # row /\ y + k < r
    BY <1>1
  <2>. QED
    BY <2>1, <1>4, <1>5
<1>. QED
  BY <1>6, <1>7, <1>8 DEF DrawnUpTo

LEMMA DrawnIs ==
  ASSUME NEW t \in Consoles, NEW y \in 1 .. Height, NEW m, Drawable(m), y + m.rows <= Height
  PROVE  /\ Drawn(t, y, m) \in Consoles
         /\ Narrow(m) /\ (\A r \in 1 .. Height : y < r => BlankAfter(t.cells[r], 0))
              => DrawnUpTo(Drawn(t, y, m), t, y, m, m.rows)
<1>. PICK n \in Nat : n = m.rows
  BY DEF Drawable
<1>. PICK h \in Nat : h = Height
  BY Sizes
<1>1. PICK d : Draws(d, t, y, m, n) /\ Drawn(t, y, m) = d[n]
  BY DrawnFolds
<1>2. Drawn(t, y, m) \in Consoles
  <2>1. n \in 0 .. n
    OBVIOUS
  <2>. QED
    BY <1>1, <2>1 DEF Draws
<1>3. ASSUME Narrow(m), \A r \in 1 .. Height : y < r => BlankAfter(t.cells[r], 0)
      PROVE  DrawnUpTo(d[n], t, y, m, n)
  <2>. DEFINE S == {k \in Nat : k <= n => DrawnUpTo(d[k], t, y, m, k)}
  <2>1. 0 \in S
    <3>1. d[0] = t
      BY <1>1 DEF Draws
    <3>2. y + 0 = y /\ \A j : j \notin 1 .. 0
      OBVIOUS
    <3>3. DrawnUpTo(t, t, y, m, 0)
      BY <1>3, <3>2 DEF DrawnUpTo
    <3>. QED
      BY <3>1, <3>3
  <2>2. ASSUME NEW k \in Nat, k \in S
        PROVE  k + 1 \in S
    <3>. SUFFICES ASSUME k + 1 <= n
                  PROVE  DrawnUpTo(d[k + 1], t, y, m, k + 1)
      OBVIOUS
    <3>1. k \in 0 .. (n - 1) /\ k \in 0 .. n /\ k <= n /\ y + (k + 1) <= h
      OBVIOUS
    <3>. PICK s : s = d[k]
      OBVIOUS
    <3>2. s \in Consoles /\ d[k + 1] = DrawLine(s, y, m, k + 1)
      BY <1>1, <3>1 DEF Draws
    <3>3. DrawnUpTo(s, t, y, m, k)
      BY <2>2, <3>1
    <3>. QED
      BY <1>3, <3>1, <3>2, <3>3, LineDrawn
  <2>. HIDE DEF S
  <2>3. n \in S /\ n <= n
    BY <2>1, <2>2, Induction
  <2>. QED
    BY <2>3 DEF S
<1>. QED
  BY <1>1, <1>2, <1>3

-----------------------------------------------------------------------------
(***************************************************************************)
(* The candidates as a list, a line each.                                  *)
(***************************************************************************)
ListText(m, i) == <<Marker(m, i - 1)>> \o format_completion_candidate(m.candidates[i])
ListLine(s, m, i) == Newline(Display(s, ListText(m, i)))

ListedBy(iter, t, m, lines) ==
  iter = [s \in SUBSET DOMAIN lines |-> IF s = {} THEN t ELSE ListLine(iter[s \ {Max(s)}], m, lines[Max(s)])]

LEMMA ListedUnfolds ==
  \A t, m :
    Listed(t, m)
      = (CHOOSE iter : ListedBy(iter, t, m, [i \in DOMAIN m.candidates |-> i]))[DOMAIN [i \in DOMAIN m.candidates |-> i]]
  BY Zenon DEF Listed, FoldLeft, MapThenFoldSet, ListedBy, ListLine, ListText

LEMMA ListTextIs ==
  ASSUME NEW m, Drawable(m), NEW i \in 1 .. Len(m.candidates)
  PROVE  ListText(m, i) \in RowTexts /\ (Narrow(m) => display_width(ListText(m, i)) < Width)
<1>. PICK candidates \in CandidateLists : candidates = m.candidates
  BY DEF Drawable
<1>. PICK width \in Nat : width = completion_column_width(candidates)
  BY ColumnWidth DEF Drawable
<1>. PICK value : value = format_completion_candidate(candidates[i])
  OBVIOUS
<1>1. value \in RowTexts /\ display_width(value) \in Nat /\ display_width(value) + 2 <= width
  BY ColumnWidth DEF Drawable
<1>2. PICK marker : marker = Marker(m, i - 1)
  OBVIOUS
<1>3. marker \in Characters \ WideChars
  BY <1>2, Markers, Zenon DEF Marker
<1>. PICK one : one = <<marker>>
  OBVIOUS
<1>4. one \in RowTexts /\ display_width(one) = 1
  <2>1. char_display_width(marker) = 1
    BY <1>3 DEF char_display_width
  <2>. QED
    BY <1>3, <2>1, WidthOne DEF RowTexts
<1>. PICK text : text = one \o value
  OBVIOUS
<1>5. text = ListText(m, i)
  BY <1>2, Zenon DEF ListText
<1>6. text \in RowTexts /\ display_width(text) = 1 + display_width(value)
  BY <1>1, <1>4, ConcatProperties, WidthConcat DEF RowTexts
<1>7. ASSUME Narrow(m)
      PROVE  display_width(text) < Width
  <2>. PICK n \in Nat \ {0} : n = m.columns
    BY DEF Drawable
  <2>1. n * width < Width
    BY <1>7 DEF Narrow
  <2>2. \A a \in Nat \ {0}, b \in Nat : b <= a * b
    <3>. SUFFICES ASSUME NEW a \in Nat \ {0}, NEW b \in Nat
                  PROVE  b <= a * b
      OBVIOUS
    <3>. PICK less \in Nat : less = a - 1
      OBVIOUS
    <3>1. a * b = less * b + b
      OBVIOUS
    <3>. PICK p : p = less * b
      OBVIOUS
    <3>2. p \in Nat
      OBVIOUS
    <3>. QED
      BY <3>1, <3>2
  <2>3. width <= n * width
    BY <2>2
  <2>. PICK p : p = n * width
    OBVIOUS
  <2>4. p \in Nat
    OBVIOUS
  <2>5. width <= p /\ p < Width
    BY <2>1, <2>3
  <2>6. width < Width
    BY <2>4, <2>5, Sizes
  <2>. PICK w \in Nat : w = display_width(value)
    BY <1>1
  <2>7. 1 + w < Width
    BY <1>1, <2>6, Sizes
  <2>. QED
    BY <1>6, <2>7
<1>. QED
  BY <1>5, <1>6, <1>7

LEMMA ListLineType ==
  ASSUME NEW s \in Consoles, NEW m, Drawable(m), NEW i \in 1 .. Len(m.candidates)
  PROVE  ListLine(s, m, i) \in Consoles /\ ListLine(s, m, i).x = 0
<1>1. ListText(m, i) \in Seq(Printed)
  BY ListTextIs, TextsArePrinted
<1>. QED
  BY <1>1, DisplayType, NewlineMoves DEF ListLine

(* A console ready for the next line: the cursor at the beginning of a blank row, and nothing below it. *)
ReadyForLine(s) == s.x = 0 /\ BlankAfter(s.cells[s.y], 0) /\ BlankBelow(s)

LEMMA ListLineReady ==
  ASSUME NEW s \in Consoles, ReadyForLine(s), NEW m, Drawable(m), Narrow(m), NEW i \in 1 .. Len(m.candidates)
  PROVE  ReadyForLine(ListLine(s, m, i))
<1>. PICK text : text = ListText(m, i)
  OBVIOUS
<1>1. text \in RowTexts /\ display_width(text) < Width
  BY ListTextIs
<1>. PICK w \in Nat : w = display_width(text)
  BY <1>1, WidthType DEF RowTexts
<1>. PICK u : u = Display(s, text)
  OBVIOUS
<1>2. s.x + w < Width
  BY <1>1, Sizes DEF ReadyForLine
<1>3. Wrote(u, s, text)
  BY <1>1, <1>2, DisplayWrites
<1>4. u \in Consoles /\ u.y = s.y /\ \A y \in 1 .. Height : y # s.y => u.cells[y] = s.cells[y]
  BY <1>3 DEF Wrote
<1>5. BlankBelow(u)
  BY <1>4, OnlyItsRow DEF ReadyForLine
<1>6. ReadyForLine(Newline(u))
  BY <1>4, <1>5, NewlineBlank DEF ReadyForLine
<1>. QED
  BY <1>6 DEF ListLine

Lists(d, t, m, n) ==
  /\ d \in [0 .. n -> Consoles]
  /\ d[0] = t
  /\ \A k \in 0 .. (n - 1) : d[k + 1] = ListLine(d[k], m, k + 1)

LEMMA ListedFolds ==
  ASSUME NEW t \in Consoles, NEW m, Drawable(m), NEW n \in Nat, n = Len(m.candidates)
  PROVE  \E d : Lists(d, t, m, n) /\ Listed(t, m) = d[n]
<1>. PICK lines : lines = [i \in DOMAIN m.candidates |-> i]
  OBVIOUS
<1>0. DOMAIN m.candidates = 1 .. n
  BY Candidates, LenProperties DEF Drawable
<1>. DEFINE V == Consoles
            step == [p \in Nat \X V |-> IF p[1] \in 1 .. n THEN ListLine(p[2], m, lines[p[1]]) ELSE p[2]]
<1>1. DOMAIN lines = 1 .. n /\ \A i \in 1 .. n : lines[i] = i
  BY <1>0
<1>b. \A v \in Consoles, i \in 1 .. n : ListLine(v, m, i) \in Consoles
  BY ListLineType
<1>2. step \in [Nat \X V -> V] /\ t \in V
  <2>1. ASSUME NEW p \in Nat \X V, p[1] \in 1 .. n
        PROVE  ListLine(p[2], m, lines[p[1]]) \in V
    <3>1. p[2] \in Consoles /\ lines[p[1]] = p[1]
      BY <2>1, <1>1
    <3>. QED
      BY <2>1, <3>1, <1>b
  <2>. QED
    BY <2>1
<1>3. \A k \in 1 .. n, v \in V : step[<<k, v>>] = ListLine(v, m, lines[k])
  OBVIOUS
<1>. HIDE DEF step, V
<1>4. PICK iter : FoldedBy(iter, n, V, t, step)
  BY <1>2, FoldExists
<1>. DEFINE h == CHOOSE g : ListedBy(g, t, m, lines)
<1>5. ListedBy(h, t, m, lines)
  <2>1. FoldsTo(iter, n, V, t, step)
    BY <1>2, <1>4, FoldValues
  <2>2. ASSUME NEW s \in SUBSET (1 .. n), s # {}
        PROVE  iter[s] = ListLine(iter[s \ {Max(s)}], m, lines[Max(s)])
    <3>. PICK k : k = Max(s)
      OBVIOUS
    <3>. PICK v : v = iter[s \ {k}]
      OBVIOUS
    <3>1. k \in 1 .. n /\ v \in V /\ iter[s] = step[<<k, v>>]
      BY <2>1, <2>2 DEF FoldsTo
    <3>. QED
      BY <3>1, <1>3
  <2>3. ListedBy(iter, t, m, lines)
    BY <1>1, <2>1, <2>2 DEF ListedBy, FoldsTo
  <2>. QED
    BY <2>3
<1>6. Listed(t, m) = h[1 .. n]
  BY <1>1, ListedUnfolds
<1>. HIDE DEF h
<1>7. h[{}] = t /\ \A s \in SUBSET (1 .. n) : s # {} => h[s] = ListLine(h[s \ {Max(s)}], m, lines[Max(s)])
  BY <1>1, <1>5 DEF ListedBy
<1>8. \A s \in SUBSET (1 .. n) : s # {} => Max(s) \in 1 .. n
  BY <1>2, <1>4, FoldValues DEF FoldsTo
<1>9. Steps(h, n, V, t, step)
  BY <1>3, <1>7, <1>8 DEF Steps
<1>a. Chained(h, n, V, t, step)
  BY <1>2, <1>9, FoldChain
<1>10. PICK d : Chain(d, n, V, t, step) /\ h[1 .. n] = d[n]
  BY <1>a DEF Chained
<1>11. \A k \in 0 .. (n - 1) : d[k + 1] = ListLine(d[k], m, k + 1)
  <2>1. \A k \in 0 .. (n - 1) : k + 1 \in 1 .. n /\ k \in 0 .. n
    OBVIOUS
  <2>2. \A k \in 0 .. (n - 1) : d[k] \in V /\ d[k + 1] = step[<<k + 1, d[k]>>]
    BY <1>10, <2>1 DEF Chain
  <2>. QED
    BY <2>1, <2>2, <1>1, <1>3
<1>12. Lists(d, t, m, n)
  BY <1>10, <1>11 DEF Chain, Lists, V
<1>. QED
  BY <1>6, <1>10, <1>12

LEMMA ListedIs ==
  ASSUME NEW t \in Consoles, t.x = 0, NEW m, Drawable(m)
  PROVE  /\ Listed(t, m) \in Consoles /\ Listed(t, m).x = 0
         /\ Narrow(m) /\ ReadyForLine(t) => ReadyForLine(Listed(t, m))
<1>. PICK n \in Nat : n = Len(m.candidates)
  BY Candidates DEF Drawable
<1>1. PICK d : Lists(d, t, m, n) /\ Listed(t, m) = d[n]
  BY ListedFolds
<1>. DEFINE S == {k \in Nat : k <= n => /\ d[k].x = 0
                                        /\ Narrow(m) /\ ReadyForLine(t) => ReadyForLine(d[k])}
<1>2. 0 \in S
  <2>1. d[0] = t
    BY <1>1 DEF Lists
  <2>. QED
    BY <2>1
<1>3. ASSUME NEW k \in Nat, k \in S
      PROVE  k + 1 \in S
  <2>. SUFFICES ASSUME k + 1 <= n
                PROVE  /\ d[k + 1].x = 0
                       /\ Narrow(m) /\ ReadyForLine(t) => ReadyForLine(d[k + 1])
    OBVIOUS
  <2>1. k \in 0 .. (n - 1) /\ k \in 0 .. n /\ k <= n /\ k + 1 \in 1 .. n
    OBVIOUS
  <2>. PICK s : s = d[k]
    OBVIOUS
  <2>2. s \in Consoles /\ d[k + 1] = ListLine(s, m, k + 1)
    BY <1>1, <2>1 DEF Lists
  <2>3. Narrow(m) /\ ReadyForLine(t) => ReadyForLine(s)
    BY <1>3, <2>1
  <2>. QED
    BY <2>1, <2>2, <2>3, ListLineType, ListLineReady
<1>. HIDE DEF S
<1>4. n \in S
  BY <1>2, <1>3, Induction
<1>5. n \in 0 .. n /\ n <= n
  OBVIOUS
<1>6. d[n] \in Consoles
  BY <1>1, <1>5 DEF Lists
<1>. QED
  BY <1>1, <1>4, <1>5, <1>6 DEF S

-----------------------------------------------------------------------------
(***************************************************************************)
(* What opens a menu, or draws it anew.                                    *)
(***************************************************************************)
Request(menu, at) ==
  /\ menu \in Menus /\ Len(menu.candidates) >= 2
  /\ menu.insertion_index <= at /\ menu.selected < Len(menu.candidates)

Gridded(menu, columns, rows) == [menu EXCEPT !.columns = columns, !.rows = rows]

GriddedAs(m, menu, columns, rows) ==
  /\ m \in Menus
  /\ m.candidates = menu.candidates /\ m.insertion_index = menu.insertion_index /\ m.selected = menu.selected
  /\ m.columns = columns /\ m.rows = rows /\ m.rendered_lines = menu.rendered_lines

LEMMA InGrid ==
  ASSUME NEW menu \in Menus, NEW columns \in Nat, NEW rows \in Nat
  PROVE  GriddedAs(Gridded(menu, columns, rows), menu, columns, rows)
  BY DEF Gridded, GriddedAs, Menus

LEMMA WithLines ==
  ASSUME NEW menu \in Menus, NEW lines \in Nat, NEW m, m = [menu EXCEPT !.rendered_lines = lines]
  PROVE  /\ m \in Menus
         /\ m.candidates = menu.candidates /\ m.insertion_index = menu.insertion_index
         /\ m.delete_count = menu.delete_count /\ m.selected = menu.selected
         /\ m.columns = menu.columns /\ m.rows = menu.rows /\ m.rendered_lines = lines
  BY DEF Menus

LEMMA WithSelected ==
  ASSUME NEW menu \in Menus, NEW selected \in Nat, NEW m, m = [menu EXCEPT !.selected = selected]
  PROVE  /\ m \in Menus
         /\ m.candidates = menu.candidates /\ m.insertion_index = menu.insertion_index
         /\ m.delete_count = menu.delete_count /\ m.selected = selected
         /\ m.columns = menu.columns /\ m.rows = menu.rows /\ m.rendered_lines = menu.rendered_lines
  BY DEF Menus

(* What a tab asks for. *)
First(candidates, start, count) ==
  [NoMenu EXCEPT !.candidates = candidates, !.insertion_index = start,
                 !.delete_count = count, !.rows = 1, !.columns = 1]

LEMMA FirstRequest ==
  ASSUME NEW candidates \in CandidateLists, NEW start \in Nat, NEW count \in Nat, NEW m,
         m = First(candidates, start, count)
  PROVE  /\ m \in Menus
         /\ m.candidates = candidates /\ m.insertion_index = start /\ m.selected = 0 /\ m.rendered_lines = 0
  BY DEF Menus, NoMenu, First

(* A menu laid out. *)
LaidOut(m, at) ==
  /\ m \in Menus /\ Len(m.candidates) >= 2
  /\ m.insertion_index <= at /\ m.selected < Len(m.candidates)
  /\ m.columns = ColumnsFor(m.candidates) /\ m.rows = RowsFor(m.candidates)
  /\ m.rows \in Nat \ {0} /\ m.columns \in Nat \ {0}

LEMMA GridLaysOut ==
  ASSUME NEW menu, NEW at, Request(menu, at), NEW m, m = Grid(menu)
  PROVE  LaidOut(m, at) /\ m.candidates = menu.candidates /\ m.rendered_lines = menu.rendered_lines
<1>1. menu \in Menus /\ menu.candidates \in CandidateLists /\ Len(menu.candidates) >= 2
  BY DEF Request, Menus
<1>. PICK candidates \in CandidateLists : candidates = menu.candidates
  BY <1>1
<1>. PICK n \in Nat : n = Len(candidates)
  BY Candidates
<1>2. n >= 1 /\ n >= 2
  BY <1>1
<1>. PICK c \in Nat : c = ColumnsFor(candidates) /\ c # 0
  BY <1>2, GridIs
<1>. PICK r \in Nat : r = RowsFor(candidates) /\ r # 0
  BY <1>2, GridIs
<1>4. m = Gridded(menu, c, r)
  BY DEF Grid, ColumnsFor, RowsFor, Gridded
<1>5. GriddedAs(m, menu, c, r)
  BY <1>1, <1>4, InGrid
<1>. QED
  BY <1>5 DEF GriddedAs, LaidOut, Request

LEMMA LaidOutDrawable ==
  ASSUME NEW m, NEW at, LaidOut(m, at)
  PROVE  Drawable(m)
<1>1. m.candidates \in CandidateLists
  BY DEF LaidOut, Menus
<1>2. Len(m.candidates) >= 1
  BY <1>1, Candidates DEF LaidOut
<1>. QED
  BY <1>1, <1>2 DEF LaidOut, Drawable

-----------------------------------------------------------------------------
(***************************************************************************)
(* The room made below the line.                                           *)
(***************************************************************************)
Lifted(t, n) == clear_current_line(set_cursor_position(Scrolled(t, n), 0, Height - n))

Lifting(y, h, n) ==
  /\ (h - y) + (y + (n - h)) = n
  /\ Max({1, y - (y + (n - h))}) = h - n
  /\ h - n \in 1 .. h /\ ~(y + (n - h) <= 0)

LEMMA LiftingSums ==
  ASSUME NEW y \in Nat, NEW h \in Nat, NEW n \in Nat, y <= h, n < h, h < y + n
  PROVE  Lifting(y, h, n)
<1>1. (h - y) + (y + (n - h)) = n
  OBVIOUS
<1>2. y - (y + (n - h)) = h - n /\ h - n \in Int /\ h - n >= 1
  OBVIOUS
<1>. PICK r \in Int : r = h - n
  BY <1>2
<1>3. Max({1, r}) = r
  <2>1. 1 \in Int /\ r >= 1
    BY <1>2
  <2>2. Max({1, r}) = IF 1 >= r THEN 1 ELSE r
    BY <2>1, MaxOfTwo
  <2>. QED
    BY <2>1, <2>2
<1>4. h - n \in 1 .. h /\ ~(y + (n - h) <= 0)
  OBVIOUS
<1>. QED
  BY <1>1, <1>2, <1>3, <1>4 DEF Lifting

LEMMA RoomIs ==
  ASSUME NEW t \in Consoles, NEW n \in Nat, n < Height
  PROVE  /\ t.y + n <= Height =>
              ensure_completion_menu_space(t, n) = [terminal |-> t, origin |-> input_origin]
         /\ ~(t.y + n <= Height) =>
              ensure_completion_menu_space(t, n)
                = [terminal |-> DisplayLine(display_prompt(Lifted(t, n)), line, cursor),
                   origin |-> Origin(display_prompt(Lifted(t, n)))]
<1>. PICK y \in Nat : y = t.y
  BY ConsoleFields
<1>. PICK h \in Nat : h = Height
  BY Sizes
<1>0. y <= h
  BY ConsoleFields
<1>1. ASSUME y + n <= h
      PROVE  ensure_completion_menu_space(t, n) = [terminal |-> t, origin |-> input_origin]
  <2>1. y + (n - h) <= 0
    BY <1>1
  <2>. QED
    BY <2>1 DEF ensure_completion_menu_space
<1>2. ASSUME ~(y + n <= h)
      PROVE  ensure_completion_menu_space(t, n)
                = [terminal |-> DisplayLine(display_prompt(Lifted(t, n)), line, cursor),
                   origin |-> Origin(display_prompt(Lifted(t, n)))]
  <2>1. h < y + n
    BY <1>2
  <2>2. Lifting(t.y, Height, n)
    BY <1>0, <2>1, LiftingSums
  <2>3. /\ (Height - t.y) + (t.y + (n - Height)) = n
        /\ Max({1, t.y - (t.y + (n - Height))}) = Height - n
        /\ ~(t.y + (n - Height) <= 0)
    BY <2>2, Zenon DEF Lifting
  <2>4. Scrolled(t, (Height - t.y) + (t.y + (n - Height))) = Scrolled(t, n)
    BY <2>3, Zenon
  <2>5. clear_current_line(set_cursor_position(Scrolled(t, (Height - t.y) + (t.y + (n - Height))), 0,
                                              Max({1, t.y - (t.y + (n - Height))}))) = Lifted(t, n)
    BY <2>3, <2>4, Zenon DEF Lifted
  <2>. PICK start : start = display_prompt(Lifted(t, n))
    OBVIOUS
  <2>6. start = display_prompt(clear_current_line(set_cursor_position(
                  Scrolled(t, (Height - t.y) + (t.y + (n - Height))), 0, Max({1, t.y - (t.y + (n - Height))}))))
    BY <2>5, Zenon
  <2>7. ensure_completion_menu_space(t, n)
          = IF t.y + (n - Height) <= 0 THEN [terminal |-> t, origin |-> input_origin]
            ELSE [terminal |-> DisplayLine(start, line, cursor), origin |-> Origin(start)]
    <3>. DEFINE moved == display_prompt(clear_current_line(set_cursor_position(
                           Scrolled(t, (Height - t.y) + (t.y + (n - Height))), 0, Max({1, t.y - (t.y + (n - Height))}))))
    <3>1. ensure_completion_menu_space(t, n)
            = IF t.y + (n - Height) <= 0 THEN [terminal |-> t, origin |-> input_origin]
              ELSE [terminal |-> DisplayLine(moved, line, cursor), origin |-> Origin(moved)]
      BY DEF ensure_completion_menu_space
    <3>2. moved = start
      BY <2>6
    <3>. HIDE DEF moved
    <3>. QED
      BY <3>1, <3>2
  <2>8. ensure_completion_menu_space(t, n) = [terminal |-> DisplayLine(start, line, cursor), origin |-> Origin(start)]
    BY <2>3, <2>7, Zenon
  <2>. QED
    BY <2>8
<1>. QED
  BY <1>1, <1>2

LEMMA LiftedIs ==
  ASSUME NEW t \in Consoles, NEW n \in Nat, n < Height, Height < t.y + n
  PROVE  /\ Lifted(t, n) \in Consoles /\ Lifted(t, n).x = 0 /\ Lifted(t, n).y = Height - n
         /\ BlankBelow(t) => ReadyForLine(Lifted(t, n))
<1>. PICK y \in Nat : y = t.y
  BY ConsoleFields
<1>. PICK h \in Nat : h = Height
  BY Sizes
<1>0. y <= h
  BY ConsoleFields
<1>. PICK row \in 1 .. h : row = h - n
  <2>1. h - n \in 1 .. h
    BY <1>0
  <2>. QED
    BY <2>1
<1>. PICK s : s = Scrolled(t, n)
  OBVIOUS
<1>1. s \in Consoles /\ s.y = RowAfter(t, n) /\ (BlankBelow(t) => BlankFrom(s, n))
  BY ScrolledIs
<1>2. s.y = h
  <2>1. ~(y + n <= h)
    OBVIOUS
  <2>. QED
    BY <1>1, <2>1 DEF RowAfter
<1>. PICK u : u = set_cursor_position(s, 0, row)
  OBVIOUS
<1>3. u \in Consoles /\ u.y = row /\ u.cells = s.cells
  <2>1. 0 \in 0 .. Width - 1
    BY Sizes
  <2>. QED
    BY <1>1, <2>1, MovedTo
<1>. PICK v : v = clear_current_line(u)
  OBVIOUS
<1>4. v \in Consoles /\ v.x = 0 /\ v.y = row /\ \A r \in 1 .. h : v.cells[r] = IF r = row THEN EmptyRow ELSE s.cells[r]
  BY <1>3, LineCleared
<1>5. ASSUME BlankBelow(t)
      PROVE  BlankAfter(v.cells[row], 0) /\ BlankBelow(v)
  <2>1. v.cells[row] = EmptyRow
    BY <1>4
  <2>2. ASSUME NEW r \in 1 .. h, row < r
        PROVE  BlankAfter(v.cells[r], 0)
    <3>1. v.cells[r] = s.cells[r] /\ h < r + n
      BY <2>2, <1>4
    <3>. QED
      BY <3>1, <1>1, <1>2, <1>5 DEF BlankFrom
  <2>. QED
    BY <2>1, <2>2, <1>4, EmptyRowBlank DEF BlankBelow
<1>6. v = Lifted(t, n)
  BY DEF Lifted
<1>. QED
  BY <1>4, <1>5, <1>6 DEF ReadyForLine

LEMMA LinePrintedRow ==
  ASSUME NEW s \in Consoles, NEW text \in RowTexts, NEW at \in 0 .. Len(text), s.x + display_width(text) < Width
  PROVE  DisplayLine(s, text, at) \in Consoles /\ DisplayLine(s, text, at).y = s.y
<1>. PICK u : u = Display(s, text)
  OBVIOUS
<1>1. u \in Consoles /\ u.y = s.y
  BY DisplayWrites DEF Wrote
<1>2. display_width(After(text, at)) \in Nat
  BY LineCut
<1>. PICK n \in Nat : n = display_width(After(text, at))
  BY <1>2
<1>3. Backspaces(u, n) \in Consoles /\ Backspaces(u, n).y = u.y
  BY <1>1, MovedBack
<1>. QED
  BY <1>1, <1>3 DEF DisplayLine

(* The menu's request comes with no menu on the screen, or with the one it replaces. *)
Replaces(m) == completion_menu = NoMenu \/ completion_menu.candidates = m.candidates

RoomFor(t, origin, m) ==
  /\ t \in Consoles /\ origin \in Origins /\ origin.x + display_width(line) < Width
  /\ prompt = PromptShown(prompt) => t.y + m.rows <= Height

(* Without scrolling: the line stays where it is. *)
LEMMA RoomBelow ==
  ASSUME EditorInv, NEW m, terminal.y + m.rows <= Height
  PROVE  RoomFor(terminal, input_origin, m)
  BY InvFields DEF RoomFor

LEMMA RoomAbove ==
  ASSUME EditorInv, NEW m, m.rows \in Nat, m.rows < Height, Height < terminal.y + m.rows,
         NEW start, start = display_prompt(Lifted(terminal, m.rows))
  PROVE  RoomFor(DisplayLine(start, line, cursor), Origin(start), m)
<1>. PICK n \in Nat : n = m.rows
  OBVIOUS
<1>. PICK h \in Nat : h = Height
  BY Sizes
<1>0. terminal \in Consoles /\ prompt \in Prompts /\ line \in RowTexts /\ cursor \in 0 .. Len(line)
      /\ display_width(line) \in Nat /\ display_width(line) <= MaxWidth
  BY InvFields
<1>. PICK lifted : lifted = Lifted(terminal, n)
  OBVIOUS
<1>1. lifted \in Consoles /\ lifted.x = 0 /\ lifted.y = h - n
  BY <1>0, LiftedIs
<1>2. start = Display(lifted, prompt)
  BY DEF display_prompt
<1>3. start \in Consoles /\ start.x = display_width(PromptShown(prompt))
      /\ (prompt = PromptShown(prompt) => start.y = lifted.y)
  BY <1>0, <1>1, <1>2, PromptEnds
<1>4. Origin(start) \in Origins /\ Origin(start).x = start.x
  BY <1>3, OriginIs
<1>5. start.x + display_width(line) < Width
  <2>1. start.x \in Nat
    BY <1>3, ConsoleFields
  <2>. QED
    BY <2>1, <1>0, <1>3, PromptRoom
<1>6. DisplayLine(start, line, cursor) \in Consoles /\ DisplayLine(start, line, cursor).y = start.y
  BY <1>0, <1>3, <1>5, LinePrintedRow
<1>7. ASSUME prompt = PromptShown(prompt)
      PROVE  DisplayLine(start, line, cursor).y + n <= h
  <2>1. DisplayLine(start, line, cursor).y = h - n
    BY <1>1, <1>3, <1>6, <1>7
  <2>. QED
    BY <2>1
<1>. QED
  BY <1>4, <1>5, <1>6, <1>7 DEF RoomFor

LEMMA RoomMade ==
  ASSUME EditorInv, NEW m, m.rows \in Nat, m.rows < Height,
         NEW roomy, roomy = ensure_completion_menu_space(terminal, m.rows)
  PROVE  RoomFor(roomy.terminal, roomy.origin, m)
<1>. PICK n \in Nat : n = m.rows
  OBVIOUS
<1>0. terminal \in Consoles /\ terminal.y \in Nat
  BY InvFields, ConsoleFields
<1>1. CASE terminal.y + n <= Height
  <2>1. roomy.terminal = terminal /\ roomy.origin = input_origin
    BY <1>0, <1>1, RoomIs
  <2>. QED
    BY <1>1, <2>1, RoomBelow
<1>2. CASE ~(terminal.y + n <= Height)
  <2>. PICK start : start = display_prompt(Lifted(terminal, n))
    OBVIOUS
  <2>1. roomy.terminal = DisplayLine(start, line, cursor) /\ roomy.origin = Origin(start)
    BY <1>0, <1>2, RoomIs
  <2>2. Height < terminal.y + n
    BY <1>0, <1>2, Sizes
  <2>3. RoomFor(DisplayLine(start, line, cursor), Origin(start), m)
    BY <2>2, RoomAbove
  <2>. QED
    BY <2>1, <2>3
<1>. QED
  BY <1>1, <1>2

(* The console once room is made and the rows below the line are cleared. *)
Swept(t, m) == ClearRows(t, t.y + 1, Max({m.rows, m.rendered_lines}))

LEMMA LinesToClear ==
  ASSUME NEW m, m.rows \in Nat, m.rendered_lines \in Nat
  PROVE  Max({m.rows, m.rendered_lines}) \in Nat /\ m.rows <= Max({m.rows, m.rendered_lines})
<1>. PICK a \in Nat : a = m.rows
  OBVIOUS
<1>. PICK b \in Nat : b = m.rendered_lines
  OBVIOUS
<1>1. Max({a, b}) = IF a >= b THEN a ELSE b
  <2>1. a \in Int /\ b \in Int
    OBVIOUS
  <2>. QED
    BY <2>1, MaxOfTwo
<1>. PICK n : n = Max({a, b})
  OBVIOUS
<1>2. n \in Nat /\ a <= n
  BY <1>1
<1>. QED
  BY <1>2

LEMMA SweptIs ==
  ASSUME NEW t \in Consoles, NEW m, m.rows \in Nat, m.rendered_lines \in Nat
  PROVE  /\ Swept(t, m) \in Consoles /\ Swept(t, m).x = t.x /\ Swept(t, m).y = t.y
         /\ \A k : MenuShown(t, k) /\ (k.rendered_lines > 0 => k.rows = m.rows) => MenuGone(Swept(t, m), t)
<1>. PICK n \in Nat : n = Max({m.rows, m.rendered_lines})
  BY LinesToClear
<1>1. m.rows <= n
  BY LinesToClear
<1>2. t.y + 1 \in 1 .. Height + 1
  BY ConsoleFields, Sizes
<1>3. Swept(t, m) = ClearRows(t, t.y + 1, n)
  BY DEF Swept
<1>4. ASSUME NEW k, MenuShown(t, k), k.rendered_lines > 0 => k.rows = m.rows
      PROVE  MenuGone(Swept(t, m), t)
  <2>1. k.rendered_lines > 0 => k.rows \in Nat /\ k.rows <= n
    BY <1>1, <1>4
  <2>. QED
    BY <1>3, <1>4, <2>1, MenuCleared
<1>5. Swept(t, m) \in Consoles /\ Swept(t, m).x = t.x /\ Swept(t, m).y = t.y
  <2>. PICK from \in 1 .. Height + 1 : from = t.y + 1
    BY <1>2
  <2>. PICK u : u = ClearRows(t, from, n)
    OBVIOUS
  <2>1. u = Swept(t, m)
    BY <1>3
  <2>2. u \in Consoles /\ u.x = t.x /\ u.y = t.y
    BY ClearedRows
  <2>. QED
    BY <2>1, <2>2
<1>. QED
  BY <1>4, <1>5

(* A menu that was drawn before has its room already. *)
LEMMA RoomKept ==
  ASSUME EditorInv, NEW m, LaidOut(m, cursor), m.rows < Height, Replaces(m)
  PROVE  /\ completion_menu.rendered_lines > 0 => completion_menu.rows = m.rows
         /\ Height < terminal.y + m.rows => completion_menu = NoMenu
<1>. PICK n \in Nat : n = m.rows
  BY DEF LaidOut
<1>. PICK y \in Nat : y = terminal.y
  BY InvFields, ConsoleFields
<1>1. CASE completion_menu = NoMenu
  BY <1>1, NoMenuFields
<1>2. CASE completion_menu # NoMenu
  <2>1. OpenMenuOK(completion_menu, cursor) /\ completion_menu.candidates = m.candidates
    BY <1>2, InvFields DEF Replaces
  <2>2. completion_menu.rows = RowsFor(m.candidates)
        /\ completion_menu.rendered_lines = IF completion_menu.rows < Height THEN completion_menu.rows ELSE 0
    BY <2>1, MenuFields
  <2>3. completion_menu.rows = n /\ completion_menu.rendered_lines = n
    BY <2>2 DEF LaidOut
  <2>4. y + n <= Height
    BY <2>3 DEF EditorInv
  <2>5. ~(Height < y + n)
    BY <2>4, Sizes
  <2>. QED
    BY <2>3, <2>5
<1>. QED
  BY <1>1, <1>2

LEMMA SweptShown ==
  ASSUME NEW t \in Consoles, NEW m, m.rows \in Nat, m.rendered_lines \in Nat, NEW k,
         MenuShown(t, k), k.rendered_lines > 0 => k.rows = m.rows,
         NEW origin, NEW p, NEW text, NEW at,
         t.y = origin.y, t.x = origin.x + display_width(SubSeq(text, 1, at)), LineShown(t.cells[t.y], origin.x, p, text)
  PROVE  OnScreen(Swept(t, m), origin, p, text, at)
<1>. PICK u : u = Swept(t, m)
  OBVIOUS
<1>1. MenuGone(u, t)
  BY SweptIs
<1>2. u \in Consoles /\ u.x = t.x /\ u.y = t.y /\ u.cells[u.y] = t.cells[t.y] /\ BlankBelow(u)
  BY <1>1 DEF MenuGone
<1>. QED
  BY <1>2 DEF OnScreen

LEMMA RoomShown ==
  ASSUME EditorInv, InStepNow, NEW m, LaidOut(m, cursor), m.rows < Height, Replaces(m),
         NEW roomy, roomy = ensure_completion_menu_space(terminal, m.rows)
  PROVE  OnScreen(Swept(roomy.terminal, m), roomy.origin, prompt, line, cursor)
<1>. PICK n \in Nat : n = m.rows
  BY DEF LaidOut
<1>0. m.rows \in Nat /\ m.rendered_lines \in Nat
  BY DEF LaidOut, Menus
<1>1. terminal \in Consoles /\ terminal.y \in Nat /\ input_origin \in Origins /\ prompt \in Prompts
      /\ line \in RowTexts /\ cursor \in 0 .. Len(line) /\ display_width(line) <= MaxWidth
  BY InvFields, ConsoleFields
<1>2. /\ terminal.y = input_origin.y /\ terminal.x = input_origin.x + display_width(SubSeq(line, 1, cursor))
      /\ LineShown(terminal.cells[terminal.y], input_origin.x, prompt, line)
      /\ MenuShown(terminal, completion_menu)
  BY <1>1, InStepIs DEF InStepNow
<1>3. CASE terminal.y + n <= Height
  <2>1. roomy.terminal = terminal /\ roomy.origin = input_origin
    BY <1>1, <1>3, RoomIs
  <2>2. completion_menu.rendered_lines > 0 => completion_menu.rows = m.rows
    BY RoomKept
  <2>3. OnScreen(Swept(terminal, m), input_origin, prompt, line, cursor)
    BY <1>0, <1>1, <1>2, <2>2, SweptShown
  <2>. QED
    BY <2>1, <2>3
<1>4. CASE ~(terminal.y + n <= Height)
  <2>0. Height < terminal.y + n
    BY <1>1, <1>4, Sizes
  <2>. PICK lifted : lifted = Lifted(terminal, n)
    OBVIOUS
  <2>. PICK start : start = display_prompt(lifted)
    OBVIOUS
  <2>. PICK t : t = DisplayLine(start, line, cursor)
    OBVIOUS
  <2>. PICK origin : origin = Origin(start)
    OBVIOUS
  <2>1. roomy.terminal = t /\ roomy.origin = origin
    BY <1>1, <1>4, RoomIs
  <2>2. completion_menu = NoMenu
    BY <2>0, RoomKept
  <2>3. BlankBelow(terminal)
    <3>1. ~(NoMenu.rendered_lines > 0)
      BY NoMenuFields
    <3>. QED
      BY <1>1, <1>2, <2>2, <3>1, NoMenuShown
  <2>4. lifted \in Consoles /\ ReadyForLine(lifted)
    BY <1>1, <2>0, <2>3, LiftedIs
  <2>5. PromptReady(start, lifted, prompt)
    <3>1. start = Display(lifted, prompt)
      BY DEF display_prompt
    <3>. QED
      BY <1>1, <2>4, <3>1, PromptDisplayed DEF ReadyForLine
  <2>6. OnScreen(t, origin, prompt, line, cursor)
    BY <1>1, <2>5, LinePrinted
  <2>7. /\ t \in Consoles /\ t.y = origin.y /\ t.x = origin.x + display_width(SubSeq(line, 1, cursor))
        /\ LineShown(t.cells[t.y], origin.x, prompt, line) /\ BlankBelow(t)
    BY <2>6 DEF OnScreen
  <2>8. MenuShown(t, NoMenu) /\ (NoMenu.rendered_lines > 0 => NoMenu.rows = m.rows)
    <3>1. ~(NoMenu.rendered_lines > 0)
      BY NoMenuFields
    <3>. QED
      BY <2>7, <3>1, NoMenuShown
  <2>9. OnScreen(Swept(t, m), origin, prompt, line, cursor)
    BY <1>0, <2>7, <2>8, SweptShown
  <2>. QED
    BY <2>1, <2>9
<1>. QED
  BY <1>3, <1>4

-----------------------------------------------------------------------------
(***************************************************************************)
(* The menu drawn below the line.                                          *)
(***************************************************************************)
SameButLines(k, m) ==
  /\ k.candidates = m.candidates /\ k.rows = m.rows /\ k.columns = m.columns /\ k.selected = m.selected
  /\ k.rendered_lines = m.rows

LineOfMenu(k, m, row, j) ==
  /\ row < m.rows => MenuRowShown(k, row) = MenuLine(m, j)
  /\ ~(row < m.rows) => MenuRowShown(k, row) = <<>>

LEMMA MenuLineShown ==
  ASSUME NEW m, NEW k, SameButLines(k, m), m.rows \in Nat \ {0}, NEW row \in Nat, NEW j, j - 1 = row
  PROVE  LineOfMenu(k, m, row, j)
<1>. PICK n \in Nat \ {0} : n = m.rows
  OBVIOUS
<1>1. k.rendered_lines = n /\ k.rows = n /\ n > 0
  BY DEF SameButLines
<1>. PICK width : width = completion_column_width(m.candidates)
  OBVIOUS
<1>2. MenuRow(k, width, row) = MenuRow(m, width, row)
  BY SameMenuRow DEF SameButLines
<1>3. completion_column_width(k.candidates) = width
  BY DEF SameButLines
<1>4. MenuLine(m, j) = MenuRow(m, width, row)
  BY DEF MenuLine
<1>5. ASSUME row < n
      PROVE  MenuRowShown(k, row) = MenuLine(m, j)
  <2>1. MenuRowShown(k, row) = MenuRow(k, width, row)
    BY <1>1, <1>3, <1>5 DEF MenuRowShown
  <2>. QED
    BY <2>1, <1>2, <1>4
<1>6. ASSUME ~(row < n)
      PROVE  MenuRowShown(k, row) = <<>>
  BY <1>1, <1>6 DEF MenuRowShown
<1>. QED
  BY <1>5, <1>6 DEF LineOfMenu

LEMMA DrawnShown ==
  ASSUME NEW s, NEW origin \in Origins, NEW p \in Prompts, NEW text \in RowTexts, NEW at, OnScreen(s, origin, p, text, at),
         NEW m, Drawable(m), Narrow(m), m.rows \in Nat \ {0}, s.y + m.rows <= Height, NEW k, SameButLines(k, m),
         NEW final, final = set_cursor_position(Drawn(s, s.y, m), s.x, s.y)
  PROVE  InStep(BelowTheLine(final), origin, p, text, at, k)
<1>. PICK n \in Nat \ {0} : n = m.rows
  OBVIOUS
<1>. PICK h \in Nat : h = Height
  BY Sizes
<1>1. /\ s \in Consoles /\ s.y = origin.y /\ s.x = origin.x + display_width(SubSeq(text, 1, at))
      /\ LineShown(s.cells[s.y], origin.x, p, text) /\ BlankBelow(s)
  BY DEF OnScreen
<1>. PICK y \in Nat : y = s.y
  BY <1>1, ConsoleFields
<1>. PICK x \in 0 .. Width - 1 : x = s.x
  <2>1. s.x \in 0 .. Width - 1
    BY <1>1 DEF Consoles
  <2>. QED
    BY <2>1
<1>2. y \in 1 .. h /\ y + n <= h
  BY <1>1, ConsoleFields
<1>. PICK d : d = Drawn(s, y, m)
  OBVIOUS
<1>3. d \in Consoles /\ DrawnUpTo(d, s, y, m, n)
  <2>1. \A r \in 1 .. Height : y < r => BlankAfter(s.cells[r], 0)
    BY <1>1 DEF BlankBelow
  <2>. QED
    BY <1>1, <1>2, <2>1, DrawnIs
<1>4. /\ \A r \in 1 .. h : r <= y => d.cells[r] = s.cells[r]
      /\ \A j \in 1 .. n : Shows1(d.cells[y + j], 0, MenuLine(m, j))
      /\ \A r \in 1 .. h : y + n < r => BlankAfter(d.cells[r], 0)
  BY <1>3 DEF DrawnUpTo
<1>5. final \in Consoles /\ final.x = x /\ final.y = y /\ final.cells = d.cells
  BY <1>2, <1>3, MovedTo
<1>. PICK b : b = BelowTheLine(final)
  OBVIOUS
<1>6. b \in Consoles /\ b.x = x /\ b.y = y /\ \A r \in 1 .. h : y <= r => b.cells[r] = d.cells[r]
  BY <1>5, KeptBelow
<1>7. b.cells[y] = s.cells[y]
  BY <1>2, <1>4, <1>6
<1>8. ASSUME NEW r \in b.y + 1 .. Height
      PROVE  RowShows(b, r, 0, MenuRowShown(k, r - b.y - 1))
  <2>1. r \in Nat /\ y < r /\ r \in 1 .. h /\ y <= r
    BY <1>6
  <2>2. b.cells[r] = d.cells[r]
    BY <1>6, <2>1
  <2>. PICK row \in Nat : row = r - y - 1
    BY <2>1
  <2>. PICK j \in Nat \ {0} : j = row + 1
    OBVIOUS
  <2>3. j - 1 = row /\ r = y + j /\ r - b.y - 1 = row
    BY <1>6, <2>1
  <2>4. /\ row < n => MenuRowShown(k, row) = MenuLine(m, j)
        /\ ~(row < n) => MenuRowShown(k, row) = <<>>
    <3>1. SameButLines(k, m) /\ m.rows \in Nat \ {0} /\ row \in Nat /\ j - 1 = row
      BY <2>3
    <3>2. LineOfMenu(k, m, row, j)
      BY <3>1, MenuLineShown
    <3>. QED
      BY <3>2 DEF LineOfMenu
  <2>5. CASE row < n
    <3>1. j \in 1 .. n
      BY <2>5
    <3>2. Shows1(b.cells[r], 0, MenuLine(m, j))
      BY <1>4, <2>2, <2>3, <3>1
    <3>3. MenuLine(m, j) \in RowTexts /\ 0 \in 0 .. Width
      BY MenuLineIs, Sizes
    <3>4. RowShows(b, r, 0, MenuLine(m, j))
      BY <1>6, <2>1, <3>2, <3>3, RowShowsIs
    <3>. QED
      BY <2>3, <2>4, <2>5, <3>4
  <2>6. CASE ~(row < n)
    <3>1. y + n < r
      BY <2>3, <2>6
    <3>2. BlankAfter(b.cells[r], 0)
      BY <1>4, <2>1, <2>2, <3>1
    <3>3. RowShows(b, r, 0, <<>>)
      BY <1>6, <2>1, <3>2, BlankShown
    <3>. QED
      BY <2>3, <2>4, <2>6, <3>3
  <2>. QED
    BY <2>5, <2>6
<1>9. MenuShown(b, k)
  BY <1>8 DEF MenuShown
<1>. QED
  BY <1>1, <1>6, <1>7, <1>9, InStepIs

-----------------------------------------------------------------------------
(***************************************************************************)
(* The candidates listed above the line.                                   *)
(***************************************************************************)
LEMMA FreshLine ==
  ASSUME EditorInv, NEW t \in Consoles, t.x = 0
  PROVE  LET start == display_prompt(t)
         IN /\ start \in Consoles /\ Origin(start) \in Origins
            /\ Origin(start).x + display_width(line) < Width
            /\ DisplayLine(start, line, cursor) \in Consoles
            /\ ReadyForLine(t) => OnScreen(DisplayLine(start, line, cursor), Origin(start), prompt, line, cursor)
<1>. PICK start : start = display_prompt(t)
  OBVIOUS
<1>0. prompt \in Prompts /\ line \in RowTexts /\ cursor \in 0 .. Len(line)
      /\ display_width(line) \in Nat /\ display_width(line) <= MaxWidth
  BY InvFields
<1>1. start = Display(t, prompt)
  BY DEF display_prompt
<1>2. start \in Consoles /\ start.x = display_width(PromptShown(prompt))
  BY <1>0, <1>1, PromptEnds
<1>3. Origin(start) \in Origins /\ Origin(start).x = start.x
  BY <1>2, OriginIs
<1>4. start.x + display_width(line) < Width
  <2>1. start.x \in Nat
    BY <1>2, ConsoleFields
  <2>. QED
    BY <2>1, <1>0, <1>2, PromptRoom
<1>5. DisplayLine(start, line, cursor) \in Consoles
  BY <1>0, <1>2, DisplayLineType
<1>6. ASSUME ReadyForLine(t)
      PROVE  OnScreen(DisplayLine(start, line, cursor), Origin(start), prompt, line, cursor)
  <2>1. PromptReady(start, t, prompt)
    BY <1>0, <1>1, <1>6, PromptDisplayed DEF ReadyForLine
  <2>. QED
    BY <1>0, <2>1, LinePrinted
<1>. QED
  BY <1>2, <1>3, <1>4, <1>5, <1>6

LEMMA NothingShown ==
  ASSUME EditorInv, InStepNow, completion_menu.rendered_lines = 0
  PROVE  BlankBelow(terminal)
<1>1. terminal \in Consoles /\ input_origin \in Origins /\ prompt \in Prompts /\ line \in RowTexts
  BY InvFields
<1>2. MenuShown(terminal, completion_menu)
  BY <1>1, InStepIs DEF InStepNow
<1>3. ~(completion_menu.rendered_lines > 0)
  OBVIOUS
<1>. QED
  BY <1>1, <1>2, <1>3, NoMenuShown

LEMMA ShownWithout ==
  ASSUME NEW t, NEW origin \in Origins, NEW p \in Prompts, NEW text \in RowTexts, NEW at,
         OnScreen(t, origin, p, text, at), NEW m, m.rendered_lines = 0
  PROVE  InStep(BelowTheLine(t), origin, p, text, at, m)
<1>. PICK u : u = BelowTheLine(t)
  OBVIOUS
<1>1. InStep(u, origin, p, text, at, NoMenu)
  BY ShownStays
<1>2. u \in Consoles
  BY KeptBelow DEF OnScreen
<1>3. ~(m.rendered_lines > 0) /\ ~(NoMenu.rendered_lines > 0)
  BY NoMenuFields
<1>4. MenuShown(u, NoMenu) => MenuShown(u, m)
  BY <1>2, <1>3, NoMenuShown
<1>. QED
  BY <1>1, <1>2, <1>4, InStepIs

LEMMA CandidatesListed ==
  ASSUME EditorInv, NEW m, LaidOut(m, cursor),
         NEW t, t = Listed(Newline(terminal), m), NEW start, start = display_prompt(t),
         NEW v, v = DisplayLine(start, line, cursor)
  PROVE  /\ v \in Consoles /\ Origin(start) \in Origins /\ Origin(start).x + display_width(line) < Width
         /\ InStepNow /\ completion_menu.rendered_lines = 0 /\ m.rendered_lines = 0 /\ Narrow(m) =>
              InStep(BelowTheLine(v), Origin(start), prompt, line, cursor, m)
<1>0. terminal \in Consoles /\ prompt \in Prompts /\ line \in RowTexts
  BY InvFields
<1>1. Drawable(m)
  BY LaidOutDrawable
<1>. PICK u : u = Newline(terminal)
  OBVIOUS
<1>2. u \in Consoles /\ u.x = 0
  BY <1>0, NewlineMoves
<1>3. t \in Consoles /\ t.x = 0 /\ (Narrow(m) /\ ReadyForLine(u) => ReadyForLine(t))
  BY <1>1, <1>2, ListedIs
<1>4. /\ v \in Consoles /\ Origin(start) \in Origins /\ Origin(start).x + display_width(line) < Width
      /\ ReadyForLine(t) => OnScreen(v, Origin(start), prompt, line, cursor)
  BY <1>3, FreshLine
<1>5. ASSUME InStepNow, completion_menu.rendered_lines = 0, m.rendered_lines = 0, Narrow(m)
      PROVE  InStep(BelowTheLine(v), Origin(start), prompt, line, cursor, m)
  <2>1. BlankBelow(terminal)
    BY <1>5, NothingShown
  <2>2. ReadyForLine(u)
    BY <1>0, <1>2, <2>1, NewlineBlank DEF ReadyForLine
  <2>3. OnScreen(v, Origin(start), prompt, line, cursor)
    BY <1>3, <1>4, <1>5, <2>2
  <2>. QED
    BY <1>0, <1>4, <1>5, <2>3, ShownWithout
<1>. QED
  BY <1>4, <1>5

-----------------------------------------------------------------------------
(***************************************************************************)
(* The menu opened, or drawn anew.                                         *)
(***************************************************************************)
Requested(menu) ==
  /\ Request(menu, cursor) /\ Replaces(menu) /\ menu.rendered_lines = completion_menu.rendered_lines

(* What opening the menu must leave. *)
MenuSeen(shown) ==
  /\ shown.terminal \in Consoles /\ shown.origin \in Origins /\ shown.origin.x + display_width(line) < Width
  /\ OpenMenuOK(shown.menu, cursor)
  /\ shown.terminal.y + shown.menu.rendered_lines <= Height
  /\ InStepNow /\ Narrow(shown.menu) =>
       InStep(BelowTheLine(shown.terminal), shown.origin, prompt, line, cursor, shown.menu)

LEMMA ListSeen ==
  ASSUME EditorInv, NEW menu, Requested(menu), NEW m, m = Grid(menu), m.rows >= Height
  PROVE  MenuSeen(handle_multiple_completions_fallback(m))
<1>. PICK t : t = Listed(Newline(terminal), m)
  OBVIOUS
<1>. PICK start : start = display_prompt(t)
  OBVIOUS
<1>. PICK v : v = DisplayLine(start, line, cursor)
  OBVIOUS
<1>1. LaidOut(m, cursor) /\ m.candidates = menu.candidates /\ m.rendered_lines = menu.rendered_lines
  BY GridLaysOut DEF Requested
<1>2. completion_menu.rendered_lines = 0
  <2>1. CASE completion_menu = NoMenu
    BY <2>1, NoMenuFields
  <2>2. CASE completion_menu # NoMenu
    <3>1. OpenMenuOK(completion_menu, cursor) /\ completion_menu.candidates = m.candidates
      BY <1>1, <2>2, InvFields DEF Requested, Replaces
    <3>2. completion_menu.rows = m.rows
      BY <1>1, <3>1, MenuFields DEF LaidOut
    <3>. PICK n \in Nat : n = m.rows
      BY <1>1 DEF LaidOut
    <3>3. ~(n < Height)
      BY Sizes
    <3>. QED
      BY <3>1, <3>2, <3>3, MenuFields
  <2>. QED
    BY <2>1, <2>2
<1>3. m.rendered_lines = 0
  BY <1>1, <1>2 DEF Requested
<1>4. OpenMenuOK(m, cursor)
  <2>. PICK n \in Nat : n = m.rows
    BY <1>1 DEF LaidOut
  <2>1. ~(n < Height)
    BY Sizes
  <2>2. RenderedFor(m.candidates) = 0
    BY <1>1, <2>1 DEF RenderedFor, LaidOut
  <2>. QED
    BY <1>1, <1>3, <2>2 DEF OpenMenuOK, LaidOut
<1>5. /\ v \in Consoles /\ Origin(start) \in Origins /\ Origin(start).x + display_width(line) < Width
      /\ InStepNow /\ completion_menu.rendered_lines = 0 /\ m.rendered_lines = 0 /\ Narrow(m) =>
           InStep(BelowTheLine(v), Origin(start), prompt, line, cursor, m)
  BY <1>1, CandidatesListed
<1>6. v.y + m.rendered_lines <= Height
  BY <1>3, <1>5, ConsoleFields
<1>. PICK shown : shown = handle_multiple_completions_fallback(m)
  OBVIOUS
<1>7. shown.terminal = v /\ shown.origin = Origin(start) /\ shown.menu = m
  BY DEF handle_multiple_completions_fallback
<1>. QED
  BY <1>2, <1>3, <1>4, <1>5, <1>6, <1>7 DEF MenuSeen

LEMMA RowsSeen ==
  ASSUME EditorInv, NEW menu, Requested(menu), NEW m, m = Grid(menu), ~(m.rows >= Height),
         NEW roomy, roomy = ensure_completion_menu_space(terminal, m.rows), roomy.terminal.y + m.rows <= Height,
         NEW at, at = roomy.terminal, NEW drawn, drawn = Drawn(Swept(at, m), at.y, m),
         NEW k, k = [m EXCEPT !.rendered_lines = m.rows],
         NEW shown, shown.terminal = set_cursor_position(drawn, at.x, at.y), shown.origin = roomy.origin, shown.menu = k
  PROVE  MenuSeen(shown)
<1>1. LaidOut(m, cursor) /\ m.candidates = menu.candidates /\ m.rendered_lines = menu.rendered_lines
  BY GridLaysOut DEF Requested
<1>. PICK n \in Nat \ {0} : n = m.rows
  BY <1>1 DEF LaidOut
<1>2. n < Height /\ m.rows < Height
  BY Sizes
<1>3. m \in Menus /\ m.rows \in Nat /\ m.rendered_lines \in Nat /\ Drawable(m)
  BY <1>1, LaidOutDrawable DEF LaidOut, Menus
<1>4. RoomFor(at, roomy.origin, m)
  BY <1>2, <1>3, RoomMade
<1>5. at \in Consoles /\ roomy.origin \in Origins /\ roomy.origin.x + display_width(line) < Width
  BY <1>4 DEF RoomFor
<1>. PICK s : s = Swept(at, m)
  OBVIOUS
<1>6. s \in Consoles /\ s.x = at.x /\ s.y = at.y
  BY <1>3, <1>5, SweptIs
<1>. PICK y \in 1 .. Height : y = at.y
  BY <1>5, ConsoleFields
<1>7. drawn \in Consoles
  BY <1>3, <1>6, DrawnIs
<1>. PICK final : final = set_cursor_position(drawn, at.x, at.y)
  OBVIOUS
<1>8. final \in Consoles /\ final.y = at.y
  <2>1. at.x \in 0 .. Width - 1
    BY <1>5 DEF Consoles
  <2>. QED
    BY <1>7, <2>1, MovedTo
<1>9. /\ k \in Menus
      /\ k.candidates = m.candidates /\ k.insertion_index = m.insertion_index
      /\ k.delete_count = m.delete_count /\ k.selected = m.selected
      /\ k.columns = m.columns /\ k.rows = m.rows /\ k.rendered_lines = m.rows
  BY <1>3, WithLines
<1>10. OpenMenuOK(k, cursor)
  <2>1. RenderedFor(m.candidates) = m.rows
    BY <1>1, <1>2 DEF RenderedFor, LaidOut
  <2>. QED
    BY <1>1, <1>9, <2>1 DEF OpenMenuOK, LaidOut
<1>11. final.y + k.rendered_lines <= Height
  BY <1>8, <1>9
<1>12. ASSUME InStepNow, Narrow(k)
       PROVE  InStep(BelowTheLine(final), roomy.origin, prompt, line, cursor, k)
  <2>1. Replaces(m)
    BY <1>1 DEF Requested, Replaces
  <2>2. OnScreen(s, roomy.origin, prompt, line, cursor)
    BY <1>1, <1>2, <1>12, <2>1, RoomShown
  <2>3. Narrow(m)
    BY <1>9, <1>12 DEF Narrow
  <2>4. SameButLines(k, m)
    BY <1>9 DEF SameButLines
  <2>5. final = set_cursor_position(Drawn(s, s.y, m), s.x, s.y)
    BY <1>6
  <2>6. prompt \in Prompts /\ line \in RowTexts /\ m.rows \in Nat \ {0} /\ s.y + m.rows <= Height
    BY <1>6, InvFields
  <2>. QED
    BY <1>3, <1>5, <2>2, <2>3, <2>4, <2>5, <2>6, DrawnShown
<1>. QED
  BY <1>5, <1>8, <1>10, <1>11, <1>12 DEF MenuSeen

Rendered(m, at, roomy) ==
  [terminal |-> set_cursor_position(Drawn(Swept(at, m), at.y, m), at.x, at.y), origin |-> roomy.origin,
   menu |-> [m EXCEPT !.rendered_lines = m.rows]]

LEMMA RenderIs ==
  ASSUME NEW menu, NEW m, m = Grid(menu), NEW roomy, roomy = ensure_completion_menu_space(terminal, m.rows)
  PROVE  render_completion_menu(menu)
           = IF m.rows >= Height THEN handle_multiple_completions_fallback(m) ELSE Rendered(m, roomy.terminal, roomy)
  BY DEF render_completion_menu, Rendered, Swept

LEMMA MenuRendered ==
  ASSUME EditorInv, NEW menu, Requested(menu), MenuFits(menu)
  PROVE  MenuSeen(render_completion_menu(menu))
<1>. PICK m : m = Grid(menu)
  OBVIOUS
<1>. PICK roomy : roomy = ensure_completion_menu_space(terminal, m.rows)
  OBVIOUS
<1>. PICK at : at = roomy.terminal
  OBVIOUS
<1>1. render_completion_menu(menu)
        = IF m.rows >= Height THEN handle_multiple_completions_fallback(m) ELSE Rendered(m, at, roomy)
  BY RenderIs
<1>2. m.rows >= Height \/ at.y + m.rows <= Height
  BY DEF MenuFits
<1>3. CASE m.rows >= Height
  BY <1>1, <1>3, ListSeen
<1>4. CASE ~(m.rows >= Height)
  <2>. PICK k : k = [m EXCEPT !.rendered_lines = m.rows]
    OBVIOUS
  <2>. PICK drawn : drawn = Drawn(Swept(at, m), at.y, m)
    OBVIOUS
  <2>. PICK shown : shown = Rendered(m, at, roomy)
    OBVIOUS
  <2>1. shown.terminal = set_cursor_position(drawn, at.x, at.y) /\ shown.origin = roomy.origin /\ shown.menu = k
    BY DEF Rendered
  <2>2. roomy.terminal.y + m.rows <= Height
    BY <1>2, <1>4
  <2>3. MenuSeen(shown)
    BY <1>4, <2>1, <2>2, RowsSeen
  <2>. QED
    BY <1>1, <1>4, <2>3
<1>. QED
  BY <1>3, <1>4

LEMMA MenuRefused ==
  ASSUME EditorInv, NEW menu, Requested(menu), ~MenuFits(menu)
  PROVE  Len(PromptShown(prompt)) < Len(prompt)
<1>. PICK m : m = Grid(menu)
  OBVIOUS
<1>. PICK roomy : roomy = ensure_completion_menu_space(terminal, m.rows)
  OBVIOUS
<1>1. LaidOut(m, cursor)
  BY GridLaysOut DEF Requested
<1>2. m.rows \in Nat
  BY <1>1 DEF LaidOut
<1>3. ~(m.rows >= Height) /\ ~(roomy.terminal.y + m.rows <= Height)
  BY DEF MenuFits
<1>4. m.rows < Height
  BY <1>2, <1>3, Sizes
<1>5. RoomFor(roomy.terminal, roomy.origin, m)
  BY <1>2, <1>4, RoomMade
<1>6. prompt # PromptShown(prompt)
  BY <1>3, <1>5 DEF RoomFor
<1>. QED
  BY <1>6, InvFields, PromptsAre

LEMMA ManyAreAMenu ==
  ASSUME NEW m, NEW at, OpenMenuOK(m, at)
  PROVE  m # NoMenu /\ (~Narrow(m) => m.columns * completion_column_width(m.candidates) >= Width)
<1>1. m.candidates \in CandidateLists /\ Len(m.candidates) >= 2 /\ m.columns \in Nat
  BY MenuFields
<1>. PICK n \in Nat : n = Len(m.candidates)
  BY <1>1, Candidates
<1>2. m # NoMenu
  <2>1. Len(<<>>) = 0
    OBVIOUS
  <2>2. n # 0
    BY <1>1
  <2>. QED
    BY <2>1, <2>2, NoMenuFields
<1>3. ASSUME ~Narrow(m)
      PROVE  m.columns * completion_column_width(m.candidates) >= Width
  <2>1. n >= 1
    BY <1>1
  <2>. PICK width \in Nat : width = completion_column_width(m.candidates)
    BY <1>1, <2>1, ColumnWidth
  <2>. PICK columns \in Nat : columns = m.columns
    BY <1>1
  <2>. PICK p : p = columns * width
    OBVIOUS
  <2>2. p \in Nat
    OBVIOUS
  <2>3. ~(p < Width)
    BY <1>3 DEF Narrow
  <2>4. p >= Width
    BY <2>2, <2>3, Sizes
  <2>. QED
    BY <2>4
<1>. QED
  BY <1>2, <1>3

LEMMA MenuOpened ==
  ASSUME EditorInv, NEW menu, Requested(menu), OpenMenu(menu)
  PROVE  EditorInv' /\ (InStepNow /\ Editing' => InStepNow' \/ Parts)
<1>1. /\ read = "editing" /\ line' = line /\ cursor' = cursor /\ prompt' = prompt
      /\ history_position' = history_position /\ history_draft' = history_draft
  BY DEF OpenMenu, Editing
<1>2. CASE MenuFits(menu)
  <2>. PICK shown : shown = render_completion_menu(menu)
    OBVIOUS
  <2>1. /\ terminal' = BelowTheLine(shown.terminal) /\ input_origin' = shown.origin
        /\ completion_menu' = shown.menu /\ read' = read
    BY <1>2 DEF OpenMenu, Shows
  <2>2. MenuSeen(shown)
    BY <1>2, MenuRendered
  <2>3. /\ shown.terminal \in Consoles /\ shown.origin \in Origins /\ shown.origin.x + display_width(line) < Width
        /\ OpenMenuOK(shown.menu, cursor)
        /\ shown.terminal.y + shown.menu.rendered_lines <= Height
        /\ InStepNow /\ Narrow(shown.menu) =>
             InStep(BelowTheLine(shown.terminal), shown.origin, prompt, line, cursor, shown.menu)
    BY <2>2 DEF MenuSeen
  <2>4. BelowTheLine(shown.terminal) \in Consoles /\ BelowTheLine(shown.terminal).y = shown.terminal.y
    BY <2>3, KeptBelow
  <2>5. LineOK(line', cursor', prompt', input_origin')
    BY <1>1, <2>1, <2>3 DEF EditorInv, LineOK
  <2>6. read' \in Outcomes /\ (ReadsFailOnlyAtTheBottom)'
    BY <1>1, <2>1 DEF Outcomes, ReadsFailOnlyAtTheBottom
  <2>7. OpenMenuOK(completion_menu', cursor')
    BY <1>1, <2>1, <2>3
  <2>8. (terminal.y + completion_menu.rendered_lines <= Height)'
    BY <2>1, <2>3, <2>4
  <2>9. EditorInv'
    BY <1>1, <2>1, <2>4, <2>5, <2>6, <2>7, <2>8, InvFields DEF EditorInv
  <2>10. ASSUME InStepNow
         PROVE  InStepNow' \/ Parts
    <3>1. CASE Narrow(shown.menu)
      <4>1. InStep(BelowTheLine(shown.terminal), shown.origin, prompt, line, cursor, shown.menu)
        BY <2>3, <2>10, <3>1
      <4>. QED
        BY <1>1, <2>1, <4>1 DEF InStepNow
    <3>2. CASE ~Narrow(shown.menu)
      <4>1. shown.menu # NoMenu /\ shown.menu.columns * completion_column_width(shown.menu.candidates) >= Width
        BY <2>3, <3>2, ManyAreAMenu
      <4>. QED
        BY <2>1, <4>1 DEF Parts
    <3>. QED
      BY <3>1, <3>2
  <2>. QED
    BY <2>9, <2>10
<1>3. CASE ~MenuFits(menu)
  <2>1. read' = "failed" /\ completion_menu' = NoMenu /\ terminal' = terminal /\ input_origin' = input_origin
    BY <1>3 DEF OpenMenu
  <2>2. Len(PromptShown(prompt)) < Len(prompt)
    BY <1>3, MenuRefused
  <2>3. (ReadsFailOnlyAtTheBottom)' /\ read' \in Outcomes
    BY <1>1, <2>1, <2>2 DEF ReadsFailOnlyAtTheBottom, Outcomes
  <2>4. LineOK(line', cursor', prompt', input_origin')
    BY <1>1, <2>1 DEF EditorInv
  <2>5. terminal' \in Consoles /\ (terminal.y + completion_menu.rendered_lines <= Height)'
    BY <2>1, InvFields, NoMenuRoom
  <2>6. EditorInv'
    BY <1>1, <2>1, <2>3, <2>4, <2>5, InvFields DEF EditorInv
  <2>7. ~Editing'
    BY <2>1 DEF Editing
  <2>. QED
    BY <2>6, <2>7
<1>. QED
  BY <1>2, <1>3

LEMMA ManyOfThem ==
  ASSUME NEW S, NEW s \in Seq(S), s # <<>>, Len(s) # 1
  PROVE  Len(s) >= 2
<1>. PICK n \in Nat : n = Len(s)
  BY LenProperties
<1>1. n # 0 /\ n # 1
  BY EmptySeq
<1>2. n >= 2
  BY <1>1
<1>. QED
  BY <1>2

(* A tab completes the word, or asks for a menu. *)
LEMMA TabKept ==
  ASSUME EditorInv, handle_tab
  PROVE  EditorInv' /\ (InStepNow /\ Editing' => InStepNow' \/ Parts)
<1>0. PICK candidates \in CandidateLists :
        /\ candidates # <<>>
        /\ IF Len(candidates) = 1 THEN CompleteOne(candidates[1])
           ELSE OpenMenu([NoMenu EXCEPT !.candidates = candidates, !.insertion_index = WordStart,
                                        !.delete_count = cursor - WordStart, !.rows = 1, !.columns = 1])
  BY DEF handle_tab
<1>1. ~MenuIsOpen
  BY DEF handle_tab
<1>2. candidates \in Seq(RowTexts) /\ candidates # <<>>
  BY <1>0, EditorAssumption
<1>3. CASE Len(candidates) = 1
  <2>1. candidates[1] \in RowTexts
    BY <1>2, <1>3
  <2>2. CompleteOne(candidates[1])
    BY <1>0, <1>3
  <2>. QED
    BY <1>1, <2>1, <2>2, CompletedKept
<1>4. CASE Len(candidates) # 1
  <2>. PICK start \in 0 .. cursor : start = WordStart
    BY WordStartIs
  <2>. PICK count : count = cursor - start
    OBVIOUS
  <2>1. cursor \in Nat
    BY InvFields
  <2>2. start \in Nat /\ count \in Nat /\ start <= cursor
    BY <2>1
  <2>3. Len(candidates) >= 2
    BY <1>2, <1>4, ManyOfThem
  <2>. PICK m : m = First(candidates, start, count)
    OBVIOUS
  <2>4. OpenMenu(m)
    BY <1>0, <1>4 DEF First
  <2>5. /\ m \in Menus
        /\ m.candidates = candidates /\ m.insertion_index = start /\ m.selected = 0 /\ m.rendered_lines = 0
    BY <2>2, FirstRequest
  <2>6. Request(m, cursor)
    BY <2>2, <2>3, <2>5 DEF Request
  <2>7. completion_menu = NoMenu
    BY <1>1 DEF MenuIsOpen
  <2>8. Requested(m)
    BY <2>5, <2>6, <2>7, NoMenuFields DEF Requested, Replaces
  <2>. QED
    BY <2>4, <2>8, MenuOpened
<1>. QED
  BY <1>3, <1>4

(* The menu drawn anew, with another candidate selected. *)
LEMMA SelectionKept ==
  ASSUME EditorInv, NEW direction \in {"Up", "Down", "Left", "Right"}, move_completion_selection(direction)
  PROVE  EditorInv' /\ (InStepNow /\ Editing' => InStepNow' \/ Parts)
<1>. PICK menu : menu = completion_menu
  OBVIOUS
<1>. PICK chosen : chosen = move_completion_selection_index(menu, direction)
  OBVIOUS
<1>. PICK m : m = [menu EXCEPT !.selected = chosen]
  OBVIOUS
<1>1. OpenMenuOK(menu, cursor)
  BY InvFields DEF move_completion_selection, MenuIsOpen
<1>2. /\ menu \in Menus /\ menu.candidates \in CandidateLists /\ Len(menu.candidates) >= 2
      /\ menu.insertion_index <= cursor /\ menu.selected \in Nat /\ menu.selected < Len(menu.candidates)
      /\ menu.rows = RowsFor(menu.candidates)
  BY <1>1, MenuFields DEF OpenMenuOK
<1>. PICK candidates : candidates = menu.candidates
  OBVIOUS
<1>3. candidates \in CandidateLists /\ Len(candidates) \in Nat /\ Len(candidates) >= 1
  <2>1. candidates \in CandidateLists /\ Len(candidates) >= 2
    BY <1>2
  <2>2. Len(candidates) \in Nat
    BY <2>1, Candidates
  <2>. QED
    BY <2>1, <2>2
<1>4. menu.rows \in Nat \ {0}
  BY <1>2, <1>3, GridIs
<1>5. BesideIn(chosen, Len(candidates))
  BY <1>2, <1>3, <1>4, SelectionIs
<1>6. chosen \in Nat /\ chosen < Len(candidates)
  BY <1>5 DEF BesideIn
<1>7. /\ m \in Menus /\ m.candidates = candidates /\ m.insertion_index = menu.insertion_index
      /\ m.selected = chosen /\ m.rendered_lines = menu.rendered_lines
  BY <1>2, <1>6, WithSelected
<1>8. Request(m, cursor)
  BY <1>2, <1>6, <1>7 DEF Request
<1>9. Requested(m)
  BY <1>7, <1>8 DEF Requested, Replaces
<1>10. OpenMenu(m)
  BY DEF move_completion_selection
<1>. QED
  BY <1>9, <1>10, MenuOpened

-----------------------------------------------------------------------------
(***************************************************************************)
(* The theorems.                                                           *)
(***************************************************************************)
LEMMA NothingChanges ==
  ASSUME EditorInv, UNCHANGED editor_vars
  PROVE  EditorInv' /\ (InStepNow => InStepNow')
<1>1. /\ line' = line /\ cursor' = cursor /\ prompt' = prompt /\ input_origin' = input_origin
      /\ history_position' = history_position /\ history_draft' = history_draft
      /\ completion_menu' = completion_menu /\ terminal' = terminal /\ read' = read
  BY DEF editor_vars
<1>2. EditorInv'
  BY <1>1 DEF EditorInv, ReadsFailOnlyAtTheBottom
<1>3. InStepNow => InStepNow'
  BY <1>1 DEF InStepNow
<1>. QED
  BY <1>2, <1>3

(* Every key keeps what the editor relies on, and the screen in step. *)
LEMMA EveryKey ==
  ASSUME EditorInv, [EditorNext]_editor_vars
  PROVE  EditorInv' /\ (InStepNow /\ Editing /\ Editing' => InStepNow' \/ Parts)
<1>1. CASE \E c \in Typed : on_char(c)
  BY <1>1, TypedKept
<1>2. CASE backspace
  BY <1>2, ErasedKept
<1>3. CASE move_cursor_left
  BY <1>3, LeftKept
<1>4. CASE move_cursor_right
  BY <1>4, RightKept
<1>5. CASE ClearScreen
  BY <1>5, ScreenCleared
<1>6. CASE move_history_previous
  BY <1>6, PreviousKept
<1>7. CASE move_history_next
  BY <1>7, NextKept
<1>8. CASE handle_tab
  BY <1>8, TabKept
<1>9. CASE accept_completion_selection
  BY <1>9, AcceptedKept
<1>10. CASE \E direction \in {"Up", "Down", "Left", "Right"} : move_completion_selection(direction)
  BY <1>10, SelectionKept
<1>11. CASE (\E ctrl_j \in BOOLEAN : Submit(ctrl_j)) \/ Interrupt \/ EndOfInput
  BY <1>11, EndsAre
<1>12. CASE \E ctrl_j \in BOOLEAN : Continue(ctrl_j)
  BY <1>12, ContinuedKept
<1>13. CASE ReadAgain
  <2>1. ~Editing
    BY <1>13 DEF ReadAgain, Editing
  <2>. QED
    BY <1>13, <2>1, ReadAgainInv
<1>14. CASE Over
  BY <1>14, NothingChanges DEF Over
<1>15. CASE UNCHANGED editor_vars
  BY <1>15, NothingChanges
<1>. QED
  BY <1>1, <1>2, <1>3, <1>4, <1>5, <1>6, <1>7, <1>8, <1>9, <1>10, <1>11, <1>12, <1>13, <1>14, <1>15
  DEF EditorNext

(* What the editor relies on, in whatever order the keys come: the line     *)
(* fits behind the prompt, the cursor is in it, an open menu is one that    *)
(* was laid out for its candidates, with the word it replaces before the    *)
(* cursor, and its rows are on the console.                                 *)
THEOREM EditorInvariant == EditorSpec => []EditorInv
<1>1. EditorInit => EditorInv
  BY InitInv
<1>2. EditorInv /\ [EditorNext]_editor_vars => EditorInv'
  BY EveryKey
<1>. QED
  BY <1>1, <1>2, PTL DEF EditorSpec

(* No command read fails on an error of the console, with any prompt, size  *)
(* of console and lists of candidates, except when a menu is opened at the  *)
(* bottom after a blank line: the prompt then starts with a newline that    *)
(* ensure_completion_menu_space makes no room for.                          *)
THEOREM EditorReadsFail == EditorSpec => []ReadsFailOnlyAtTheBottom
<1>1. EditorInv => ReadsFailOnlyAtTheBottom
  BY DEF EditorInv
<1>. QED
  BY <1>1, EditorInvariant, PTL

(* The least output each handler prints is enough: a key pressed when the   *)
(* screen shows the line, the cursor and the menu leaves it showing them,   *)
(* but for the three keys that part them.                                   *)
THEOREM EditorKeepsTheScreen == EditorSpec => KeysKeepTheScreen
<1>1. ASSUME EditorInv, [EditorNext]_editor_vars
      PROVE  KeepsTheScreen
  <2>1. (InStepNow /\ Editing /\ Editing') => (InStepNow' \/ Parts)
    BY <1>1, EveryKey
  <2>. QED
    BY <2>1 DEF KeepsTheScreen, InStepNow
<1>2. EditorInv /\ [EditorNext]_editor_vars => [KeepsTheScreen]_editor_vars
  BY <1>1
<1>. QED
  BY <1>2, EditorInvariant, PTL DEF EditorSpec, KeysKeepTheScreen
=============================================================================
