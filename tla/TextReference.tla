------------------------------ MODULE TextReference ------------------------------
(***************************************************************************)
(* What patterns and field splitting mean, stated without an algorithm.     *)
(***************************************************************************)
EXTENDS Integers, Sequences, SequencesExt

Rest(s, n) == SubSeq(s, n + 1, Len(s))

(* A pattern as a tree: atoms [op, chars, kids]; kids are the branches.     *)
Atom(op, chars, kids) == [op |-> op, chars |-> chars, kids |-> kids]
Quantifiers == {"@", "?", "*", "+", "!"}

RECURSIVE Written(_)
Written(atoms) ==
  FlattenSeq([k \in DOMAIN atoms |->
    LET a == atoms[k]
        branches == FlattenSeq([b \in DOMAIN a.kids |-> (IF b = 1 THEN <<>> ELSE <<"|">>) \o Written(a.kids[b])])
    IN CASE a.op = "character" -> a.chars
         [] a.op = "any" -> <<"?">>
         [] a.op = "text" -> <<"*">>
         [] a.op = "set" -> <<"[">> \o a.chars \o <<"]">>
         [] a.op = "not set" -> <<"[", "!">> \o a.chars \o <<"]">>
         [] a.op \in Quantifiers -> <<a.op, "(">> \o branches \o <<")">>])

RECURSIVE Denotes(_, _), Repeats(_, _)
Repeats(branches, t) ==
  t = <<>> \/ \E n \in 1..Len(t) : (\E b \in DOMAIN branches : Denotes(branches[b], SubSeq(t, 1, n))) /\ Repeats(branches, Rest(t, n))
AtomDenotes(a, t) ==
  LET once == \E b \in DOMAIN a.kids : Denotes(a.kids[b], t)
      Has(c) == \E k \in DOMAIN a.chars : a.chars[k] = c
  IN CASE a.op = "character" -> t = a.chars
       [] a.op = "any" -> Len(t) = 1
       [] a.op = "text" -> TRUE
       [] a.op = "set" -> Len(t) = 1 /\ Has(t[1])
       [] a.op = "not set" -> Len(t) = 1 /\ ~Has(t[1])
       [] a.op = "@" -> once
       [] a.op = "?" -> once \/ t = <<>>
       [] a.op = "*" -> Repeats(a.kids, t)
       [] a.op = "+" -> once \/ \E n \in 1..Len(t) : (\E b \in DOMAIN a.kids : Denotes(a.kids[b], SubSeq(t, 1, n)))
                                                     /\ Repeats(a.kids, Rest(t, n))
       [] a.op = "!" -> ~once
Denotes(atoms, t) ==
  IF atoms = <<>> THEN t = <<>>
  ELSE \E n \in 0..Len(t) : AtomDenotes(atoms[1], SubSeq(t, 1, n)) /\ Denotes(Tail(atoms), Rest(t, n))

(* The text without the shortest or longest non-empty start or end that a    *)
(* pattern denotes.                                                         *)
Fitting(atoms, t, start) ==
  {n \in 1..Len(t) : Denotes(atoms, IF start THEN SubSeq(t, 1, n) ELSE Rest(t, Len(t) - n))}
Without(atoms, t, start, longest) ==
  LET fit == Fitting(atoms, t, start)
      n == CHOOSE n \in fit : \A m \in fit : IF longest THEN m <= n ELSE n <= m
  IN IF fit = {} THEN t ELSE IF start THEN Rest(t, n) ELSE SubSeq(t, 1, Len(t) - n)

(* Field splitting of marked characters [q, c]: delimiters end fields, as    *)
(* many blanks as there are and at most one other delimiter together.       *)
RECURSIVE FieldsOf(_, _, _)
FieldsOf(m, ifs, White) ==
  LET Ends(k) == ~m[k].q /\ \E j \in DOMAIN ifs : ifs[j] = m[k].c
      Blank(k) == Ends(k) /\ m[k].c \in White
      RunFrom(k) == CHOOSE n \in k..(Len(m) + 1) : (\A j \in k..(n - 1) : Blank(j)) /\ (n > Len(m) \/ ~Blank(n))
      first == RunFrom(1)
      close == CHOOSE n \in first..(Len(m) + 1) : (\A j \in first..(n - 1) : ~Ends(j)) /\ (n > Len(m) \/ Ends(n))
      mark == IF close > Len(m) THEN close ELSE RunFrom(close)
      next == IF mark <= Len(m) /\ Ends(mark) THEN mark + 1 ELSE mark
  IN IF first > Len(m) THEN <<>>
     ELSE <<SubSeq(m, first, close - 1)>> \o FieldsOf(Rest(m, next - 1), ifs, White)
==================================================================================
