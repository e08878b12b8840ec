--------------------------------- MODULE Braces ---------------------------------
(***************************************************************************)
(* Brace expansion: the part of the word grammar that reads braces          *)
(* (parser/word.rs) and the words they generate (engine/braceexpansion.rs). *)
(* An expression is a sequence of members [op, start, end, increment, kids];*)
(* a piece of a word is [op, text, members].                                *)
(***************************************************************************)
EXTENDS Words

CONSTANTS
  MaxBraceDepth,    \* MAX_BRACE_NESTING_DEPTH
  MaxBraceResults,  \* words a byte budget of MAX_BRACE_EXPANSION_BYTES allows
  MaxNumber         \* the largest magnitude a number of a sequence may have

TextPiece(text) == [op |-> "text", text |-> text, members |-> <<>>]
ExprPiece(members) == [op |-> "expr", text |-> <<>>, members |-> members]
Child(kids) == [op |-> "child", start |-> 0, end |-> 0, increment |-> 1, kids |-> kids]
Sequence(op, start, end, increment) == [op |-> op, start |-> start, end |-> end, increment |-> increment, kids |-> <<>>]
CharOrder == <<"A", "B", "C", "a", "b", "c", "d", "e">>
CharCode(c) == CHOOSE k \in DOMAIN CharOrder : CharOrder[k] = c
CharSet == {CharOrder[k] : k \in DOMAIN CharOrder}

number(p, i) ==
  LET signed == At(p, i) \in {"-", "+"}
      from == IF signed THEN i + 1 ELSE i
      to == RunOf(p, from, Digits)
      n == NumberIn(Between(p, from, to))
  IN IF i = 0 \/ to = from \/ n > MaxNumber THEN NoParse ELSE Parsed(to, IF At(p, i) = "-" THEN -n ELSE n)
character(p, i) == IF At(p, i) \in CharSet THEN Parsed(i + 1, CharCode(p[i])) ELSE NoParse

SequenceOf(p, i, op, Bound(_, _)) ==
  LET start == Bound(p, i)
      end == Bound(p, Lit(p, start.next, <<".", ".">>))
      step == number(p, Lit(p, end.next, <<".", ".">>))
  IN IF start.next = 0 \/ end.next = 0 THEN NoParse
     ELSE IF step.next > 0 THEN Parsed(step.next, Sequence(op, start.v, end.v, step.v))
     ELSE Parsed(end.next, Sequence(op, start.v, end.v, 1))
brace_sequence_expr(p, i) == FirstOf(<<SequenceOf(p, i, "numbers", number), SequenceOf(p, i, "chars", character)>>)

RECURSIVE brace_expr(_, _), brace_pieces(_, _, _), brace_members(_, _), TextEnd(_, _, _)

(* non_brace_expr_text as long as it applies.                               *)
TextEnd(p, i, stops) ==
  LET piece == IF At(p, i) = "{" THEN NoParse ELSE word_piece(p, i, stops \cup {<<"{">>}, FALSE)
  IN IF piece.next > 0 THEN TextEnd(p, piece.next, stops)
     ELSE IF At(p, i) = "{" /\ ~AtStop(p, i, stops) /\ brace_expr(p, i).next = 0 THEN TextEnd(p, i + 1, stops)
     ELSE i
brace_pieces(p, i, stops) ==
  LET expr == brace_expr(p, i)
      end == TextEnd(p, i, stops)
      one == IF expr.next > 0 THEN Parsed(expr.next, ExprPiece(expr.v))
             ELSE IF end > i THEN Parsed(end, TextPiece(Between(p, i, end))) ELSE NoParse
      rest == brace_pieces(p, one.next, stops)
  IN IF one.next = 0 THEN Parsed(i, <<>>) ELSE [rest EXCEPT !.v = <<one.v>> \o @]
brace_members(p, i) ==
  LET kids == brace_pieces(p, i, {<<",">>, <<"}">>})
      member == IF At(p, i) \in {",", "}"} THEN Parsed(i, Child(<<TextPiece(<<>>)>>))
                ELSE IF kids.next > i THEN Parsed(kids.next, Child(kids.v)) ELSE NoParse
      rest == brace_members(p, member.next + 1)
  IN IF member.next = 0 THEN Parsed(i, <<>>)
     ELSE IF At(p, member.next) = "," /\ rest.v # <<>> THEN [rest EXCEPT !.v = <<member.v>> \o @]
     ELSE Parsed(member.next, <<member.v>>)
brace_expr(p, i) ==
  LET list == brace_members(p, i + 1)
      range == brace_sequence_expr(p, i + 1)
  IN IF At(p, i) # "{" THEN NoParse
     ELSE IF Len(list.v) > 1 THEN IF At(p, list.next) = "}" THEN Parsed(list.next + 1, list.v) ELSE NoParse
     ELSE IF range.next > 0 /\ At(p, range.next) = "}" THEN Parsed(range.next + 1, <<range.v>>)
     ELSE NoParse
brace_expansions(p) == Whole(p, brace_pieces(p, 1, {}))

---------------------------------------------------------------------------
(* The characters outside quotes and not escaped, by a scan from `start`.   *)
ScanQuotes(p, start) ==
  FoldLeft(LAMBDA st, k :
             LET c == p[k] IN
             IF st.escaped THEN [st EXCEPT !.escaped = FALSE]
             ELSE IF c = "\\" /\ st.quote # "'" THEN [st EXCEPT !.escaped = TRUE]
             ELSE IF st.quote # "" THEN [st EXCEPT !.quote = IF c = @ THEN "" ELSE @]
             ELSE IF c \in {"'", "\""} THEN [st EXCEPT !.quote = c]
             ELSE [st EXCEPT !.plain = @ \cup {k}],
           [escaped |-> FALSE, quote |-> "", plain |-> {}], [k \in 1..(Len(p) - start + 1) |-> start + k - 1]).plain
Depths(p, plain, from) ==
  FoldLeft(LAMBDA ds, k : LET d == IF ds = <<>> THEN 0 ELSE Last(ds)
                          IN Append(ds, IF k \notin plain THEN d ELSE IF p[k] = "{" THEN d + 1
                                        ELSE IF p[k] = "}" /\ d > 0 THEN d - 1 ELSE d),
           <<>>, [k \in 1..(Len(p) - from + 1) |-> from + k - 1])
validate_brace_source(p) == \A k \in DOMAIN Depths(p, ScanQuotes(p, 1), 1) : Depths(p, ScanQuotes(p, 1), 1)[k] <= MaxBraceDepth

find_matching_brace(p, opening) ==
  LET depths == Depths(p, ScanQuotes(p, opening), opening)
      ends == {k \in DOMAIN depths : depths[k] = 0}
  IN IF ends = {} THEN 0 ELSE opening - 1 + CHOOSE k \in ends : \A j \in ends : k <= j

(* The width a padded number sequence is written with, 0 where it has none. *)
parse_number_sequence_format(inner) ==
  LET start == number(inner, 1)
      end == number(inner, Lit(inner, start.next, <<".", ".">>))
      step == number(inner, Lit(inner, end.next, <<".", ".">>))
      first == Between(inner, 1, start.next)
      last == Between(inner, start.next + 2, end.next)
      Padded(s) == LET digits == IF s[1] \in {"-", "+"} THEN Tail(s) ELSE s IN Len(digits) > 1 /\ digits[1] = "0"
      widest == IF Len(first) > Len(last) THEN Len(first) ELSE Len(last)
  IN IF start.next = 0 \/ end.next = 0 \/ Len(inner) + 1 \notin {end.next, step.next} THEN <<>>
     ELSE <<[start |-> start.v, end |-> end.v, width |-> IF Padded(first) \/ Padded(last) THEN widest ELSE 0]>>
find_number_sequence_formats(p) ==
  LET plain == ScanQuotes(p, 1)
      FormatAt(k) == LET close == find_matching_brace(p, k)
                     IN IF k \notin plain \/ p[k] # "{" \/ (k > 1 /\ p[IF k = 1 THEN 1 ELSE k - 1] = "$") \/ close = 0 THEN <<>>
                        ELSE parse_number_sequence_format(SubSeq(p, k + 1, close - 1))
  IN FlattenSeq([k \in DOMAIN p |-> FormatAt(k)])
FormatFor(formats, m) == {k \in DOMAIN formats : formats[k].start = m.start /\ formats[k].end = m.end}
FirstIn(set) == CHOOSE k \in set : \A j \in set : k <= j

Digit(n) == ToString(n)
RECURSIVE DecimalOf(_)
DecimalOf(n) == IF n < 10 THEN <<Digit(n)>> ELSE Append(DecimalOf(n \div 10), Digit(n % 10))
Zeros(n) == [k \in 1..(IF n > 0 THEN n ELSE 0) |-> "0"]
UnpaddedNumber(n, width) == (IF n < 0 THEN <<"-">> ELSE <<>>) \o DecimalOf(IF n < 0 THEN -n ELSE n)
WrittenNumber(n, width) ==
  LET sign == IF n < 0 THEN <<"-">> ELSE <<>>
      digits == DecimalOf(IF n < 0 THEN -n ELSE n)
  IN sign \o Zeros(width - Len(sign) - Len(digits)) \o digits
Steps(m) ==
  LET step == IF m.increment = 0 THEN 1 ELSE IF m.increment < 0 THEN -m.increment ELSE m.increment
      up == m.start <= m.end
      span == IF up THEN m.end - m.start ELSE m.start - m.end
  IN [k \in 1..(span \div step + 1) |-> IF up THEN m.start + (k - 1) * step ELSE m.start - (k - 1) * step]

RECURSIVE expand_pieces(_, _, _)
(* [words, formats, err]; the formats not yet taken are threaded through.    *)
expand_brace_expr_member(m, depth, formats) ==
  LET fits == FormatFor(formats, m)
      width == IF fits = {} THEN 0 ELSE formats[FirstIn(fits)].width
      steps == Steps(m)
  IN CASE m.op = "numbers" ->
            [words |-> [k \in DOMAIN steps |-> WrittenNumber(steps[k], width)],
             formats |-> IF fits = {} THEN formats ELSE RemoveAt(formats, FirstIn(fits)), err |-> FALSE]
       [] m.op = "chars" -> [words |-> [k \in DOMAIN steps |-> <<CharOrder[steps[k]]>>], formats |-> formats, err |-> FALSE]
       [] m.op = "child" -> expand_pieces(m.kids, depth + 1, formats)
expand_brace_expr_or_text(piece, depth, formats) ==
  IF piece.op = "text" THEN [words |-> <<piece.text>>, formats |-> formats, err |-> FALSE]
  ELSE FoldLeft(LAMBDA acc, m : LET r == expand_brace_expr_member(m, depth, acc.formats)
                                IN [r EXCEPT !.words = acc.words \o @, !.err = @ \/ acc.err],
                [words |-> <<>>, formats |-> formats, err |-> FALSE], piece.members)
expand_pieces(pieces, depth, formats) ==
  LET Times(ws, us) == FlattenSeq([j \in DOMAIN ws |-> [k \in DOMAIN us |-> ws[j] \o us[k]]])
  IN FoldLeft(LAMBDA acc, piece :
                LET r == expand_brace_expr_or_text(piece, depth, acc.formats)
                    many == Len(acc.words) * Len(r.words) > MaxBraceResults
                IN [r EXCEPT !.words = IF many THEN <<>> ELSE Times(acc.words, @), !.err = @ \/ acc.err \/ many],
              [words |-> << <<>> >>, formats |-> formats, err |-> depth > MaxBraceDepth], pieces)

(* A closing brace after an opening one; one right after $ does not count.  *)
may_contain_braces_to_expand(p) ==
  LET Escaped1(k) == k > 1 /\ p[k - 1] = "\\"
      Counts(k, c) == p[k] = c /\ (k = 1 \/ p[k - 1] # "$" \/ Escaped1(k - 1))
  IN \E j, k \in DOMAIN p : j < k /\ Counts(j, "{") /\ Counts(k, "}")

(* The words a word stands for, itself where it has no braces to expand.    *)
brace_expand_if_needed(p) ==
  LET pieces == brace_expansions(p)
      done == expand_pieces(pieces.v, 0, find_number_sequence_formats(p))
  IN IF ~may_contain_braces_to_expand(p) THEN [words |-> <<p>>, err |-> FALSE]
     ELSE IF ~validate_brace_source(p) THEN [words |-> <<>>, err |-> TRUE]
     ELSE IF ~pieces.ok \/ \A k \in DOMAIN pieces.v : pieces.v[k].op = "text" THEN [words |-> <<p>>, err |-> FALSE]
     ELSE [words |-> done.words, err |-> done.err]
===============================================================================
