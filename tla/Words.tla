--------------------------------- MODULE Words ---------------------------------
(***************************************************************************)
(* The grammar of words (parser/word.rs), as the parsing expression grammar *)
(* it is: a rule at position i of the text p gives the next position and a  *)
(* value, next = 0 when it does not apply.  `stops` are the texts a piece   *)
(* of plain text ends before.                                              *)
(***************************************************************************)
EXTENDS Expansion

BQ == "backquote"
Digits == {"0", "1", "2", "3", "4", "5", "6", "7", "8", "9"}
FirstNameChars == {"_", "a", "b", "c", "d", "e", "f", "x", "y", "A", "B"}
NameChars == FirstNameChars \cup Digits
DigitValue(c) == CHOOSE n \in 0..9 : ToString(n) = c
NumberIn(s) == FoldLeft(LAMBDA n, c : 10 * n + DigitValue(c), 0, s)

Parsed(next, v) == [next |-> next, v |-> v]
NoParse == Parsed(0, <<>>)
Lit(p, i, u) == IF i > 0 /\ i + Len(u) - 1 <= Len(p) /\ SubSeq(p, i, i + Len(u) - 1) = u THEN i + Len(u) ELSE 0
AtStop(p, i, stops) == i > Len(p) \/ \E u \in stops : Lit(p, i, u) > 0
Between(p, i, j) == SubSeq(p, i, j - 1)
RunOf(p, i, set) == CHOOSE j \in i..(Len(p) + 1) : (\A k \in i..(j - 1) : p[k] \in set) /\ (j > Len(p) \/ p[j] \notin set)
NextOf(p, i, c) == CHOOSE j \in 0..Len(p) : IF j = 0 THEN \A k \in i..Len(p) : p[k] # c
                                            ELSE j >= i /\ p[j] = c /\ \A k \in i..(j - 1) : p[k] # c
(* The first rule that applies.                                            *)
FirstOf(rules) == LET hits == {k \in DOMAIN rules : rules[k].next > 0}
                  IN IF hits = {} THEN NoParse ELSE rules[CHOOSE k \in hits : \A j \in hits : k <= j]

variable_name(p, i) == IF At(p, i) \in FirstNameChars THEN RunOf(p, i, NameChars) ELSE 0
normal_escape_sequence(p, i) ==
  IF At(p, i) = "\\" /\ i < Len(p) THEN Parsed(i + 2, Piece("escape", <<p[i + 1]>>, <<>>, NoExpr)) ELSE NoParse
double_quoted_escape_sequence(p, i) ==
  IF At(p, i) = "\\" /\ At(p, i + 1) \in {"$", BQ, "\"", "\\"} THEN normal_escape_sequence(p, i) ELSE NoParse
heredoc_escape_sequence(p, i) ==
  IF At(p, i) = "\\" /\ At(p, i + 1) \in {"$", BQ, "\\"} THEN normal_escape_sequence(p, i) ELSE NoParse

single_quoted_literal_text(p, i) ==
  LET j == NextOf(p, i + 1, "'")
  IN IF At(p, i) = "'" /\ j > 0 THEN Parsed(j + 1, Piece("single", Between(p, i + 1, j), <<>>, NoExpr)) ELSE NoParse
RECURSIVE AnsiEnd(_, _)
AnsiEnd(p, i) ==
  IF At(p, i) = "\\" /\ At(p, i + 1) \in {"\\", "'"} THEN AnsiEnd(p, i + 2)
  ELSE IF At(p, i) \in {"'", "end"} THEN i ELSE AnsiEnd(p, i + 1)
ansi_c_quoted_text(p, i) ==
  LET j == AnsiEnd(p, i + 2)
  IN IF Lit(p, i, <<"$", "'">>) > 0 /\ At(p, j) = "'" THEN Parsed(j + 1, Piece("ansi", Between(p, i + 2, j), <<>>, NoExpr)) ELSE NoParse

RECURSIVE BackquotedText(_, _)
BackquotedText(p, i) ==
  LET pair == At(p, i) = "\\" /\ At(p, i + 1) \in {BQ, "\\"}
      rest == BackquotedText(p, IF pair THEN i + 2 ELSE i + 1)
  IN IF ~pair /\ At(p, i) \in {BQ, "end"} THEN Parsed(i, <<>>)
     ELSE [rest EXCEPT !.v = (IF ~pair THEN <<p[i]>> ELSE IF p[i + 1] = BQ THEN <<BQ>> ELSE <<"\\", "\\">>) \o @]

(* A tilde expression after its ~: what ends it is not read.                *)
tilde_expression(p, i) ==
  LET Closes(j) == j > Len(p) \/ p[j] \in {"/", ":", ";", "}"}
      digits == RunOf(p, i, Digits)
      signed == RunOf(p, i + 1, Digits)
      user == RunOf(p, i, NameChars \cup {".", "-"})
      Tilde(j, kind, text) == Parsed(j, Piece("tilde", <<kind>> \o text, <<>>, NoExpr))
  IN IF Closes(i) THEN Tilde(i, "home", <<>>)
     ELSE IF p[i] = "+" /\ Closes(i + 1) THEN Tilde(i + 1, "working", <<>>)
     ELSE IF digits > i /\ Closes(digits) THEN Tilde(digits, "from top", Between(p, i, digits))
     ELSE IF p[i] = "+" /\ signed > i + 1 /\ Closes(signed) THEN Tilde(signed, "from top", Between(p, i + 1, signed))
     ELSE IF p[i] = "-" /\ Closes(i + 1) THEN Tilde(i + 1, "old", <<>>)
     ELSE IF p[i] = "-" /\ signed > i + 1 THEN IF Closes(signed) THEN Tilde(signed, "from bottom", Between(p, i + 1, signed)) ELSE NoParse
     ELSE IF Closes(user) THEN Tilde(user, "user", Between(p, i, user))
     ELSE NoParse
tilde_expression_piece(p, i) == IF At(p, i) = "~" THEN tilde_expression(p, i + 1) ELSE NoParse

special_parameter(p, i) ==
  LET c == At(p, i)
      Special(kind, star) == Parsed(i + 1, Parameter(kind, <<>>, 0, star))
  IN CASE c \in {"@", "*"} -> Special("all", c = "*")
       [] c = "#" -> Special("count", FALSE)
       [] c = "?" -> Special("status", FALSE)
       [] c = "-" -> Special("option flags", FALSE)
       [] c = "$" -> Special("process", FALSE)
       [] c = "!" -> Special("background", FALSE)
       [] c = "0" -> Special("shell name", FALSE)
       [] OTHER -> NoParse
unbraced_parameter(p, i) ==
  FirstOf(<<IF At(p, i) \in Digits \ {"0"} THEN Parsed(i + 1, Parameter("positional", <<>>, DigitValue(p[i]), FALSE)) ELSE NoParse,
            special_parameter(p, i),
            IF variable_name(p, i) > 0 THEN Parsed(variable_name(p, i), Parameter("named", Between(p, i, variable_name(p, i)), 0, FALSE))
            ELSE NoParse>>)

---------------------------------------------------------------------------
RECURSIVE word_piece(_, _, _, _), word_pieces(_, _, _, _), UnquotedEnd(_, _, _, _), dollar_sign_word_piece(_, _),
          double_quoted_inner(_, _), command(_, _), arithmetic_word(_, _, _), ExtglobEnd(_, _)

word_pieces(p, i, stops, in_command) ==
  LET one == word_piece(p, i, stops, in_command)
      rest == word_pieces(p, one.next, stops, in_command)
  IN IF one.next = 0 THEN Parsed(i, <<>>) ELSE [rest EXCEPT !.v = <<one.v>> \o @]
word(p, i, stops) ==
  LET tilde == tilde_expression_piece(p, i)
      rest == word_pieces(p, tilde.next, stops, FALSE)
  IN IF tilde.next = 0 THEN word_pieces(p, i, stops, FALSE) ELSE [rest EXCEPT !.v = <<tilde.v>> \o @]

array_element_name(p, i) ==
  LET name == variable_name(p, i)
      open == IF name = 0 THEN 0 ELSE Lit(p, name, <<"[">>)
      close == IF open = 0 THEN 0 ELSE arithmetic_word(p, open, {<<"]">>})
  IN IF close > 0 /\ At(p, close) = "]" THEN close + 1 ELSE 0
arithmetic_word(p, i, stops) ==
  LET group == IF At(p, i) = "(" THEN arithmetic_word(p, i + 1, {<<")">>}) ELSE 0
      element == array_element_name(p, i)
      piece == word_piece(p, i, stops \cup {<<"(">>}, FALSE)
  IN IF group > 0 /\ At(p, group) = ")" THEN arithmetic_word(p, group + 1, stops)
     ELSE IF At(p, i) = "(" THEN i
     ELSE IF element > 0 THEN arithmetic_word(p, element, stops)
     ELSE IF piece.next > 0 THEN arithmetic_word(p, piece.next, stops)
     ELSE i

parameter(p, i) ==
  LET number == RunOf(p, i, Digits)
      name == variable_name(p, i)
      index == IF name > 0 /\ At(p, name) = "[" THEN arithmetic_word(p, name + 1, {<<"]">>}) ELSE 0
      named == Between(p, i, name)
      All(c) == LET j == Lit(p, name, <<"[", c, "]">>)
                IN IF j > 0 THEN Parsed(j, Parameter("elements", named, 0, c = "*")) ELSE NoParse
  IN FirstOf(<<IF At(p, i) \in Digits \ {"0"} THEN Parsed(number, Parameter("positional", <<>>, NumberIn(Between(p, i, number)), FALSE))
               ELSE NoParse,
               special_parameter(p, i), All("@"), All("*"),
               IF index > 0 /\ At(p, index) = "]"
               THEN Parsed(index + 1, [Parameter("element", named, 0, FALSE) EXCEPT !.n = Between(p, name + 1, index)])
               ELSE NoParse,
               IF name > 0 THEN Parsed(name, Parameter("named", named, 0, FALSE)) ELSE NoParse>>)

(* A parameter expression: [op, par, indirect, word, with, kind, colon,      *)
(* offset, length], its words as text.                                      *)
ExprOf(op, par, indirect) ==
  [op |-> op, par |-> par, indirect |-> indirect, word |-> <<>>, with |-> <<>>, kind |-> "", colon |-> FALSE,
   offset |-> <<>>, length |-> <<>>]
WithWord(p, i, e, stops) ==
  LET end == word(p, i, stops).next IN Parsed(end, [e EXCEPT !.word = Between(p, i, end)])
TestOps == << <<"-", "UseDefaultValues">>, <<"=", "AssignDefaultValues">>, <<"?", "IndicateErrorIfNullOrUnset">>,
              <<"+", "UseAlternativeValue">> >>
RemovalOps == << << <<"%", "%">>, "RemoveLargestSuffixPattern">>, << <<"%">>, "RemoveSmallestSuffixPattern">>,
                 << <<"#", "#">>, "RemoveLargestPrefixPattern">>, << <<"#">>, "RemoveSmallestPrefixPattern">> >>
CaseOps == << << <<"^", "^">>, "UppercasePattern">>, << <<"^">>, "UppercaseFirstChar">>,
              << <<",", ",">>, "LowercasePattern">>, << <<",">>, "LowercaseFirstChar">> >>
ReplaceOps == << << <<"/", "#">>, "Prefix">>, << <<"/", "%">>, "Suffix">>, << <<"/", "/">>, "Anywhere">>, << <<"/">>, "FirstOccurrence">> >>
TransformOps == [U |-> "ToUpperCase", u |-> "CapitalizeInitial", L |-> "ToLowerCase", Q |-> "Quoted", E |-> "ExpandEscapeSequences",
                 P |-> "PromptExpand", A |-> "ToAssignmentLogic", K |-> "PossiblyQuoteWithArraysExpanded",
                 a |-> "ToAttributeFlags", k |-> "PossiblyQuoteWithArraysExpanded"]

non_posix_parameter_expression(p, i, indirect, par) ==
  LET at == par.next
      E(op) == ExprOf(op, par.v, indirect)
      names == IF At(p, i) = "!" THEN variable_name(p, i + 1) ELSE 0
      Names(op, u, star) ==
        LET j == IF names = 0 THEN 0 ELSE Lit(p, names, u)
        IN IF j > 0 THEN Parsed(j, ExprOf(op, Parameter("named", Between(p, i + 1, names), 0, star), FALSE)) ELSE NoParse
      Worded(ops) == [k \in DOMAIN ops |->
        LET j == Lit(p, at, ops[k][1]) IN IF j > 0 THEN WithWord(p, j, E(ops[k][2]), {<<"}">>}) ELSE NoParse]
      Replaced == [k \in DOMAIN ReplaceOps |->
        LET j == Lit(p, at, ReplaceOps[k][1])
            pattern == WithWord(p, j, [E("ReplaceSubstring") EXCEPT !.kind = ReplaceOps[k][2]], {<<"}">>, <<"/">>})
            to == IF At(p, pattern.next) = "/" THEN word(p, pattern.next + 1, {<<"}">>}).next ELSE pattern.next
        IN IF j = 0 THEN NoParse ELSE Parsed(to, [pattern.v EXCEPT !.with = SubSeq(p, pattern.next + 1, to - 1)])]
      offset == arithmetic_word(p, at + 1, {<<":">>, <<"}">>})
      length == arithmetic_word(p, offset + 1, {<<":">>, <<"}">>})
      slice == [E("Substring") EXCEPT !.offset = Between(p, at + 1, offset)]
  IN FirstOf(<<Names("MemberKeys", <<"[", "*", "]">>, TRUE), Names("MemberKeys", <<"[", "@", "]">>, FALSE),
               IF at = 0 \/ At(p, at) # ":" THEN NoParse
               ELSE IF At(p, offset) # ":" THEN Parsed(offset, slice)
               ELSE Parsed(length, [slice EXCEPT !.length = <<Between(p, offset + 1, length)>>]),
               IF at > 0 /\ At(p, at) = "@" /\ At(p, at + 1) \in DOMAIN TransformOps
               THEN Parsed(at + 2, [E("Transform") EXCEPT !.kind = TransformOps[p[at + 1]]]) ELSE NoParse,
               Names("VariableNames", <<"*">>, TRUE), Names("VariableNames", <<"@">>, FALSE)>> \o Replaced \o Worded(CaseOps))

parameter_expression(p, i) ==
  LET indirect == At(p, i) = "!"
      par == parameter(p, IF indirect THEN i + 1 ELSE i)
      at == par.next
      tested == IF At(p, at) = ":" THEN at + 1 ELSE at
      counted == IF At(p, i) = "#" THEN parameter(p, i + 1) ELSE NoParse
      Tested(k) == IF at > 0 /\ At(p, tested) = TestOps[k][1]
                   THEN WithWord(p, tested + 1, [ExprOf(TestOps[k][2], par.v, indirect) EXCEPT !.colon = tested > at], {<<"}">>})
                   ELSE NoParse
      Removed(k) == LET j == Lit(p, at, RemovalOps[k][1])
                    IN IF j > 0 THEN WithWord(p, j, ExprOf(RemovalOps[k][2], par.v, indirect), {<<"}">>}) ELSE NoParse
  IN FirstOf([k \in 1..4 |-> Tested(k)]
             \o <<IF counted.next > 0 THEN Parsed(counted.next, ExprOf("ParameterLength", counted.v, FALSE)) ELSE NoParse>>
             \o [k \in 1..4 |-> Removed(k)]
             \o <<non_posix_parameter_expression(p, i, indirect, par),
                  IF at > 0 THEN Parsed(at, ExprOf("Parameter", par.v, indirect)) ELSE NoParse>>)

parameter_expansion(p, i) ==
  LET braced == IF Lit(p, i, <<"$", "{">>) > 0 THEN parameter_expression(p, i + 2) ELSE NoParse
      plain == unbraced_parameter(p, i + 1)
  IN IF At(p, i) # "$" THEN NoParse
     ELSE IF braced.next > 0 /\ At(p, braced.next) = "}" THEN Parsed(braced.next + 1, Piece("parameter", <<>>, <<>>, braced.v))
     ELSE IF plain.next > 0 THEN Parsed(plain.next, Piece("parameter", <<>>, <<>>, ExprOf("Parameter", plain.v, FALSE)))
     ELSE IF At(p, i + 1) # "'" THEN Parsed(i + 1, Piece("text", <<"$">>, <<>>, NoExpr))
     ELSE NoParse

subshell_command(p, i) ==
  LET end == command(p, i + 1) IN IF At(p, i) = "(" /\ At(p, end) = ")" THEN end + 1 ELSE 0

(* $((...)) or $[...]: an expression up to its end.                         *)
Arithmetic(p, i, open, close) ==
  LET start == Lit(p, i, open)
      end == arithmetic_word(p, start, {close})
  IN IF start > 0 /\ Lit(p, end, close) > 0
     THEN Parsed(end + Len(close), Piece("arithmetic", Between(p, start, end), <<>>, NoExpr)) ELSE NoParse
command_substitution(p, i) ==
  LET end == command(p, i + 2)
      quoted == BackquotedText(p, i + 1)
  IN IF Lit(p, i, <<"$", "(">>) > 0 /\ At(p, end) = ")"
     THEN Parsed(end + 1, Piece("command", Between(p, i + 2, end), <<>>, NoExpr))
     ELSE IF At(p, i) = BQ /\ At(p, quoted.next) = BQ THEN Parsed(quoted.next + 1, Piece("command", quoted.v, <<>>, NoExpr))
     ELSE NoParse
dollar_sign_word_piece(p, i) ==
  IF At(p, i) \notin {"$", BQ} THEN NoParse
  ELSE FirstOf(<<Arithmetic(p, i, <<"$", "(", "(">>, <<")", ")">>), Arithmetic(p, i, <<"$", "[">>, <<"]">>),
                 command_substitution(p, i), parameter_expansion(p, i)>>)

command(p, i) ==
  LET piece == word_piece(p, i, {<<")">>}, TRUE)
  IN IF piece.next > 0 THEN command(p, piece.next)
     ELSE IF At(p, i) \in {" ", "\t", "'", BQ} THEN command(p, i + 1)
     ELSE i

ExtglobEnd(p, i) == word_pieces(p, i, {<<")">>}, TRUE).next
extglob_pattern(p, i) ==
  LET end == ExtglobEnd(p, i + 2)
  IN IF At(p, i) \in {"@", "!", "?", "+", "*"} /\ At(p, i + 1) = "(" /\ At(p, end) = ")" THEN end + 1 ELSE 0

(* The text of a double-quoted sequence, or of a here-document, that its     *)
(* escapes and expansions leave.                                            *)
RECURSIVE PlainEnd(_, _, _, _)
PlainEnd(p, i, Escape(_, _), ends) ==
  IF At(p, i) \in ends \cup {"end"} \/ Escape(p, i).next > 0 \/ dollar_sign_word_piece(p, i).next > 0 THEN i
  ELSE PlainEnd(p, i + 1, Escape, ends)
PlainText(p, i, Escape(_, _), ends) ==
  LET j == PlainEnd(p, i, Escape, ends) IN IF j > i THEN Parsed(j, Piece("text", Between(p, i, j), <<>>, NoExpr)) ELSE NoParse
double_quoted_inner(p, i) ==
  LET one == FirstOf(<<dollar_sign_word_piece(p, i), double_quoted_escape_sequence(p, i),
                       PlainText(p, i, double_quoted_escape_sequence, {"\""})>>)
      rest == double_quoted_inner(p, one.next)
  IN IF one.next = 0 THEN Parsed(i, <<>>) ELSE [rest EXCEPT !.v = <<one.v>> \o @]
double_quoted_sequence(p, i, open) ==
  LET start == Lit(p, i, open)
      inner == double_quoted_inner(p, start)
  IN IF start > 0 /\ At(p, inner.next) = "\"" THEN Parsed(inner.next + 1, Double(inner.v)) ELSE NoParse

UnquotedEnd(p, i, stops, in_command) ==
  LET glob == IF in_command THEN extglob_pattern(p, i) ELSE 0
      shell == IF in_command THEN subshell_command(p, i) ELSE 0
  IN IF glob > 0 THEN UnquotedEnd(p, glob, stops, in_command)
     ELSE IF shell > 0 THEN UnquotedEnd(p, shell, stops, in_command)
     ELSE IF AtStop(p, i, stops) \/ normal_escape_sequence(p, i).next > 0 \/ p[i] \in {"'", "\"", "$", BQ} THEN i
     ELSE UnquotedEnd(p, i + 1, stops, in_command)

word_piece(p, i, stops, in_command) ==
  LET end == UnquotedEnd(p, i, stops, in_command)
      c == At(p, i)
  IN CASE c = "\"" -> double_quoted_sequence(p, i, <<"\"">>)
       [] c = "'" -> single_quoted_literal_text(p, i)
       [] c = "$" -> FirstOf(<<ansi_c_quoted_text(p, i), double_quoted_sequence(p, i, <<"$", "\"">>), dollar_sign_word_piece(p, i)>>)
       [] c = BQ -> dollar_sign_word_piece(p, i)
       [] c = "\\" /\ i < Len(p) -> normal_escape_sequence(p, i)
       [] OTHER -> IF end > i THEN Parsed(end, Piece("text", Between(p, i, end), <<>>, NoExpr)) ELSE NoParse

RECURSIVE heredoc_word(_, _)
heredoc_word(p, i) ==
  LET one == FirstOf(<<dollar_sign_word_piece(p, i), heredoc_escape_sequence(p, i), PlainText(p, i, heredoc_escape_sequence, {BQ})>>)
      rest == heredoc_word(p, one.next)
  IN IF one.next = 0 THEN Parsed(i, <<>>) ELSE [rest EXCEPT !.v = <<one.v>> \o @]

(* The whole of a text: [ok, v].                                            *)
Whole(p, r) == [ok |-> r.next = Len(p) + 1, v |-> r.v]
parse(p) == Whole(p, word(p, 1, {}))
parse_heredoc(p) == Whole(p, heredoc_word(p, 1))
===============================================================================
