-------------------------------- MODULE Expansion --------------------------------
(***************************************************************************)
(* Word expansion after parsing (engine/expansion.rs): a word is a         *)
(* sequence of pieces [op, text, kids, expr]; expanding it gives fields,    *)
(* each a sequence of pieces [q, s] where q marks text that field          *)
(* splitting and globbing leave alone.  An environment `env` is threaded    *)
(* through, as ${x=word} assigns; a failed expansion carries its error.     *)
(* Braces are a piece whose kids are the alternatives, words of their own;  *)
(* reading them, and ranges, are left to Braces.  The word of an expression *)
(* in double quotes is what it is read as there (expand_parameter_word).    *)
(* Arithmetic and commands come with their results; the transformations    *)
(* @A, @a, @E and @P, and namerefs, are left to the modules that model      *)
(* escapes and variables.                                                  *)
(***************************************************************************)
EXTENDS Integers, Patterns

Piece(op, text, kids, expr) == [op |-> op, text |-> text, kids |-> kids, expr |-> expr]
NoExpr == <<>>
Double(kids) == Piece("double", <<>>, kids, NoExpr)

Expansion(fields) == [fields |-> fields, concatenate |-> TRUE, undefined |-> FALSE, from_array |-> FALSE]
OfPiece(q, s) == Expansion(<< <<[q |-> q, s |-> s]>> >>)
OfText(s) == OfPiece(FALSE, s)
OfArray(texts, concatenate) ==
  [Expansion([k \in DOMAIN texts |-> <<[q |-> FALSE, s |-> texts[k]]>>]) EXCEPT !.concatenate = concatenate, !.from_array = TRUE]
Undefined == [OfText(<<>>) EXCEPT !.undefined = TRUE]
FieldText(field) == FlattenSeq([k \in DOMAIN field |-> field[k].s])
Intersperse(seqs, sep) == FlattenSeq([k \in DOMAIN seqs |-> IF k = 1 THEN seqs[k] ELSE sep \o seqs[k]])
TextOf(exp) == Intersperse([k \in DOMAIN exp.fields |-> FieldText(exp.fields[k])], <<" ">>)
NumberText(n) == IF n < 0 THEN <<"-", ToString(-n)>> ELSE <<ToString(n)>>

(* What an expansion comes to: [exp, env, err].                             *)
Gives(exp, env) == [exp |-> exp, env |-> env, err |-> "none"]
Breaks(err, env) == [exp |-> Expansion(<<>>), env |-> env, err |-> err]
Then(r, F(_)) == IF r.err = "none" THEN Gives(F(r.exp), r.env) ELSE r

classify(exp) ==
  IF exp.undefined THEN "Undefined"
  ELSE IF \E k \in DOMAIN exp.fields : FieldText(exp.fields[k]) # <<>> THEN "NonZeroLength"
  ELSE "DefinedEmptyString"

polymorphic_len(exp) ==
  IF exp.from_array THEN Len(exp.fields)
  ELSE Len(FlattenSeq([k \in DOMAIN exp.fields |-> FieldText(exp.fields[k])]))

(* Characters index+1 .. end of the fields, keeping fields and pieces.      *)
polymorphic_subslice(exp, index, end) ==
  LET CutPiece(st, piece) ==
        LET n == Len(piece.s)
            kept == SubSeq(piece.s, st.dist + 1, IF n - st.dist < st.left THEN n ELSE st.dist + st.left)
        IN IF st.left = 0 THEN st
           ELSE IF st.dist >= n THEN [st EXCEPT !.dist = @ - n]
           ELSE [dist |-> 0, left |-> st.left - Len(kept), out |-> Append(st.out, [piece EXCEPT !.s = kept])]
      CutField(st, field) ==
        LET done == FoldLeft(CutPiece, [dist |-> st.dist, left |-> st.left, out |-> <<>>], field)
        IN [done EXCEPT !.out = IF done.out = <<>> THEN st.out ELSE Append(st.out, done.out)]
  IN IF exp.from_array THEN [exp EXCEPT !.fields = SubSeq(@, index + 1, end)]
     ELSE [exp EXCEPT !.fields = FoldLeft(CutField, [dist |-> index, left |-> end - index, out |-> <<>>], @).out]

coalesce_expansions(exps) ==
  FoldLeft(LAMBDA acc, exp :
             [acc EXCEPT !.fields = IF acc.fields = <<>> \/ exp.fields = <<>> THEN @ \o exp.fields
                                    ELSE Front(@) \o <<Last(@) \o exp.fields[1]>> \o Tail(exp.fields),
                         !.concatenate = exp.concatenate, !.from_array = exp.from_array],
           Expansion(<<>>), exps)

transform_expansion(exp, F(_)) ==
  [exp EXCEPT !.fields = [k \in DOMAIN @ |-> <<[q |-> FALSE, s |-> F(FieldText(@[k]))]>>]]

---------------------------------------------------------------------------
(* Parameters: [kind, name, n, star].                                       *)
Parameter(kind, name, n, star) == [kind |-> kind, name |-> name, n |-> n, star |-> star]
(* parse_parameter, of the text an indirect parameter holds.                *)
ParameterIn(text) ==
  CASE text \in {<<"@">>, <<"*">>} -> Parameter("all", <<>>, 0, text = <<"*">>)
    [] text \in {<<"0">>, <<"1">>, <<"2">>} -> Parameter("positional", <<>>, CHOOSE n \in 0..2 : text = <<ToString(n)>>, FALSE)
    [] OTHER -> Parameter("named", text, 0, FALSE)

undefined_expansion(env, allow_unset) ==
  IF allow_unset \/ ~env.options.nounset THEN Gives(Undefined, env) ELSE Breaks("fatal: unset", env)

expand_special_parameter(par, env) ==
  CASE par.kind = "all" -> OfArray(env.args, par.star)
    [] par.kind = "count" -> OfText(NumberText(Len(env.args)))
    [] par.kind = "status" -> OfText(NumberText(env.status))
    [] par.kind = "shell name" -> OfText(env.zero)

expand_parameter_without_indirect(par, env, allow_unset) ==
  LET known == par.name \in DOMAIN env.vars
      elements == env.vars[par.name].elements
      Or(b, text) == IF b THEN Gives(OfText(text), env) ELSE undefined_expansion(env, allow_unset)
  IN CASE par.kind = "positional" /\ par.n = 0 -> Gives(OfText(env.zero), env)
       [] par.kind = "positional" /\ par.n > 0 -> Or(par.n <= Len(env.args), env.args[par.n])
       [] par.kind \in {"all", "count", "status", "shell name"} -> Gives(expand_special_parameter(par, env), env)
       [] par.kind = "named" /\ par.name = <<>> -> Breaks("bad substitution", env)
       [] par.kind = "named" /\ par.name # <<>> -> Or(known /\ elements # <<>>, elements[1])
       [] par.kind = "element" -> Or(known /\ par.n < Len(elements), elements[par.n + 1])
       [] par.kind = "elements" -> Gives(OfArray(IF known THEN elements ELSE <<>>, par.star), env)

expand_parameter_internal(par, indirect, env, allow_unset) ==
  LET direct == expand_parameter_without_indirect(par, env, allow_unset)
  IN IF ~indirect \/ direct.err # "none" THEN direct
     ELSE expand_parameter_without_indirect(ParameterIn(TextOf(direct.exp)), env, allow_unset)

(* In an array, element n is set; the elements between do not matter here.   *)
assign_to_parameter(par, env, text) ==
  LET old == IF par.name \in DOMAIN env.vars THEN env.vars[par.name].elements ELSE <<>>
      at == IF par.kind = "element" THEN par.n + 1 ELSE 1
      new == [k \in 1..(IF Len(old) < at THEN at ELSE Len(old)) |->
                IF k = at THEN text ELSE IF k <= Len(old) THEN old[k] ELSE <<>>]
  IN IF par.kind \notin {"named", "element"} THEN Breaks("cannot assign", env)
     ELSE IF par.name \in DOMAIN env.vars /\ env.vars[par.name].readonly THEN Breaks("readonly", env)
     ELSE Gives(OfText(text), [env EXCEPT !.vars = (par.name :> [elements |-> new, readonly |-> FALSE]) @@ @])

---------------------------------------------------------------------------
(* Substring bounds: [from, to] or an error.                                *)
SubstringBounds(len, offset, length) ==
  LET from == CASE offset < 0 /\ len + offset < 0 -> len
                [] offset < 0 /\ len + offset >= 0 -> len + offset
                [] OTHER -> IF offset < len THEN offset ELSE len
      to == CASE length = <<>> -> len
              [] length # <<>> /\ length[1] < 0 -> len + length[1]
              [] OTHER -> IF from + length[1] < len THEN from + length[1] ELSE len
  IN [ok |-> to >= from, from |-> from, to |-> to]

Cased(s, upper) == [k \in DOMAIN s |-> IF upper THEN Upper(s[k]) ELSE Lower(s[k])]
CasedFirst(s, upper, pattern) ==
  IF s = <<>> \/ ~(IsEmptyPattern(pattern) \/ exactly_matches(pattern, SubSeq(s, 1, 1))) THEN s
  ELSE Cased(SubSeq(s, 1, 1), upper) \o Tail(s)

(* The text with the given matches rewritten.                               *)
Rewritten(s, found, F(_)) ==
  FlattenSeq([k \in DOMAIN found |->
                SubSeq(s, IF k = 1 THEN 1 ELSE found[k - 1].to, found[k].from - 1)
                  \o F(SubSeq(s, found[k].from, found[k].to - 1))])
    \o (IF found = <<>> THEN s ELSE From(s, Last(found).to))
Matches(pattern, prefix, suffix, s) == FindAll(to_regex(pattern, prefix, suffix), s, 1, 0, Flags(pattern))
CasedMatches(s, upper, pattern) ==
  IF IsEmptyPattern(pattern) THEN Cased(s, upper)
  ELSE Rewritten(s, Matches(pattern, FALSE, FALSE, s), LAMBDA t : Cased(t, upper))

replacement_pieces(exp) == Intersperse(exp.fields, <<[q |-> TRUE, s |-> <<" ">>]>>)
replace_substring(s, pattern, replacement, kind, ampersands) ==
  LET found == Matches(pattern, kind = "Prefix", kind = "Suffix", s)
      For(t) == FlattenSeq([k \in DOMAIN replacement |->
                  IF ~ampersands \/ replacement[k].q THEN replacement[k].s
                  ELSE FlattenSeq([i \in DOMAIN replacement[k].s |->
                         IF replacement[k].s[i] = "&" THEN t ELSE <<replacement[k].s[i]>>])])
  IN Rewritten(s, IF kind = "Anywhere" THEN found ELSE AtMostOne(found), For)

to_initial_capitals(s) ==
  [k \in DOMAIN s |-> IF k = 1 \/ s[IF k = 1 THEN 1 ELSE k - 1] \in {" ", "\t", "\n"} THEN Upper(s[k]) ELSE s[k]]
apply_transform_to(op, s, undefined) ==
  CASE op = "CapitalizeInitial" -> to_initial_capitals(s)
    [] op = "Quoted" -> IF undefined THEN <<>> ELSE <<"'">> \o s \o <<"'">>
    [] op = "ToLowerCase" -> Cased(s, FALSE)
    [] op = "ToUpperCase" -> Cased(s, TRUE)

---------------------------------------------------------------------------
RECURSIVE basic_expand(_, _, _), expand_word_piece(_, _, _), process_double_quoted_pieces(_, _, _), BraceChoices(_)

(* The pieces of a word one after another; dq is in_double_quotes.          *)
ExpandPieces(word, env, dq) ==
  FoldLeft(LAMBDA acc, piece :
             IF acc.err # "none" THEN acc
             ELSE LET r == expand_word_piece(piece, acc.env, dq)
                  IN [exps |-> Append(acc.exps, r.exp), env |-> r.env, err |-> r.err],
           [exps |-> <<>>, env |-> env, err |-> "none"], word)

expand_parsed_word(word, env, dq) ==
  LET all == ExpandPieces(word, env, dq)
  IN IF all.err # "none" THEN Breaks(all.err, all.env) ELSE Gives(coalesce_expansions(all.exps), all.env)

(* The words a word with braces stands for, one for each choice of an       *)
(* alternative in each of its lists.                                        *)
BraceChoices(word) ==
  LET WordsOfPiece(piece) == IF piece.op # "brace" THEN << <<piece>> >>
                             ELSE FlattenSeq([k \in DOMAIN piece.kids |-> BraceChoices(piece.kids[k].kids)])
      Times(ws, us) == FlattenSeq([j \in DOMAIN ws |-> [k \in DOMAIN us |-> ws[j] \o us[k]]])
  IN FoldLeft(LAMBDA acc, piece : Times(acc, WordsOfPiece(piece)), << <<>> >>, word)

BraceExpanded(words, env, dq) ==
  FoldLeft(LAMBDA acc, word :
             IF acc.err # "none" THEN acc
             ELSE LET r == expand_parsed_word(IF word = <<>> THEN <<Double(<<>>)>> ELSE word, acc.env, dq)
                  IN [r EXCEPT !.exp.fields = acc.exp.fields \o @, !.exp.undefined = acc.exp.undefined \/ @,
                               !.exp.concatenate = FALSE, !.exp.from_array = FALSE],
           Gives([Expansion(<<>>) EXCEPT !.concatenate = FALSE], env), words)

basic_expand(word, env, dq) ==
  IF env.options.brace_expand /\ \E k \in DOMAIN word : word[k].op = "brace"
  THEN BraceExpanded(BraceChoices(word), env, dq)
  ELSE expand_parsed_word(word, env, dq)

(***************************************************************************)
(* The word of ${x-word} inside double quotes: quotes around it are         *)
(* stripped, and it gets quotes where it has none.  What was between quotes  *)
(* of its own is thereby outside of quotes, and the rest inside.            *)
(***************************************************************************)
IsQuoted(piece) == piece.op = "double"
Requoted(word) ==
  FlattenSeq([k \in DOMAIN word |->
    IF ~IsQuoted(word[k]) THEN <<Double(<<word[k]>>)>>
    ELSE word[k].kids \o IF k < Len(word) /\ IsQuoted(word[k + 1]) THEN <<Double(<<>>)>> ELSE <<>>])
expand_parameter_word(word, env, dq) ==
  LET opens == word = <<>> \/ IsQuoted(word[1])
      closes == word # <<>> /\ IsQuoted(Last(word))
      Empty(b) == IF b THEN <<Double(<<>>)>> ELSE <<>>
  IN IF ~dq THEN basic_expand(word, env, FALSE)
     ELSE IF opens /\ closes THEN basic_expand(Requoted(word), env, FALSE)
     ELSE basic_expand(Empty(opens) \o Requoted(word) \o Empty(closes), env, TRUE)

PatternOf(exp, env, fold) ==
  LET pieces == Intersperse(exp.fields, <<[q |-> TRUE, s |-> <<" ">>]>>)
  IN Pattern([k \in DOMAIN pieces |-> [literal |-> pieces[k].q, s |-> pieces[k].s]], env.options.extglob, fold)

(* ${x-w}, ${x:-w} and the like: colon says whether empty counts as unset.   *)
ExpandTested(e, env, dq) ==
  LET value == expand_parameter_internal(e.par, e.indirect, env, TRUE)
      there == classify(value.exp) = "NonZeroLength" \/ (~e.colon /\ classify(value.exp) = "DefinedEmptyString")
      word == expand_parameter_word(e.word, env, dq)
      message == basic_expand(e.word, env, dq)
  IN CASE value.err # "none" -> value
       [] value.err = "none" /\ e.op = "UseAlternativeValue" -> IF there THEN word ELSE Gives(OfText(<<>>), env)
       [] value.err = "none" /\ e.op # "UseAlternativeValue" /\ there -> value
       [] value.err = "none" /\ ~there /\ e.op = "UseDefaultValues" -> word
       [] value.err = "none" /\ ~there /\ e.op = "AssignDefaultValues" ->
            IF word.err # "none" THEN word ELSE assign_to_parameter(e.par, word.env, TextOf(word.exp))
       [] value.err = "none" /\ ~there /\ e.op = "IndicateErrorIfNullOrUnset" ->
            IF message.err # "none" THEN message ELSE Breaks("fatal: message", message.env)

ExpandSubstring(e, env) ==
  LET value == expand_parameter_internal(e.par, e.indirect, env, FALSE)
      whole == IF e.par.kind = "all"
               THEN [value.exp EXCEPT !.fields = << <<[q |-> FALSE, s |-> env.zero]>> >> \o @] ELSE value.exp
      bounds == SubstringBounds(polymorphic_len(whole), e.offset, e.length)
  IN IF value.err # "none" THEN value
     ELSE IF ~bounds.ok THEN Breaks("bad substitution", env)
     ELSE Gives(polymorphic_subslice(whole, bounds.from, bounds.to), env)

(* Operations that rewrite each field, with the pattern e.word expands to.  *)
Rewrite(e, s, pattern, replacement, env) ==
  CASE e.op = "RemoveSmallestSuffixPattern" -> remove_smallest_matching_suffix(s, pattern)
    [] e.op = "RemoveLargestSuffixPattern" -> remove_largest_matching_suffix(s, pattern)
    [] e.op = "RemoveSmallestPrefixPattern" -> remove_smallest_matching_prefix(s, pattern)
    [] e.op = "RemoveLargestPrefixPattern" -> remove_largest_matching_prefix(s, pattern)
    [] e.op = "UppercaseFirstChar" -> CasedFirst(s, TRUE, pattern)
    [] e.op = "LowercaseFirstChar" -> CasedFirst(s, FALSE, pattern)
    [] e.op = "UppercasePattern" -> CasedMatches(s, TRUE, pattern)
    [] e.op = "LowercasePattern" -> CasedMatches(s, FALSE, pattern)
    [] e.op = "ReplaceSubstring" -> replace_substring(s, pattern, replacement, e.kind, env.options.patsub_replacement)
ExpandRewritten(e, env, dq) ==
  LET value == expand_parameter_internal(e.par, e.indirect, env, FALSE)
      pattern == basic_expand(e.word, env, dq)
      replacement == basic_expand(e.with, pattern.env, dq)
      fold == e.op = "ReplaceSubstring" /\ env.options.nocasematch
  IN IF value.err # "none" THEN value ELSE IF pattern.err # "none" THEN pattern
     ELSE IF replacement.err # "none" THEN replacement
     ELSE Gives(transform_expansion(value.exp, LAMBDA s :
            Rewrite(e, s, PatternOf(pattern.exp, env, fold), replacement_pieces(replacement.exp), env)), replacement.env)

expand_parameter_expr(e, env, dq) ==
  LET value == expand_parameter_internal(e.par, e.indirect, env, FALSE)
      allow_unset == e.par.kind \in {"element", "elements"} /\ e.par.name \in DOMAIN env.vars
      names == {n \in DOMAIN env.vars : e.par.name # <<>> /\ IsPrefix(e.par.name, n)}
      keys == IF e.par.name \in DOMAIN env.vars THEN Len(env.vars[e.par.name].elements) ELSE 0
  IN CASE e.op = "Parameter" -> value
       [] e.op \in {"UseDefaultValues", "AssignDefaultValues", "IndicateErrorIfNullOrUnset", "UseAlternativeValue"} ->
            ExpandTested(e, env, dq)
       [] e.op = "ParameterLength" ->
            Then(expand_parameter_internal(e.par, e.indirect, env, allow_unset),
                 LAMBDA exp : OfText(NumberText(polymorphic_len(exp))))
       [] e.op = "Substring" -> ExpandSubstring(e, env)
       [] e.op = "Transform" ->
            Then(value, LAMBDA exp : transform_expansion(exp, LAMBDA s : apply_transform_to(e.kind, s, exp.undefined)))
       [] e.op = "VariableNames" ->
            Gives(IF e.par.name = <<>> THEN OfText(<<>>) ELSE OfArray(SetToSortSeq(names, Before), e.par.star), env)
       [] e.op = "MemberKeys" -> Gives(OfArray([k \in 1..keys |-> NumberText(k - 1)], e.par.star), env)
       [] OTHER -> ExpandRewritten(e, env, dq)

StillSplittable(piece) == piece
make_unsplittable(piece) == [piece EXCEPT !.q = TRUE]
get_ifs_first_char(env) == IF env.ifs = <<>> THEN " " ELSE env.ifs[1]

process_double_quoted_pieces(pieces, env, dq) ==
  LET all == ExpandPieces(pieces, env, dq)
      Quoted(field) == [k \in DOMAIN field |-> make_unsplittable(field[k])]
      joiner == <<[q |-> TRUE, s |-> <<get_ifs_first_char(env)>>]>>
      Joined(exp) ==
        LET one == Intersperse(exp.fields, joiner)
        IN IF ~exp.concatenate THEN exp.fields ELSE IF one = <<>> THEN OfText(<<>>).fields ELSE <<one>>
      appended == coalesce_expansions([k \in DOMAIN all.exps |-> Expansion(Joined(all.exps[k]))]).fields
  IN [fields |-> [k \in DOMAIN appended |-> Quoted(appended[k])], env |-> all.env, err |-> all.err]

(* A list in braces where they are no more than text.                       *)
AsText(piece) ==
  LET Plain(c) == <<Piece("text", <<c>>, <<>>, NoExpr)>>
  IN Plain("{") \o Intersperse([k \in DOMAIN piece.kids |-> piece.kids[k].kids], Plain(",")) \o Plain("}")

expand_word_piece(piece, env, dq) ==
  LET quoted == process_double_quoted_pieces(piece.kids, env, TRUE)
      trimmed == {n \in 0..Len(piece.text) : \A k \in (n + 1)..Len(piece.text) : piece.text[k] = "\n"}
      least == CHOOSE n \in trimmed : \A m \in trimmed : n <= m
  IN CASE piece.op \in {"text", "arithmetic"} -> Gives(OfText(piece.text), env)
       [] piece.op \in {"single", "escape", "tilde"} -> Gives(OfPiece(TRUE, piece.text), env)
       [] piece.op = "brace" -> expand_parsed_word(AsText(piece), env, dq)
       [] piece.op = "command" -> Gives(OfText(SubSeq(piece.text, 1, least)), env)
       [] piece.op = "parameter" -> expand_parameter_expr(piece.expr, env, dq)
       [] piece.op = "double" ->
            IF quoted.err # "none" THEN Breaks(quoted.err, quoted.env)
            ELSE Gives([Expansion(IF piece.kids = <<>> THEN Append(quoted.fields, <<[q |-> TRUE, s |-> <<>>]>>)
                                  ELSE quoted.fields) EXCEPT !.concatenate = FALSE], quoted.env)

---------------------------------------------------------------------------
(* The state of the splitter: fields so far, the one under way, whether it  *)
(* is at its very beginning, whether a visible delimiter came just before.  *)
CloseField(st) == IF st.field = <<>> THEN st ELSE [st EXCEPT !.out = Append(@, st.field), !.field = <<>>]
VisibleDelimiterClosing(st) == [CloseField(st) EXCEPT !.first = FALSE, !.after_mark = TRUE]
VisibleDelimiter(st) ==
  IF st.field = <<>> /\ (st.first \/ st.after_mark)
  THEN [st EXCEPT !.out = Append(@, <<[q |-> FALSE, s |-> <<>>]>>), !.first = FALSE, !.after_mark = TRUE]
  ELSE [CloseField(st) EXCEPT !.first = FALSE, !.after_mark = TRUE]

split_fields(exp, ifs) ==
  LET Has(c) == \E k \in DOMAIN ifs : ifs[k] = c
      White(c) == c \in {" ", "\t", "\n"} /\ Has(c)
      Start == [out |-> <<>>, field |-> <<>>, first |-> TRUE, after_mark |-> FALSE]
      AddChar(st, c) ==
        IF White(c) THEN CloseField(st)
        ELSE IF Has(c) THEN VisibleDelimiter(st)
        ELSE [st EXCEPT !.field = IF @ # <<>> /\ ~Last(@).q THEN [@ EXCEPT ![Len(@)].s = Append(@, c)]
                                  ELSE Append(@, [q |-> FALSE, s |-> <<c>>]),
                        !.first = FALSE, !.after_mark = FALSE]
      AddPiece(st, piece) ==
        IF piece.q THEN [st EXCEPT !.field = Append(@, piece), !.first = FALSE, !.after_mark = FALSE]
        ELSE FoldLeft(AddChar, st, piece.s)
      SplitField(field) == CloseField(FoldLeft(AddPiece, Start, field)).out
  IN IF ifs = <<>> THEN exp.fields ELSE FlattenSeq([k \in DOMAIN exp.fields |-> SplitField(exp.fields[k])])

expand_pathnames_in_field(field, env) ==
  LET found == expand(PatternOf(Expansion(<<field>>), env, env.options.nocaseglob), env.options.dotglob)
  IN IF found.glob /\ found.paths = <<>> /\ env.options.failglob THEN [ok |-> FALSE, words |-> <<>>]
     ELSE [ok |-> TRUE,
           words |-> IF found.paths # <<>>
                     THEN [k \in DOMAIN found.paths |-> Intersperse(found.paths[k], <<"/">>)]
                     ELSE IF env.options.nullglob THEN <<>> ELSE <<FieldText(field)>>]

full_expand_with_splitting(word, env) ==
  LET basic == basic_expand(word, env, FALSE)
      fields == split_fields(basic.exp, basic.env.ifs)
      found == [k \in DOMAIN fields |->
                  IF env.options.noglob THEN [ok |-> TRUE, words |-> <<FieldText(fields[k])>>]
                  ELSE expand_pathnames_in_field(fields[k], basic.env)]
      failed == \E k \in DOMAIN found : ~found[k].ok
  IN [words |-> IF basic.err = "none" /\ ~failed THEN FlattenSeq([k \in DOMAIN found |-> found[k].words]) ELSE <<>>,
      err |-> IF basic.err # "none" THEN basic.err ELSE IF failed THEN "no match" ELSE "none",
      env |-> basic.env]
===============================================================================
