-------------------------------- MODULE Patterns --------------------------------
(***************************************************************************)
(* Shell patterns: translation to regular expressions, matching, removal   *)
(* of matching prefixes and suffixes, and pathname expansion (engine/      *)
(* patterns.rs, engine/regex.rs, parser/pattern.rs).  Text is a sequence of *)
(* characters, a character a string of length one.  A regular expression   *)
(* is a tree; Ends stands for the backtracking engine of the fancy_regex   *)
(* crate.  Named character classes, absolute patterns and size limits are  *)
(* left out.                                                                    *)
(***************************************************************************)
EXTENDS Naturals, Sequences, SequencesExt, FiniteSets

CONSTANT
  Directories         \* name of a directory, as a sequence of its steps |-> the names in it

(* The order of the characters a range or a sorted listing compares.        *)
Letters == <<"!", "-", ".", "/", "A", "B", "[", "]", "a", "b", "c">>
Code(c) == CHOOSE k \in 0..Len(Letters) : IF k = 0 THEN \A j \in 1..Len(Letters) : Letters[j] # c ELSE Letters[k] = c
RECURSIVE Before(_, _)
Before(s, t) == \/ s = <<>> /\ t # <<>>
                \/ s # <<>> /\ t # <<>> /\ (\/ Code(s[1]) < Code(t[1])
                                            \/ s[1] = t[1] /\ Before(Tail(s), Tail(t)))

---------------------------------------------------------------------------
(* Regular expressions: the positions a match that starts at i may end at,  *)
(* in the order the engine tries them.  flags = [multiline, lazy, fold].    *)
Re(op, set, kids) == [op |-> op, set |-> set, kids |-> kids]
Char(c) == Re("one of", {c}, <<>>)
Dot == Re("any", {}, <<>>)
Kleene(r) == Re("star", {}, <<r>>)
Alt(rs) == Re("alt", {}, rs)
Chain(rs) == Re("seq", {}, rs)
Upper(c) == IF c = "a" THEN "A" ELSE IF c = "b" THEN "B" ELSE c
Lower(c) == IF c = "A" THEN "a" ELSE IF c = "B" THEN "b" ELSE c

AtMostOne(s) == IF s = <<>> THEN s ELSE <<s[1]>>

RECURSIVE Ends(_, _, _, _)
Ends(r, s, i, flags) ==
  LET After(r2, ends) == FlattenSeq([k \in 1..Len(ends) |-> Ends(r2, s, ends[k], flags)])
      once == Ends(r.kids[1], s, i, flags)
      again == After(r, SelectSeq(once, LAMBDA e : e > i))
      Near(c) == {c} \cup IF flags.fold THEN {Upper(c), Lower(c)} ELSE {}
      If(b) == IF b THEN <<i>> ELSE <<>>
      Step(b) == IF i <= Len(s) /\ b THEN <<i + 1>> ELSE <<>>
  IN CASE r.op = "one of" -> Step(Near(s[i]) \cap r.set # {})
       [] r.op = "none of" -> Step(Near(s[i]) \cap r.set = {})
       [] r.op = "any" -> Step(flags.multiline \/ s[i] # "\n")
       [] r.op = "begin" -> If(i = 1 \/ (flags.multiline /\ s[i - 1] = "\n"))
       [] r.op = "end" -> If(i = Len(s) + 1 \/ (flags.multiline /\ s[i] = "\n"))
       [] r.op = "seq" -> IF r.kids = <<>> THEN <<i>> ELSE After(Chain(Tail(r.kids)), once)
       [] r.op = "alt" -> FlattenSeq([k \in DOMAIN r.kids |-> Ends(r.kids[k], s, i, flags)])
       [] r.op = "optional" -> once \o <<i>>
       [] r.op = "star" -> IF flags.lazy THEN <<i>> \o again ELSE again \o <<i>>
       [] r.op = "not ahead" -> If(once = <<>>)
       [] r.op = "ahead" -> If(once # <<>>)
       [] r.op = "atomic" -> AtMostOne(once)

(* Regex::find: the leftmost match from i on, as [from, to).                *)
NoMatch == [from |-> 0, to |-> 0]
RECURSIVE FindFrom(_, _, _, _)
FindFrom(r, s, i, flags) ==
  LET ends == Ends(r, s, i, flags)
  IN IF i > Len(s) + 1 THEN NoMatch
     ELSE IF ends # <<>> THEN [from |-> i, to |-> ends[1]] ELSE FindFrom(r, s, i + 1, flags)
Find(r, s, flags) == FindFrom(r, s, 1, flags)

(* The matches replace_all takes: an empty one does not follow a match.     *)
RECURSIVE FindAll(_, _, _, _, _)
FindAll(r, s, i, last, flags) ==
  LET found == FindFrom(r, s, i, flags)
      next == IF found.to = found.from THEN found.to + 1 ELSE found.to
      rest == FindAll(r, s, next, found.to, flags)
  IN IF i > Len(s) + 1 \/ found = NoMatch THEN <<>>
     ELSE IF found.from = found.to /\ found.to = last THEN rest ELSE <<found>> \o rest

---------------------------------------------------------------------------
(* The pattern grammar.  Each rule at position i gives the next position    *)
(* and the expression; next = 0 when it does not apply.                     *)
Fail == [next |-> 0, re |-> Dot]
At(p, i) == IF i <= Len(p) THEN p[i] ELSE "end"

single_char_bracket_member(p, i) ==
  CASE At(p, i) = "\\" /\ i < Len(p) -> [next |-> i + 2, c |-> p[i + 1]]
    [] At(p, i) \in {"]", "end"} -> [next |-> 0, c |-> ""]
    [] OTHER -> [next |-> i + 1, c |-> p[i]]

RECURSIVE bracket_members(_, _)
bracket_members(p, i) ==
  LET from == single_char_bracket_member(p, i)
      to == single_char_bracket_member(p, from.next + 1)
      range == At(p, from.next) = "-" /\ to.next > 0
      rest == bracket_members(p, IF range THEN to.next ELSE from.next)
  IN IF from.next = 0 THEN [next |-> i, set |-> {}]
     ELSE [rest EXCEPT !.set = @ \cup IF range THEN {Letters[k] : k \in Code(from.c)..Code(to.c)} ELSE {from.c}]

bracket_expression(p, i) ==
  LET invert == At(p, i + 1) \in {"!", "^"}
      start == IF invert THEN i + 2 ELSE i + 1
      members == bracket_members(p, start)
  IN IF At(p, i) # "[" \/ members.next = start \/ At(p, members.next) # "]" THEN Fail
     ELSE [next |-> members.next + 1,
           re |-> IF invert /\ members.set = {} THEN Dot
                  ELSE Re(IF invert THEN "none of" ELSE "one of", members.set, <<>>)]

extended_glob(kind, branches) ==
  LET group == IF branches = <<>> THEN Chain(<<>>) ELSE Alt(branches)
      any1 == Chain(<<Dot, Kleene(Dot)>>)
  IN CASE kind = "@" -> group
       [] kind = "?" -> Re("optional", {}, <<group>>)
       [] kind = "*" -> Kleene(group)
       [] kind = "+" -> Chain(<<group, Kleene(group)>>)
       [] kind = "!" /\ branches = <<>> -> any1
       [] kind = "!" /\ branches # <<>> ->
            Alt(<<Chain(<<Re("not ahead", {}, <<group>>), Kleene(Dot)>>),
                  Chain(<<Re("atomic", {}, <<group>>), any1>>), Chain(<<>>)>>)

RECURSIVE pattern_piece(_, _, _), pattern_pieces(_, _, _, _), extended_glob_body(_, _, _), extended_glob_pattern(_, _)

pattern_piece(p, i, extglob) ==
  LET bracket == bracket_expression(p, i)
      extended == IF extglob THEN extended_glob_pattern(p, i) ELSE Fail
  IN CASE p[i] = "\\" /\ i < Len(p) -> [next |-> i + 2, re |-> Char(p[i + 1])]
       [] bracket.next > 0 -> bracket
       [] bracket.next = 0 /\ extended.next > 0 -> extended
       [] extended.next = 0 /\ p[i] = "?" -> [next |-> i + 1, re |-> Dot]
       [] extended.next = 0 /\ p[i] = "*" -> [next |-> i + 1, re |-> Kleene(Dot)]
       [] OTHER -> [next |-> i + 1, re |-> Char(p[i])]

pattern_pieces(p, i, extglob, stops) ==
  IF At(p, i) \in stops \cup {"end"} THEN [next |-> i, re |-> Chain(<<>>)]
  ELSE LET one == pattern_piece(p, i, extglob)
           rest == pattern_pieces(p, one.next, extglob, stops)
       IN [rest EXCEPT !.re.kids = <<one.re>> \o @]

(* The branches from i on; `re` collects them.                              *)
extended_glob_body(p, i, branches) ==
  LET branch == pattern_pieces(p, i, TRUE, {"|", ")"})
      so_far == Append(branches, branch.re)
  IN IF At(p, i) = ")" /\ branches = <<>> THEN [next |-> i, re |-> Alt(<<>>)]
     ELSE IF At(p, branch.next) = "|" THEN extended_glob_body(p, branch.next + 1, so_far)
     ELSE [next |-> branch.next, re |-> Alt(so_far)]

extended_glob_pattern(p, i) ==
  LET body == extended_glob_body(p, i + 2, <<>>)
  IN IF At(p, i) \notin {"+", "@", "!", "?", "*"} \/ At(p, i + 1) # "(" \/ At(p, body.next) # ")" THEN Fail
     ELSE [next |-> body.next + 1, re |-> extended_glob(p[i], body.re.kids)]

(* The linear scan that decides whether a piece is worth globbing.          *)
ScanStart == [escaped |-> FALSE, open |-> FALSE, members |-> 0, depth |-> 0, skip |-> FALSE, found |-> FALSE]
ScanStep(st, c, next, extglob) ==
  LET member == st.open /\ c # "]" /\ (st.members > 0 \/ c \notin {"!", "^"})
      counted == [st EXCEPT !.members = IF member THEN @ + 1 ELSE @, !.open = @ /\ c # "]"]
  IN CASE st.found -> st
       [] ~st.found /\ st.skip -> [st EXCEPT !.skip = FALSE]
       [] ~st.found /\ ~st.skip /\ st.escaped -> [st EXCEPT !.escaped = FALSE, !.members = @ + 1]
       [] ~st.found /\ ~st.skip /\ ~st.escaped /\ c = "\\" -> [st EXCEPT !.escaped = TRUE]
       [] OTHER ->
            IF c = "]" /\ st.open /\ st.members > 0 THEN [st EXCEPT !.found = TRUE]
            ELSE IF c \in {"*", "?"} \/ (c = ")" /\ st.depth > 0) THEN [counted EXCEPT !.found = TRUE]
            ELSE IF c = "[" /\ ~counted.open THEN [counted EXCEPT !.open = TRUE, !.members = 0]
            ELSE IF c \in {"@", "!", "+"} /\ extglob /\ next = "(" THEN [counted EXCEPT !.skip = TRUE, !.depth = @ + 1]
            ELSE IF c = "(" /\ st.depth > 0 THEN [counted EXCEPT !.depth = @ + 1]
            ELSE counted
pattern_has_glob_metacharacters(p, extglob) ==
  FoldLeft(LAMBDA st, i : ScanStep(st, p[i], At(p, i + 1), extglob), ScanStart, [i \in 1..Len(p) |-> i]).found

---------------------------------------------------------------------------
(* A pattern: pieces [literal, s] and its options.                          *)
Pattern(pieces, extglob, fold) == [pieces |-> pieces, extglob |-> extglob, fold |-> fold, multiline |-> TRUE]
Flags(pattern) == [multiline |-> pattern.multiline, lazy |-> FALSE, fold |-> pattern.fold]
regex_char_is_special(c) == c \in {"\\", "^", "$", ".", "|", "?", "*", "+", "(", ")", "[", "]", "{", "}"}
Escaped(s) == FlattenSeq([i \in 1..Len(s) |-> IF regex_char_is_special(s[i]) THEN <<"\\", s[i]>> ELSE <<s[i]>>])
to_pattern(pieces) == FlattenSeq([k \in DOMAIN pieces |-> IF pieces[k].literal THEN Escaped(pieces[k].s) ELSE pieces[k].s])
Flattened(pieces) == FlattenSeq([k \in DOMAIN pieces |-> pieces[k].s])
IsEmptyPattern(pattern) == Flattened(pattern.pieces) = <<>>

to_regex(pattern, prefix, suffix) ==
  LET body == pattern_pieces(to_pattern(pattern.pieces), 1, pattern.extglob, {}).re
      Anchor(op) == <<Re(op, {}, <<>>)>>
  IN Chain((IF prefix THEN Anchor("begin") ELSE <<>>) \o <<body>> \o (IF suffix THEN Anchor("end") ELSE <<>>))

is_match(r, s, flags) == Find(r, s, flags) # NoMatch
exactly_matches(pattern, s) == is_match(to_regex(pattern, TRUE, TRUE), s, Flags(pattern))

From(s, i) == SubSeq(s, i, Len(s))

pattern_uses_extended_globbing(pattern) ==
  /\ pattern.extglob
  /\ \E k \in {i \in DOMAIN pattern.pieces : i = 1 \/ pattern.pieces[IF i = 1 THEN 1 ELSE i - 1].literal} :
       LET runs == {j \in k..Len(pattern.pieces) : \A l \in k..j : ~pattern.pieces[l].literal}
           text == FlattenSeq([l \in 1..Cardinality(runs) |-> pattern.pieces[k + l - 1].s])
           Slashes(i) == Cardinality({j \in 1..(i - 1) : \A l \in j..(i - 1) : text[l] = "\\"})
       IN \E i \in 1..(Len(text) - 1) :
            text[i] \in {"*", "?", "+", "@", "!"} /\ text[i + 1] = "(" /\ Slashes(i) % 2 = 0

PrefixCandidates(s, pattern) ==
  {n \in 1..Len(s) : is_match(to_regex(pattern, TRUE, TRUE), SubSeq(s, 1, n), Flags(pattern))}
remove_largest_matching_prefix_by_candidates(s, pattern) ==
  LET fit == PrefixCandidates(s, pattern)
  IN IF fit = {} THEN s ELSE From(s, 1 + CHOOSE n \in fit : \A k \in fit : k <= n)
remove_smallest_matching_prefix_by_candidates(s, pattern) ==
  LET fit == PrefixCandidates(s, pattern)
  IN IF fit = {} THEN s ELSE From(s, 1 + CHOOSE n \in fit : \A k \in fit : n <= k)

remove_largest_matching_prefix(s, pattern) ==
  LET found == Find(to_regex(pattern, TRUE, FALSE), s, Flags(pattern))
  IN IF pattern_uses_extended_globbing(pattern) THEN remove_largest_matching_prefix_by_candidates(s, pattern)
     ELSE IF found.from = found.to THEN s ELSE From(s, found.to)

GreedySmallestPrefix(s, pattern) == remove_largest_matching_prefix(s, pattern)
remove_smallest_matching_prefix(s, pattern) ==
  LET found == Find(to_regex(pattern, TRUE, FALSE), s, [Flags(pattern) EXCEPT !.lazy = TRUE])
  IN IF pattern_uses_extended_globbing(pattern) THEN remove_smallest_matching_prefix_by_candidates(s, pattern)
     ELSE IF found = NoMatch THEN s
     ELSE IF found.from = found.to THEN remove_smallest_matching_prefix_by_candidates(s, pattern)
     ELSE From(s, found.to)

remove_largest_matching_suffix(s, pattern) ==
  LET found == Find(to_regex(pattern, FALSE, TRUE), s, Flags(pattern))
  IN IF found.from = found.to THEN s ELSE SubSeq(s, 1, found.from - 1)

smallest_suffix_boundary_regex(pattern) ==
  Chain(<<Kleene(Re("none of", {}, <<>>)), Re("ahead", {}, <<Re("none of", {}, <<>>)>>),
          Re("ahead", {}, <<to_regex(pattern, FALSE, TRUE)>>)>>)
remove_smallest_matching_suffix(s, pattern) ==
  LET found == Find(smallest_suffix_boundary_regex(pattern), s, Flags(pattern))
  IN IF found = NoMatch THEN s ELSE SubSeq(s, 1, found.to - 1)

---------------------------------------------------------------------------
(* Pathname expansion.  A path is the sequence of its steps; the working    *)
(* directory is <<>>.  paths = <<>> with glob FALSE is NoGlob.              *)
RECURSIVE SplitAt(_, _)
SplitAt(s, c) == LET hits == {i \in 1..Len(s) : s[i] = c}
                     first == CHOOSE i \in hits : \A j \in hits : i <= j
                 IN IF hits = {} THEN <<s>> ELSE <<SubSeq(s, 1, first - 1)>> \o SplitAt(From(s, first + 1), c)

Components(pieces) ==
  FoldLeft(LAMBDA acc, piece :
             LET steps == SplitAt(piece.s, "/")
                 words == [k \in DOMAIN steps |-> <<[piece EXCEPT !.s = steps[k]]>>]
             IN IF acc = <<>> THEN words ELSE Front(acc) \o <<Last(acc) \o words[1]>> \o Tail(words),
           <<>>, pieces)

NeedsExpansion(pieces, extglob) ==
  \E k \in DOMAIN pieces : ~pieces[k].literal /\ pattern_has_glob_metacharacters(pieces[k].s, extglob)

starts_with_explicit_dot(pieces) == Flattened(pieces) # <<>> /\ Flattened(pieces)[1] = "."

HidesNothing(name, component, dots) == TRUE
matches_dotfile_policy(name, component, dots) == name[1] # "." \/ dots \/ starts_with_explicit_dot(component)

ExpandComponent(paths, component, pattern, dots) ==
  LET sub == [pattern EXCEPT !.pieces = component]
      Fits(name) == exactly_matches(sub, name) /\ matches_dotfile_policy(name, component, dots)
      In(path) == IF path \in DOMAIN Directories
                  THEN LET names == SetToSortSeq({n \in Directories[path] : Fits(n)}, Before)
                       IN [k \in DOMAIN names |-> Append(path, names[k])]
                  ELSE <<>>
  IN IF NeedsExpansion(component, pattern.extglob) THEN FlattenSeq([k \in DOMAIN paths |-> In(paths[k])])
     ELSE [k \in DOMAIN paths |-> Append(paths[k], Flattened(component))]

expand(pattern, dots) ==
  IF pattern.pieces = <<>> THEN [glob |-> FALSE, paths |-> <<>>]
  ELSE IF ~NeedsExpansion(pattern.pieces, pattern.extglob)
       THEN [glob |-> TRUE, paths |-> <<SplitAt(Flattened(pattern.pieces), "/")>>]
  ELSE [glob |-> TRUE,
        paths |-> FoldLeft(LAMBDA paths, component : ExpandComponent(paths, component, pattern, dots),
                           << <<>> >>, Components(pattern.pieces))]
===============================================================================
