-------------------------------- MODULE Language --------------------------------
(***************************************************************************)
(* The algorithms of the shell language, each given one input: `subject`   *)
(* says which algorithm is at work, and a step gives it `input`.  What it  *)
(* makes of that input is a function of it, and the properties, which are  *)
(* about steps, compare that with what the input says.                     *)
(***************************************************************************)
EXTENDS ControlFlow, Expansion, TextReference

CONSTANTS
  Programs,      \* programs to run
  Options,       \* the Params they run with
  PatternInputs, \* [atoms, value] to match
  PathInputs,    \* [words, dots]: a pattern for each step of a path
  WordInputs     \* [word, env] to expand

VARIABLES subject, input
vars == <<subject, input>>

Pending == <<>>
Due(s) == subject = s /\ input = Pending
Ran(s) == subject = s

Init == subject \in {"program", "pattern", "path", "word"} /\ input = Pending

RunProgram ==
  /\ Due("program")
  /\ input' \in [text: Programs, params: Options]
  /\ UNCHANGED subject

MatchPattern ==
  /\ Due("pattern")
  /\ input' \in PatternInputs
  /\ UNCHANGED subject

ExpandPath ==
  /\ Due("path")
  /\ input' \in PathInputs
  /\ UNCHANGED subject

ExpandWord ==
  /\ Due("word")
  /\ input' \in WordInputs
  /\ UNCHANGED subject

Next == RunProgram \/ MatchPattern \/ ExpandPath \/ ExpandWord

Spec == Init /\ [][Next]_vars

(* What a program's run is to be, stated of its text, options and run.     *)
RanProgram(in, Holds(_, _, _)) ==
  Ran("program") => Holds(in.text, in.params, Execute(in.text, in.params))

(***************************************************************************)
(* `set -e` makes a shell leave at the first pipeline that fails where     *)
(* nothing tests it, and never for another reason: after such a failure no *)
(* command starts in that shell (unless the shell is forked anew), and a   *)
(* run that ends with a request to exit has an exit, a fatal error or such *)
(* a failure in it that no subshell contains.                              *)
(***************************************************************************)
ExitsWhereNothingTests(text, p, run) ==
  /\ p.errexit =>
       \A i \in UntestedFailures(text, run.log) :
         LET home == ShellOf(text, p, run.log[i], TRUE)
         IN \A j \in RunsAfter(run.log, i) :
              Within(run.log[j].path, home) => EnteredBetween(run.log, i, j, home)
  /\ run.flow = "Exit" =>
       \E i \in Leaves(text, p, run) : ShellOf(text, p, run.log[i], FALSE) = <<>>

ErrexitAtUntestedFailures ==
  [][RanProgram(input', ExitsWhereNothingTests)]_vars

(***************************************************************************)
(* A `break n` for loops that exist ends the n-th loop around it, and a    *)
(* `continue n` that loop's turn, and no command of it runs after that     *)
(* unless the loop, or a turn of it, is entered again.  What follows a     *)
(* loop in its list is what runs after a break.                            *)
(***************************************************************************)
LeavesTheLoopsItSays(text, p, run) ==
  LET log == run.log
  IN \A i \in 1..Len(log) :
       LET op == OpAt(text, log[i].path)
           n == NodeAt(text, log[i].path).arg[1]
           loops == LoopsAround(text, p, log[i])
           left == IF op = "break" THEN loops[n] ELSE BodyOf(text, loops[n])
           follower == [left EXCEPT ![Len(left)] = @ + 1]
           list == NodeAt(text, Front(left))
       IN log[i].what = "runs" /\ op \in {"break", "continue"} /\ n \in 1..Len(loops) =>
            /\ \A j \in RunsAfter(log, i) :
                 Within(log[j].path, left) => EnteredBetween(log, i, j, left)
            /\ op = "break" /\ list.op = "list" /\ Last(left) < Len(list.kids)
                 /\ run.flow \notin {"Cut", "Exit"} =>
                 \E j \in RunsAfter(log, i) : Within(log[j].path, follower)

LoopsLeftExactly ==
  [][RanProgram(input', LeavesTheLoopsItSays)]_vars

(***************************************************************************)
(* A stage of a pipeline that runs in a subshell of its own does not make  *)
(* the shell that started it leave (without errexit).                      *)
(***************************************************************************)
LeavesOnItsOwnRequest(text, p, run) ==
  run.flow = "Exit" /\ ~p.errexit =>
    \E i \in Leaves(text, p, run) : ShellOf(text, p, run.log[i], TRUE) = <<>>

StageRequestsContained ==
  [][RanProgram(input', LeavesOnItsOwnRequest)]_vars

(***************************************************************************)
(* Translating a pattern to a regular expression, and using the engine's    *)
(* greedy, lazy and leftmost matches to remove prefixes and suffixes, keeps *)
(* the pattern's meaning, as long as the text has one line and no negated   *)
(* group is involved; and a pattern not recognised as a glob denotes only   *)
(* its own text.                                                            *)
(***************************************************************************)
PatternGiven(text) == Pattern(<<[literal |-> FALSE, s |-> text]>>, TRUE, FALSE)

MatchesAsWritten(pattern, atoms, s) ==
    LET negated == \E k \in DOMAIN atoms : atoms[k].op = "!"
        doubled == \E k \in DOMAIN atoms : atoms[k].op = "not set" /\ atoms[k].chars[1] \in {"!", "^"}
        one_line == \A k \in DOMAIN s : s[k] # "\n"
    IN one_line /\ ~negated =>
         /\ exactly_matches(pattern, s) <=> Denotes(atoms, s)
         /\ remove_smallest_matching_prefix(s, pattern) = Without(atoms, s, TRUE, FALSE)
         /\ remove_largest_matching_prefix(s, pattern) = Without(atoms, s, TRUE, TRUE)
         /\ remove_smallest_matching_suffix(s, pattern) = Without(atoms, s, FALSE, FALSE)
         /\ remove_largest_matching_suffix(s, pattern) = Without(atoms, s, FALSE, TRUE)
         /\ NeedsExpansion(pattern.pieces, TRUE) \/ doubled \/ (Denotes(atoms, s) <=> s = Written(atoms))

(***************************************************************************)
(* A glob gives exactly the paths of the file tree whose every step its     *)
(* part of the pattern denotes, in order, with names that start with a dot  *)
(* only where they were asked for.  Claimed where every step is a glob.     *)
(***************************************************************************)
StepFits(atoms, name, dots) ==
  Denotes(atoms, name) /\ (name[1] = "." => dots \/ atoms[1] = Atom("character", <<".">>, <<>>))
RECURSIVE PathsFitting(_, _, _)
PathsFitting(path, words, dots) ==
  IF words = <<>> THEN {path}
  ELSE UNION {PathsFitting(Append(path, n), Tail(words), dots) :
                n \in {m \in IF path \in DOMAIN Directories THEN Directories[path] ELSE {} : StepFits(words[1], m, dots)}}
IsGlob(atoms) == \E k \in DOMAIN atoms : atoms[k].op # "character"

PathsMatchAsWritten(got, words, dots) ==
  (\A k \in DOMAIN words : IsGlob(words[k])) =>
    /\ {got[k] : k \in DOMAIN got} = PathsFitting(<<>>, words, dots)
    /\ \A j, k \in DOMAIN got : j < k => Before(Intersperse(got[j], <<"/">>), Intersperse(got[k], <<"/">>))

(***************************************************************************)
(* Whether they select text, prefixes, suffixes or paths, patterns match    *)
(* what they are written to match.                                         *)
(***************************************************************************)
PathGiven(words) == PatternGiven(Intersperse([k \in DOMAIN words |-> Written(words[k])], <<"/">>))

MatchedAsWritten(in) ==
  /\ Ran("pattern") => MatchesAsWritten(PatternGiven(Written(in.atoms)), in.atoms, in.value)
  /\ Ran("path") => PathsMatchAsWritten(expand(PathGiven(in.words), in.dots).paths, in.words, in.dots)

PatternsMatchAsWritten == [][MatchedAsWritten(input')]_vars

RanWord(in, Holds(_, _)) == Ran("word") => Holds(in.word, in.env)

(***************************************************************************)
(* Unquoted text is split where IFS says and nowhere else: whatever pieces   *)
(* it comes in, the fields are those of the characters, where quoted ones    *)
(* (an empty quoted text counts as one) end no field.  (IFS not empty.)      *)
(***************************************************************************)
MarkedText(word, env) ==
  FlattenSeq([k \in DOMAIN word |->
    LET piece == word[k]
        quoted == piece.op # "parameter"
        text == IF piece.op = "parameter" THEN env.vars[piece.expr.par.name].elements[1] ELSE piece.text
    IN IF quoted /\ text = <<>> THEN <<[q |-> TRUE, c |-> ""]>>
       ELSE [i \in DOMAIN text |-> [q |-> quoted, c |-> text[i]]]])
Flat(word) ==
  \A k \in DOMAIN word : word[k].op = "single" \/ (word[k].op = "parameter" /\ word[k].expr.op = "Parameter"
                       /\ word[k].expr.par.kind = "named" /\ ~word[k].expr.indirect)

AllSet(word, env) == \A k \in DOMAIN word : word[k].op = "parameter" => word[k].expr.par.name \in DOMAIN env.vars
SplitAsIFSSays(word, env) ==
  env.ifs # <<>> /\ env.options.noglob /\ Flat(word) /\ AllSet(word, env) =>
    LET fields == FieldsOf(MarkedText(word, env), env.ifs, {" ", "\t", "\n"})
        Chars(field) == FlattenSeq([i \in DOMAIN field |-> IF field[i].c = "" THEN <<>> ELSE <<field[i].c>>])
    IN full_expand_with_splitting(word, env).words = [k \in DOMAIN fields |-> Chars(fields[k])]

SplitWhereIFSSays ==
  [][RanWord(input', SplitAsIFSSays)]_vars

(***************************************************************************)
(* A word in double quotes stays what it is: neither IFS nor the files      *)
(* around change it, whatever its parameters hold, and it is one word       *)
(* unless it holds a whole array, or, in the word of a parameter, braces    *)
(* between quotes of its own, which take them out of the quotes around.     *)
(* ("$*" joins with a character of IFS.)                                    *)
(***************************************************************************)
RECURSIVE Parts(_)
Parts(word) ==
  UNION {LET e == word[k].expr
         IN {word[k]} \cup Parts(word[k].kids) \cup IF e = NoExpr THEN {} ELSE Parts(e.word) \cup Parts(e.with) :
           k \in DOMAIN word}
HoldsArray(word) == \E part \in Parts(word) : part.expr # NoExpr /\ part.expr.par.kind \in {"all", "elements"}
HoldsJoin(word) == \E part \in Parts(word) : part.expr # NoExpr /\ part.expr.par.star

Unquotes(e) ==
  /\ e.op \in {"UseDefaultValues", "UseAlternativeValue"}
  /\ \E k \in DOMAIN e.word : IsQuoted(e.word[k]) /\ \E j \in DOMAIN e.word[k].kids : e.word[k].kids[j].op = "brace"
UnquotesBraces(word, env) ==
  env.options.brace_expand /\ \E part \in Parts(word) : part.expr # NoExpr /\ Unquotes(part.expr)

InertQuoted(word, env) ==
  word # <<>> /\ (\A k \in DOMAIN word : word[k].op = "double") /\ ~HoldsJoin(word) =>
    LET made == full_expand_with_splitting(word, env)
        Same(r) == r.words = made.words /\ r.err = made.err
    IN /\ \A ifs \in {<<>>, <<" ">>, <<":", "a">>}, noglob \in BOOLEAN :
            Same(full_expand_with_splitting(word, [env EXCEPT !.ifs = ifs, !.options.noglob = noglob]))
       /\ made.err = "none" /\ ~HoldsArray(word) /\ ~UnquotesBraces(word, env) => Len(made.words) = 1

QuotedWordsAreInert ==
  [][RanWord(input', InertQuoted)]_vars
===============================================================================
