--------------------------- MODULE Specifications ---------------------------
(***************************************************************************)
(* The specifications of programmable completion: what the builtins        *)
(* complete and compopt register, change, remove and print                 *)
(* (engine/completion.rs, builtins/complete.rs).  What a Tab makes of them *)
(* is module Completion.                                                   *)
(*                                                                         *)
(* Texts are sequences of characters, plain to the shell but for blanks;   *)
(* the name of an option or of a long action is one character.  Options    *)
(* and actions are sets: order and repetition make no difference to what   *)
(* is registered.                                                          *)
(***************************************************************************)
EXTENDS Naturals, Sequences, FiniteSets
LOCAL INSTANCE SequencesExt
LOCAL INSTANCE FiniteSetsExt

CONSTANTS
    CommandNames,     \* the commands specifications are registered for
    Arguments,        \* what `complete` may be given: a set of records, see NoArgs
    OptionChanges,    \* what compopt may be told: [on, off] records
    MaxSpecs          \* bound: specifications registered at a time

VARIABLES
    specs,            \* completion::Config: the specifications by name
    extglob           \* the shell option extended_globbing

specifications_vars == <<specs, extglob>>

-----------------------------------------------------------------------------
EmptyCommand == <<"_EmptycmD_">>
DefaultCommand == <<"_DefaultCmD_">>
InitialWord == <<"_InitialWorD_">>
Special == {EmptyCommand, DefaultCommand, InitialWord}
SpecialLetter(name) == CASE name = EmptyCommand -> "E" [] name = DefaultCommand -> "D" [] OTHER -> "I"
NoWord == <<"none">>   \* an optional word that is not there

CompleteOptions == {"bashdefault", "default", "dirnames", "filenames", "noquote", "nosort", "nospace", "plusdirs"}
ShortActions ==
    [a |-> "alias", b |-> "builtin", c |-> "command", d |-> "directory", e |-> "export", f |-> "file",
     g |-> "group", j |-> "job", k |-> "keyword", s |-> "service", u |-> "user", v |-> "variable"]
LongActions ==
    {"arrayvar", "binding", "disabled", "enabled", "function", "helptopic", "hostname", "running", "setopt", "shopt",
     "signal", "stopped"}
Actions == LongActions \cup Range(ShortActions)

(* CommonCompleteCommandArgs: what `complete` and `compgen` are told. *)
NoArgs ==
    [options |-> {}, actions |-> {}, glob_pattern |-> NoWord, word_list |-> NoWord, function_name |-> NoWord,
     command |-> NoWord, filter_pattern |-> NoWord, prefix |-> NoWord, suffix |-> NoWord]

(* A filter that starts with "!" keeps what it matches, unless it is the   *)
(* start of an extended pattern.                                           *)
Inverts(filter, extended_globbing) ==
    /\ filter # <<>> /\ Head(filter) = "!"
    /\ ~extended_globbing \/ Len(filter) = 1 \/ filter[2] # "("
create_spec(args, extended_globbing) ==
    LET inverts == Inverts(args.filter_pattern, extended_globbing)
    IN [exists |-> TRUE, options |-> args.options, actions |-> args.actions,
        glob_pattern |-> args.glob_pattern, word_list |-> args.word_list,
        function_name |-> args.function_name, command |-> args.command,
        filter_pattern |-> IF inverts THEN Tail(args.filter_pattern) ELSE args.filter_pattern,
        filter_pattern_excludes |-> args.filter_pattern # NoWord /\ ~inverts,
        prefix |-> args.prefix, suffix |-> args.suffix]

DefaultSpec == create_spec(NoArgs, FALSE)
NoSpec == [DefaultSpec EXCEPT !.exists = FALSE]

set_options(options, changes) == (options \cup changes.on) \ (changes.off \ changes.on)

-----------------------------------------------------------------------------
(* Reading the words of a command `complete` *)

ValueLetters ==
    [G |-> "glob_pattern", W |-> "word_list", F |-> "function_name", C |-> "command", X |-> "filter_pattern",
     P |-> "prefix", S |-> "suffix"]
CommandFlags == {"p", "r", "D", "E", "I"}
Unread == [args |-> NoArgs, flags |-> {}, names |-> <<>>, expects |-> "", over |-> FALSE, failed |-> FALSE]

WithValue(st, letter, value) ==
    CASE letter \in DOMAIN ValueLetters -> [st EXCEPT !.args[ValueLetters[letter]] = value, !.expects = ""]
      [] letter = "o" /\ value \in {<<o>> : o \in CompleteOptions} ->
           [st EXCEPT !.args.options = @ \cup {value[1]}, !.expects = ""]
      [] letter = "A" /\ value \in {<<a>> : a \in Actions} ->
           [st EXCEPT !.args.actions = @ \cup {value[1]}, !.expects = ""]
      [] OTHER -> [st EXCEPT !.failed = TRUE]
WithFlags(st, letters) ==
    [st EXCEPT !.flags = @ \cup (letters \cap CommandFlags),
               !.args.actions = @ \cup {ShortActions[l] : l \in letters \cap DOMAIN ShortActions}]

(* The letters of a word of options, up to the first that takes a value:   *)
(* the rest of the word, or the next word when nothing is left.            *)
WithOptions(st, letters) ==
    LET plain == CommandFlags \cup DOMAIN ShortActions
        stop == Min({i \in DOMAIN letters : letters[i] \notin plain} \cup {Len(letters) + 1})
        read == WithFlags(st, {letters[i] : i \in 1 .. stop - 1})
    IN IF stop > Len(letters) THEN read
       ELSE IF letters[stop] \notin {"o", "A"} \cup DOMAIN ValueLetters THEN [read EXCEPT !.failed = TRUE]
       ELSE IF stop = Len(letters) THEN [read EXCEPT !.expects = letters[stop]]
       ELSE WithValue(read, letters[stop], SubSeq(letters, stop + 1, Len(letters)))

ReadWord(st, word) ==
    CASE st.failed -> st
      [] ~st.failed /\ st.expects # "" -> WithValue(st, st.expects, word)
      [] ~st.failed /\ st.expects = "" /\ st.over -> [st EXCEPT !.names = Append(@, word)]
      [] OTHER ->
           IF word = <<"-", "-">> THEN [st EXCEPT !.over = TRUE]
           ELSE IF Len(word) > 1 /\ Head(word) = "-" THEN WithOptions(st, Tail(word))
           ELSE [st EXCEPT !.over = TRUE, !.names = Append(@, word)]
Checked(st) == IF st.expects = "" THEN st ELSE [st EXCEPT !.failed = TRUE]
parse_complete_options(words) == Checked(FoldLeft(ReadWord, Unread, words))

(* What the command makes of the specifications: with -D, -E or -I, in     *)
(* this order, the names are ignored, and without names -r removes all.    *)
Targets(read) ==
    CASE "D" \in read.flags -> {DefaultCommand}
      [] "D" \notin read.flags /\ "E" \in read.flags -> {EmptyCommand}
      [] read.flags \cap {"D", "E", "I"} = {"I"} -> {InitialWord}
      [] OTHER -> Range(read.names)
Evaluated(read, registered) ==
    CASE read.failed \/ "p" \in read.flags -> registered
      [] ~read.failed /\ "p" \notin read.flags /\ "r" \in read.flags ->
           [n \in DOMAIN registered |-> IF n \in Targets(read) \/ Targets(read) = {} THEN NoSpec ELSE registered[n]]
      [] OTHER ->
           [n \in DOMAIN registered \cup Targets(read) |->
               IF n \in Targets(read) THEN create_spec(read.args, extglob) ELSE registered[n]]

-----------------------------------------------------------------------------
(* Printing: `complete -p` *)

(* A piece of the output: a value in quotes is read as one word whatever it *)
(* holds, a bare text is split at its blanks.                              *)
Bare(text) == [quoted |-> FALSE, text |-> text]
InQuotes(text) == [quoted |-> TRUE, text |-> text]
SplitAtBlanks(text) ==
    SelectSeq(FoldLeft(LAMBDA words, c : IF c = " " THEN Append(words, <<>>)
                                         ELSE [words EXCEPT ![Len(words)] = Append(@, c)],
                       << <<>> >>, text),
              LAMBDA word : word # <<>>)
WordsRead(pieces) ==
    FlattenSeq([i \in DOMAIN pieces |-> IF pieces[i].quoted THEN <<pieces[i].text>> ELSE SplitAtBlanks(pieces[i].text)])

Letter(letter) == Bare(<<"-", letter>>)
Given(letter, piece) == <<Letter(letter), piece>>
OfAction(action) ==
    IF action \in LongActions THEN Given("A", Bare(<<action>>))
    ELSE <<Letter(CHOOSE l \in DOMAIN ShortActions : ShortActions[l] = action)>>
IfThere(value, letter, piece) == IF value = NoWord THEN <<>> ELSE Given(letter, piece)

PrintedWith(options, special, name, spec) ==
    (IF special = NoWord THEN <<>> ELSE <<Letter(SpecialLetter(special))>>)
        \o FlattenSeq([i \in DOMAIN SetToSeq(spec.actions) |-> OfAction(SetToSeq(spec.actions)[i])])
        \o FlattenSeq([i \in DOMAIN SetToSeq(options) |-> Given("o", Bare(<<SetToSeq(options)[i]>>))])
        \o IfThere(spec.glob_pattern, "G", InQuotes(spec.glob_pattern))
        \o IfThere(spec.word_list, "W", InQuotes(spec.word_list))
        \o IfThere(spec.function_name, "F", Bare(spec.function_name))
        \o IfThere(spec.command, "C", InQuotes(spec.command))
        \o IfThere(spec.filter_pattern, "X", InQuotes(spec.filter_pattern))
        \o IfThere(spec.prefix, "P", InQuotes(spec.prefix))
        \o IfThere(spec.suffix, "S", InQuotes(spec.suffix))
        \o (IF name = NoWord THEN <<>> ELSE <<Bare(name)>>)

\* for a mutant: an option left out of the output
ForgetsNospace(special, name, spec) == PrintedWith(spec.options \ {"nospace"}, special, name, spec)
(* The arguments printed after the word `complete`.                         *)
display_spec(special, name, spec) == PrintedWith(spec.options, special, name, spec)

(* A special specification is printed for its option, and for its name.     *)
Printings(name) ==
    {display_spec(NoWord, name, specs[name])}
        \cup (IF name \in Special THEN {display_spec(name, NoWord, specs[name])} ELSE {})

-----------------------------------------------------------------------------
(* The builtins *)

SpecificationsInit == specs = [n \in CommandNames \cup Special |-> NoSpec] /\ extglob = FALSE

Registers(changed) ==
    /\ specs' = changed
    /\ Cardinality({n \in DOMAIN changed : changed[n].exists}) <= MaxSpecs
    /\ UNCHANGED extglob
For(names, made) == Registers([n \in DOMAIN specs |-> IF n \in names THEN made[n] ELSE specs[n]])

(* complete name ...; complete -D, -E or -I *)
complete(names, args) == For(names, [n \in names |-> create_spec(args, extglob)])
(* complete -r name ...; complete -r *)
remove(names) == (\E n \in names : specs[n].exists) /\ For(names, [n \in names |-> NoSpec])
clear == Registers([n \in DOMAIN specs |-> NoSpec])
(* compopt for names; without one it is for the completion in progress, and here there is none. *)
compopt(names, changes) ==
    For(names, [n \in names |-> [(IF specs[n].exists THEN specs[n] ELSE DefaultSpec) EXCEPT !.options = set_options(@, changes)]])
(* shopt -s extglob, shopt -u extglob *)
shopt_extglob == extglob' = ~extglob /\ UNCHANGED specs

(* What a command may name; it registers as many specifications at most.    *)
NameLists == UNION {kSubset(k, DOMAIN specs) : k \in 1 .. MaxSpecs}
SpecificationsNext ==
    \/ \E names \in NameLists :
         \/ remove(names)
         \/ \E args \in Arguments : complete(names, args)
         \/ \E changes \in OptionChanges : compopt(names, changes)
    \/ clear
    \/ shopt_extglob

SpecificationsSpec == SpecificationsInit /\ [][SpecificationsNext]_specifications_vars

-----------------------------------------------------------------------------
(* Properties *)

IsPlainWord(text) == text # <<>> /\ ~Contains(text, " ")
(* Where the output does not say what was registered: a function or a      *)
(* command whose bare name is not one word, or is an option; a filter given *)
(* with "!", which is printed without it; and one that is an extended      *)
(* pattern, when the option is off where the output is read.               *)
ReadsOtherwise(name, spec, extended_globbing) ==
    \/ spec.function_name # NoWord /\ ~IsPlainWord(spec.function_name)
    \/ name \notin Special /\ (~IsPlainWord(name) \/ (Len(name) > 1 /\ Head(name) = "-"))
    \/ spec.filter_pattern # NoWord /\ ~spec.filter_pattern_excludes
    \/ spec.filter_pattern_excludes /\ Inverts(spec.filter_pattern, extended_globbing)

(* What `complete -p` prints for a command, evaluated in a shell that has   *)
(* lost that specification, registers it again and leaves the others alone: *)
(* whatever words, patterns and names it was made of, and however compopt   *)
(* changed it since - but where the output reads otherwise.                 *)
PrintedSpecificationsRestore ==
    \A n \in DOMAIN specs : specs[n].exists /\ ~ReadsOtherwise(n, specs[n], extglob) =>
        \A pieces \in Printings(n) :
            Evaluated(parse_complete_options(WordsRead(pieces)), [specs EXCEPT ![n] = NoSpec]) = specs
=============================================================================
