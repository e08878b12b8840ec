-------------------------------- MODULE Getopts --------------------------------
(***************************************************************************)
(* The getopts builtin (builtins/getopts.rs): each call reads one option    *)
(* of the arguments and leaves where it is in variables of the shell:       *)
(* OPTIND, which scripts assign too, and two hidden ones, the position      *)
(* inside a cluster such as -abc and the OPTIND it left.  Arguments and     *)
(* options strings are sequences of characters.  What is not modelled:      *)
(* error messages, and target variables that are readonly or namerefs.      *)
(***************************************************************************)
EXTENDS Integers, Sequences, SequencesExt, FiniteSetsExt

CONSTANTS
  Characters,      \* those of arguments and answers
  OptionStrings,   \* what scripts call getopts with
  ArgumentLists,   \* positional arguments a script may have
  Indices          \* what scripts assign to OPTIND

VARIABLES
  options,     \* the options string of this script
  args,        \* its positional arguments
  OPTIND,      \* a number; unset or other text counts as 1
  next_char,   \* __GETOPTS_NEXT_CHAR; its default 1 when unset
  last_optind, \* __GETOPTS_LAST_OPTIND; -1 when unset
  answer,      \* what the last call left: target variable, OPTARG, exit code
  start,       \* history: the index the reading under way began at, 0 for none
  read         \* history: the answers since

getopts_vars == <<options, args, OPTIND, next_char, last_optind, answer, start, read>>

ASSUME GetoptsAssumption ==
  /\ {":", "?"} \subseteq Characters
  /\ ArgumentLists \subseteq Seq(Seq(Characters))
  /\ Indices \subseteq Int

NoArgument == <<>>
Answer(value, optarg, ok) == [value |-> value, optarg |-> optarg, ok |-> ok]
NoMore == Answer("?", NoArgument, FALSE)

(* defs: the letters that take an argument and those that do not.  The      *)
(* state of the scan holds the last letter a colon may still belong to.     *)
ScanLetter(st, c) ==
  CASE c = ":" /\ st.last # "" -> [st EXCEPT !.takes = @ \union {st.last}]
    [] c = ":" /\ st.last = "" -> [st EXCEPT !.silent = @ \/ st.letters = {}]
    [] c # ":" /\ c \in st.letters -> [st EXCEPT !.last = ""]
    [] OTHER -> [st EXCEPT !.letters = @ \union {c}, !.last = c]
parse_option_spec(string) ==
  FoldLeft(ScanLetter, [letters |-> {}, takes |-> {}, silent |-> FALSE, last |-> ""], string)

---------------------------------------------------------------------------
(* Reading one option: the answer, and index and next_char afterwards.      *)
Reads(value, optarg, index, char) ==
  [answer |-> Answer(value, optarg, TRUE), index |-> index, char |-> char]
Stops(index, char) == [answer |-> NoMore, index |-> index, char |-> char]

(* The argument of option c, whose letter is the char-th after the dash.     *)
resolve_option_argument(spec, argv, c, index, char) ==
  LET rest == SubSeq(argv[index], char + 2, Len(argv[index]))
  IN CASE rest # <<>> -> Reads(c, <<rest>>, index + 1, 1)
       [] rest = <<>> /\ index < Len(argv) -> Reads(c, <<argv[index + 1]>>, index + 2, 1)
       [] OTHER -> IF spec.silent THEN Reads(":", <<<<c>>>>, index + 1, 1)
                   ELSE Reads("?", NoArgument, index + 1, 1)

report_unknown_option(spec, c) == IF spec.silent THEN <<<<c>>>> ELSE NoArgument

IsOption(arg) == Len(arg) > 1 /\ arg[1] = "-" /\ arg # <<"-", "-">>

(* One of the letters, the at-th after the dash.  After the last one of a   *)
(* word, getopts goes on at the next word.                                  *)
Goes(value, optarg, index, at, arg) ==
  IF at = Len(arg) - 1 THEN Reads(value, optarg, index + 1, 1) ELSE Reads(value, optarg, index, at + 1)

ReadLetter(spec, argv, index, at, c) ==
  CASE c \in spec.takes -> resolve_option_argument(spec, argv, c, index, at)
    [] c \in spec.letters \ spec.takes -> Goes(c, NoArgument, index, at, argv[index])
    [] OTHER -> Goes("?", report_unknown_option(spec, c), index, at, argv[index])

(* A position beyond the word is stale.                                     *)
CharAt(arg, char) == IF char < Len(arg) THEN char ELSE 1

ReadAt(spec, argv, index, at) == ReadLetter(spec, argv, index, at, argv[index][at + 1])

parse_next_option(spec, argv, index, char) ==
  IF index > Len(argv) THEN Stops(Len(argv) + 1, char)
  ELSE IF ~IsOption(argv[index]) THEN Stops(IF argv[index] = <<"-", "-">> THEN index + 1 ELSE index, char)
  ELSE ReadAt(spec, argv, index, CharAt(argv[index], char))

---------------------------------------------------------------------------
GetoptsInit ==
  /\ options \in OptionStrings
  /\ args \in ArgumentLists
  /\ OPTIND = 1
  /\ next_char = 1
  /\ last_optind = -1
  /\ answer = NoMore
  /\ start = 0
  /\ read = <<>>

(* An OPTIND other than the one left last begins anew, in front of a word.  *)
Noticed == last_optind # OPTIND
ResumesAnyway == next_char    \* mutant of Resumes
Resumes == IF Noticed THEN 1 ELSE next_char

update_variables(next) ==
  /\ answer' = next.answer
  /\ OPTIND' = next.index
  /\ last_optind' = next.index
  /\ next_char' = next.char

(* The ghosts: a reading begins where OPTIND was assigned, and is over when *)
(* getopts has said that there is no more.                                  *)
Over == read # <<>> /\ ~Last(read).ok
Follows(index) ==
  IF Noticed THEN start' = index /\ read' = <<answer'>>
  ELSE IF Over \/ start = 0 THEN start' = 0 /\ read' = <<>>
  ELSE read' = Append(read, answer') /\ UNCHANGED start

(* A call.                                                                  *)
Execute ==
  /\ \E index \in {Max({1, OPTIND})} :
       /\ update_variables(parse_next_option(parse_option_spec(options), args, index, Resumes))
       /\ Follows(index)
  /\ UNCHANGED <<options, args>>

(* Scripts assign OPTIND, or replace their arguments.                        *)
AssignIndex ==
  /\ \E n \in Indices : OPTIND' = n
  /\ UNCHANGED <<options, args, next_char, last_optind, answer, start, read>>

SetArguments ==
  /\ args' \in ArgumentLists \ {args}
  /\ start' = 0
  /\ read' = <<>>
  /\ UNCHANGED <<options, OPTIND, next_char, last_optind, answer>>

GetoptsNext == Execute \/ AssignIndex \/ SetArguments
GetoptsSpec == GetoptsInit /\ [][GetoptsNext]_getopts_vars

---------------------------------------------------------------------------
(* What a word says: its letters up to the first that takes an argument,    *)
(* then that one with the rest of the word or with the next word.           *)
Taking(spec, word) == {k \in 2..Len(word) : word[k] \in spec.takes}

FirstTaking(spec, word) ==
  IF Taking(spec, word) = {} THEN Len(word) + 1 ELSE Min(Taking(spec, word))

Flag(spec, c) ==
  IF c \in spec.letters THEN Answer(c, NoArgument, TRUE)
  ELSE Answer("?", IF spec.silent THEN <<<<c>>>> ELSE NoArgument, TRUE)

Flags(spec, word) == [k \in 1..(FirstTaking(spec, word) - 2) |-> Flag(spec, word[k + 1])]

Argument(spec, argv, index, word, k) ==
  IF k < Len(word) THEN Answer(word[k], <<SubSeq(word, k + 1, Len(word))>>, TRUE)
  ELSE IF index < Len(argv) THEN Answer(word[k], <<argv[index + 1]>>, TRUE)
  ELSE IF spec.silent THEN Answer(":", <<<<word[k]>>>>, TRUE)
  ELSE Answer("?", NoArgument, TRUE)

Taken(spec, argv, index, word, k) ==
  IF k > Len(word) THEN <<>> ELSE <<Argument(spec, argv, index, word, k)>>

Option(spec, argv, index) ==
  Taken(spec, argv, index, argv[index], FirstTaking(spec, argv[index]))

TakesNext(spec, argv, index) ==
  index < Len(argv) /\ FirstTaking(spec, argv[index]) = Len(argv[index])

(* What is said from a word on, and without it, when `after` is what is     *)
(* said after it, and without the next word.                                *)
SaidFrom(spec, argv, index, after) ==
  << IF ~IsOption(argv[index]) THEN <<NoMore>>
     ELSE Flags(spec, argv[index]) \o Option(spec, argv, index)
            \o after[IF TakesNext(spec, argv, index) THEN 2 ELSE 1],
     after[1] >>

Readings(spec, argv) ==
  LET says[left \in 0..Len(argv)] ==
        IF left = 0 THEN << <<NoMore>>, <<NoMore>> >>
        ELSE SaidFrom(spec, argv, Len(argv) + 1 - left, says[left - 1])
  IN says

(* What the arguments from index on say. *)
Reading(spec, argv, index) ==
  IF index > Len(argv) THEN <<NoMore>> ELSE Readings(spec, argv)[Len(argv) + 1 - index][1]

(***************************************************************************)
(* From where a reading begins (the first call, or an OPTIND that getopts   *)
(* finds changed) calls answer, one after the other, what the arguments say *)
(* and then that there is no more: no letter is skipped or read twice, and  *)
(* no position inside an earlier cluster is carried over.  Assigning OPTIND *)
(* the value it has inside a cluster is not noticed, and arguments replaced *)
(* half-way are not spoken of.                                              *)
(***************************************************************************)
SaysWhatIsThere(answers, argv, from) ==
  from # 0 => IsPrefix(answers, Reading(parse_option_spec(options), argv, from))

OptionsReadInTurn ==
  [][SaysWhatIsThere(read', args', start')]_getopts_vars
================================================================================
