------------------------------ MODULE Completion ------------------------------
(***************************************************************************)
(* Programmable completion: the answer to a Tab and the builtin compgen    *)
(* (engine/completion.rs, builtins/complete.rs, interactive/completion.rs),*)
(* beside the builtins that change the specifications (Specifications).    *)
(*                                                                         *)
(* Completion functions are shell code.  Here a function is a record of    *)
(* what it does: the specification it registers, the options it changes    *)
(* with compopt, what it leaves in COMPREPLY and its status; 124 asks for  *)
(* the completion to be started over.                                      *)
(*                                                                         *)
(* Candidates are sets: their order, and the sort that fixes it, are left  *)
(* out.  Names, files and variables are constants; the expansion of a word *)
(* before files are looked up is its unquoting alone, the expansion of a   *)
(* list of words its splitting at blanks.  A pattern is a word, with "*"   *)
(* at its end or not, or where extended patterns are on "!" and a word in  *)
(* brackets; in a filter "&" is the word being completed.                  *)
(***************************************************************************)
EXTENDS Specifications, Escapes, Integers

CONSTANTS
    Functions,        \* completion functions: name -> what one may do
    Commands,         \* completion commands (-C): text -> the lines one prints
    Known,            \* generator action -> the names it knows
    Files,            \* [path, dir] records
    WordBreaks,       \* COMP_WORDBREAKS
    InputLines,       \* the lines Tab is pressed on
    MAX_RESTARTS      \* 10 in the code

VARIABLES
    input,     \* the line and cursor being completed
    restarts,  \* attempts made at the completion in progress, -1 when none is
    answer     \* the completions last answered

vars == <<specifications_vars, input, restarts, answer>>

Tok == INSTANCE Tokenizer WITH MaxNesting <- 1, UsizeModulus <- 1
LOCAL INSTANCE FiniteSetsExt

-----------------------------------------------------------------------------
(* Words of the line *)

IsBlank(c) == c \in {" ", "\t", "\n"}

(* Which characters of the line separate words: fold of quotes and escapes, *)
(* a quote opening only where no word or run of separators is under way.   *)
Delimits(st, c) ==
    ~st.escaped /\ st.quote = "" /\ c # "\\" /\ ~(c \in {"'", "\""} /\ st.start = 0) /\ c \in WordBreaks
Ends(st, c, delimits) == st.start > 0 /\ IF delimits THEN ~st.delimiters \/ IsBlank(c) ELSE st.delimiters
ScannedChar(st, c, i, delimits, ends, fresh) ==
    [i |-> i,
     escaped |-> ~st.escaped /\ c = "\\" /\ st.quote # "'",
     quote |-> CASE st.escaped -> st.quote
                 [] ~st.escaped /\ st.quote # "" -> IF c = st.quote THEN "" ELSE st.quote
                 [] OTHER -> IF c \in {"'", "\""} /\ st.start = 0 THEN c ELSE "",
     tokens |-> IF ends THEN Append(st.tokens, [from |-> st.start, to |-> st.i]) ELSE st.tokens,
     start |-> IF delimits /\ IsBlank(c) THEN IF fresh THEN 0 ELSE st.start ELSE IF fresh THEN i ELSE st.start,
     delimiters |-> IF fresh THEN delimits /\ ~IsBlank(c) ELSE st.delimiters]
ScannedEnd(st, c, delimits, ends) == ScannedChar(st, c, st.i + 1, delimits, ends, ends \/ st.start = 0)
ScannedFrom(st, c, delimits) == ScannedEnd(st, c, delimits, Ends(st, c, delimits))
Scan(st, c) == ScannedFrom(st, c, Delimits(st, c))
Scanned(text) ==
    FoldLeft(Scan, [i |-> 0, escaped |-> FALSE, quote |-> "", tokens |-> <<>>, start |-> 0, delimiters |-> FALSE], text)

(* The separated words of the line: where each is.                          *)
TokensScanned(st) == IF st.start = 0 THEN st.tokens ELSE Append(st.tokens, [from |-> st.start, to |-> st.i])
simple_tokenize_by_delimiters(text) == TokensScanned(Scanned(text))

(* The word the cursor is in or just after, and what of it is before the cursor. *)
Touches(token, cursor) == cursor + 1 >= token.from /\ cursor <= token.to
ContextIn(text, cursor, tokens, index, insertion) ==
    [token |-> SubSeq(text, insertion + 1, cursor), insertion_index |-> insertion, token_index |-> index,
     command_name |-> IF tokens = <<>> THEN <<>> ELSE SubSeq(text, tokens[1].from, tokens[1].to)]
ContextAt(text, cursor, tokens, index) ==
    ContextIn(text, cursor, tokens, index,
              IF index <= Len(tokens) /\ Touches(tokens[index], cursor) THEN tokens[index].from - 1 ELSE cursor)
ContextOf(text, cursor, tokens) ==
    ContextAt(text, cursor, tokens,
              Min({Len(tokens) + 1} \cup {i \in DOMAIN tokens : Touches(tokens[i], cursor) \/ cursor + 1 < tokens[i].from}))
Context(text, cursor) == ContextOf(text, cursor, simple_tokenize_by_delimiters(text))

-----------------------------------------------------------------------------
(* Candidates *)

(* Names are filtered by the word typed; the names of functions are not. *)
generate_action_completions(actions, token) ==
    {name \in UNION {Known[a] : a \in actions \ {"directory", "file"}} : IsPrefix(token, name)}
        \cup (IF actions \cap {"function", "command"} # {} THEN Known["function"] ELSE {})

FilesFitting(word, must_be_dir) ==
    {f.path : f \in {f \in Files : IsPrefix(word, f.path) /\ (must_be_dir => f.dir)}}
        \cup (CASE word = <<".">> -> {<<".">>, <<".", ".">>} [] word = <<".", ".">> -> {<<".", ".">>} [] OTHER -> {})
get_file_completions(token, must_be_dir) == FilesFitting(Tok!unquote_str(token), must_be_dir)

IsGlob(pattern) == pattern # <<>> /\ Last(pattern) = "*"
MatchesWord(pattern, text) == IF IsGlob(pattern) THEN IsPrefix(Front(pattern), text) ELSE text = pattern
IsNegated(pattern) == extglob /\ IsPrefix(<<"!", "(">>, pattern) /\ Last(pattern) = ")"
Matches(pattern, text) ==
    IF IsNegated(pattern) THEN ~MatchesWord(SubSeq(pattern, 3, Len(pattern) - 1), text) ELSE MatchesWord(pattern, text)
completion_filter_pattern_matches(pattern, candidate, token) ==
    Matches(FlattenSeq([i \in DOMAIN pattern |-> IF pattern[i] = "&" THEN token ELSE <<pattern[i]>>]), candidate)

(* -G: the files a pattern matches, whatever word was typed; a word that is *)
(* no pattern stands for itself.                                           *)
Globbed(pattern) ==
    CASE pattern = NoWord -> {}
      [] pattern # NoWord /\ (IsGlob(pattern) \/ IsNegated(pattern)) -> {f.path : f \in {f \in Files : Matches(pattern, f.path)}}
      [] OTHER -> {pattern}

Around(spec, candidate) ==
    (IF spec.prefix = NoWord THEN <<>> ELSE spec.prefix) \o candidate \o (IF spec.suffix = NoWord THEN <<>> ELSE spec.suffix)

Processing(filenames, noquote, nospace) ==
    [treat_as_filenames |-> filenames, no_autoquote_filenames |-> noquote, no_trailing_space_at_end_of_line |-> nospace]
DefaultProcessing == Processing(TRUE, FALSE, FALSE)

(* A function that answered, with the options it left in force; `call` is   *)
(* what the function does, and for a specification without one, nothing.   *)
NoCall == [registers |-> {}, changes |-> [on |-> {}, off |-> {}], reply |-> {}, status |-> 0]

Filtered(spec, token, candidates) ==
    {c \in candidates :
        \/ spec.filter_pattern \in {NoWord, <<>>}
        \/ spec.filter_pattern_excludes # completion_filter_pattern_matches(spec.filter_pattern, c, token)}
Generated(spec, token, word, reply) ==
    generate_action_completions(spec.actions, token)
        \cup (IF spec.actions \cap {"directory", "file"} = {} THEN {}
              ELSE FilesFitting(word, "file" \notin spec.actions))
        \cup {w \in Range(IF spec.word_list = NoWord THEN <<>> ELSE SplitAtBlanks(spec.word_list)) : IsPrefix(token, w)}
        \cup Globbed(spec.glob_pattern)
        \cup reply
        \cup (IF spec.command \in DOMAIN Commands THEN Commands[spec.command] ELSE {})
OrFiles(found, word, options) ==
    IF found = {} /\ "default" \in options
    THEN [candidates |-> FilesFitting(word, "dirnames" \in options),
          options |-> Processing(TRUE, "noquote" \in options, "nospace" \in options)]
    ELSE [candidates |-> found,
          options |-> Processing("filenames" \in options, "noquote" \in options, "nospace" \in options)]
CompletionsUnder(spec, token, word, reply, options) ==
    OrFiles({Around(spec, c) : c \in Filtered(spec, token, Generated(spec, token, word, reply))}
              \cup (IF options \cap {"plusdirs", "dirnames"} # {} THEN FilesFitting(word, TRUE) ELSE {}),
            word, options)
get_completions_with_current_options(spec, token, call) ==
    CompletionsUnder(spec, token, Tok!unquote_str(token), call.reply, set_options(spec.options, call.changes))

(* Without a specification: variables after "$", directories after `cd`, commands in first position. *)
VariablesNamed(name, braces) ==
    {IF braces THEN <<"$", "{">> \o v \o <<"}">> ELSE <<"$">> \o v : v \in {v \in Known["variable"] : IsPrefix(name, v)}}
OrVariables(token, name, braces, others) ==
    IF IsPrefix(<<"$">>, token) /\ ~Contains(name, "/") /\ ~(braces /\ Contains(name, "}"))
    THEN [candidates |-> VariablesNamed(name, braces), options |-> [DefaultProcessing EXCEPT !.treat_as_filenames = FALSE]]
    ELSE [candidates |-> others, options |-> DefaultProcessing]
NamesAndDirectories(context) ==
    (IF context.command_name = <<"c", "d">> /\ context.token_index > 1 THEN get_file_completions(context.token, TRUE) ELSE {})
        \cup (IF context.token_index = 1 /\ context.token # <<>> /\ ~Contains(context.token, "/")
              THEN {c \in UNION {Known[a] : a \in {"command", "function", "alias"}} : IsPrefix(context.token, c)} ELSE {})
BasicLookup(context, braces) ==
    OrVariables(context.token, SubSeq(context.token, IF braces THEN 3 ELSE 2, Len(context.token)), braces,
                NamesAndDirectories(context))
get_completions_using_basic_lookup(context) == BasicLookup(context, IsPrefix(<<"$", "{">>, context.token))

(* The quote the cursor is in, as the interactive part counts them. *)
OpenQuote(text, cursor) ==
    FoldLeft(LAMBDA st, c :
        IF st.escaped THEN [st EXCEPT !.escaped = FALSE]
        ELSE IF st.quote # "" THEN [st EXCEPT !.quote = IF c = st.quote THEN "" ELSE st.quote]
        ELSE IF c = "\\" THEN [st EXCEPT !.escaped = TRUE]
        ELSE IF c \in {"'", "\""} THEN [st EXCEPT !.quote = c] ELSE st,
        [escaped |-> FALSE, quote |-> ""], SubSeq(text, 1, cursor)).quote

EndsInSlash(c) == c # <<>> /\ Last(c) = "/"
WithSlash(candidate) ==
    IF ~EndsInSlash(candidate) /\ \E f \in Files : f.dir /\ f.path = candidate THEN Append(candidate, "/") ELSE candidate
QuotedFor(name, open) ==
    quote(name, [always_quote |-> FALSE, avoid_ansi_c_quoting_newline |-> FALSE,
                 mode |-> CASE open = "'" -> "single" [] open = "\"" -> "double" [] OTHER -> "backslash"])
WithSpace(word, options, at_end) ==
    IF at_end /\ ~options.no_trailing_space_at_end_of_line /\ ~(options.treat_as_filenames /\ EndsInSlash(word))
    THEN Append(word, " ") ELSE word
postprocess_completion_candidate(candidate, options, at_end, open) ==
    WithSpace(CASE ~options.treat_as_filenames -> candidate
                [] options.treat_as_filenames /\ options.no_autoquote_filenames -> WithSlash(candidate)
                [] OTHER -> QuotedFor(WithSlash(candidate), open),
              options, at_end)

(* complete_async: what the line editor is told. *)
complete_async(context, found, open) ==
    [insertion_index |-> context.insertion_index, delete_count |-> Len(context.token),
     candidates |-> {postprocess_completion_candidate(c, found.options, input.cursor = Len(input.text), open) : c \in found.candidates}]
NoAnswer == [insertion_index |-> 0, delete_count |-> 0, candidates |-> {}]

-----------------------------------------------------------------------------
(* The builtins and Tab *)

Idle == restarts = -1

NoInput == [text |-> <<>>, cursor |-> 0]
Init ==
    /\ SpecificationsInit
    /\ input = NoInput
    /\ restarts = -1
    /\ answer = NoAnswer

(* complete and compopt, while no completion is in progress. *)
ChangeSpecifications ==
    /\ Idle
    /\ SpecificationsNext
    /\ answer' = NoAnswer
    /\ UNCHANGED <<input, restarts>>

(* What a function may do; one that is not defined fails, and a specification without one does nothing. *)
Calls(spec) == IF spec.function_name \in DOMAIN Functions THEN Functions[spec.function_name] ELSE {NoCall}

(* compgen: the candidates as they are, for a word of its own. *)
compgen(args, word) ==
    /\ Idle
    /\ \E spec \in {create_spec(args, extglob)} : \E call \in Calls(spec) :
         answer' = IF call.status = 124 THEN NoAnswer
                   ELSE [NoAnswer EXCEPT !.candidates = get_completions_with_current_options(spec, Tok!unquote_str(word), call).candidates]
    /\ UNCHANGED <<specifications_vars, input, restarts>>

(* Tab: Shell::complete. *)
Tab(line) ==
    /\ Idle
    /\ input' = line /\ restarts' = 0
    /\ answer' = NoAnswer
    /\ UNCHANGED specifications_vars

FileName(name) == SubSeq(name, Max({0} \cup {i \in DOMAIN name : name[i] = "/"}) + 1, Len(name))

(* The specification for a word: of the command or of its file name, else   *)
(* the default one.  A command line always has a first word, if an empty   *)
(* one, and the specification for an empty line is not asked for.          *)
FoundSpec(context) ==
    LET name == context.command_name
        Of(n) == IF n \in CommandNames THEN specs[n] ELSE NoSpec
    IN IF context.token_index = 1 THEN specs[InitialWord]
       ELSE IF Of(name).exists THEN Of(name)
       ELSE IF Of(FileName(name)).exists THEN Of(FileName(name))
       ELSE specs[DefaultCommand]

(* Functions run in a copy of the shell (try_fork_subshell): what they register is gone with it. *)
AfterCompletion(registered) == specs

(* One attempt: an answer, or a function that asks for another. *)
Attempted(context, spec) ==
    /\ \E call \in Calls(spec) :
         /\ specs' = AfterCompletion(call.registers)
         /\ IF call.status = 124 THEN restarts' = restarts + 1 /\ UNCHANGED <<input, answer>>
            ELSE /\ restarts' = -1 /\ input' = NoInput
                 /\ answer' = complete_async(context,
                                 IF spec.exists THEN get_completions_with_current_options(spec, context.token, call)
                                 ELSE get_completions_using_basic_lookup(context),
                                 OpenQuote(input.text, input.cursor))

AttemptIn(context) == Attempted(context, FoundSpec(context))

Attempt ==
    /\ ~Idle /\ restarts <= MAX_RESTARTS
    /\ AttemptIn(Context(input.text, input.cursor))
    /\ UNCHANGED extglob

GiveUp ==
    /\ restarts > MAX_RESTARTS
    /\ restarts' = -1 /\ input' = NoInput
    /\ answer' = NoAnswer
    /\ UNCHANGED specifications_vars

Next ==
    \/ ChangeSpecifications
    \/ \E line \in InputLines : Tab(line) \/ \E args \in Arguments : compgen(args, line.text)
    \/ Attempt \/ GiveUp

Spec == Init /\ [][Next]_vars

=============================================================================
