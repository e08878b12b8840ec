---------------------------- MODULE MCInteractive ----------------------------
(***************************************************************************)
(* What an interactive shell keeps between the keyboard and its commands,  *)
(* on small instances: the history of its sessions (History), the line     *)
(* editor (LineEditor) and programmable completion (Specifications,        *)
(* Completion).  A behaviour exercises one of them, `part`; the others     *)
(* stay as they start.  The editor is followed as long as line and screen  *)
(* are in step.                                                            *)
(***************************************************************************)
EXTENDS History, LineEditor, Specifications

CONSTANT MAX_RESTARTS

VARIABLES part, input, restarts, answer

SessionSymmetry == Permutations(Sessions)

MCShapes == { <<"plain">>, <<"plain", "comment">>, <<"stamp">>, <<"plain", "stamp">> }

MCEntries == << <<"a", " ">>, <<"w">> >>
MCLists ==
  LET wide == <<"w">>
  IN { << <<"a", "a">> >>, << wide >>, << <<"a">>, wide, <<"a", "a">> >>, << <<"a">>, wide, <<"a", "a">> \o wide >> }
MCPrompt == <<"$">>
MCContinuationPrompt == <<">">>

MCCommandNames == {<<"f">>, <<"-", "r", " ", "g">>}
Reply == <<"r", " ", "p">>
Load == <<"l">>
MCArguments ==
  { [NoArgs EXCEPT !.options = {"nospace"}, !.actions = {"alias"}, !.word_list = <<"a", " ", "b">>, !.filter_pattern = <<"a", "*">>],
    [NoArgs EXCEPT !.options = {"filenames", "default"}, !.function_name = Reply, !.filter_pattern = <<"!", "&">>, !.suffix = <<"=">>],
    [NoArgs EXCEPT !.function_name = Load, !.filter_pattern = <<"!", "(", "a", ")">>, !.prefix = <<"-">>],
    [NoArgs EXCEPT !.actions = {"function"}, !.glob_pattern = <<"a", "*">>, !.command = <<"a", " ", "b">>, !.prefix = <<>>] }
Returns(registers, status, on, off) ==
  [registers |-> registers, changes |-> [on |-> on, off |-> off], reply |-> {<<"a">>, <<"a", " ", "b">>}, status |-> status]
MCFunctions ==
  Reply :> {Returns({}, 0, {"filenames"}, {"nospace"})} @@
  Load :> {Returns({[name |-> <<"f">>, args |-> [NoArgs EXCEPT !.function_name = Reply]]}, 124, {}, {}),
           Returns({}, 1, {"plusdirs"}, {})}
MCCommands == <<"a", " ", "b">> :> {<<"a", "b">>}
MCKnown == [alias |-> {<<"a">>}, function |-> {<<"f">>}, command |-> {<<"c", "d">>}, variable |-> {<<"v">>}]
MCFiles == {[path |-> <<"a">>, dir |-> TRUE], [path |-> <<"a", "b">>, dir |-> FALSE], [path |-> <<"a", " ", "c">>, dir |-> TRUE]}
On(text, at) == [text |-> text, cursor |-> at]
MCLines ==
  { On(<<>>, 0), On(<<"/", "f", " ", "'", "a", " ">>, 6), On(<<"c", "d", " ", "a">>, 4),
    On(<<"g", " ", "a", "\\", " ", "c", ":", "=", "\"", "b", " ", "x">>, 11), On(<<"f", " ", "$", "v">>, 4), On(<<"a">>, 1) }
MCOptionChanges == {[on |-> {"nospace"}, off |-> {"default"}]}
MCWordBreaks == {" ", "'", "\"", "=", ":"}
Completer == INSTANCE Completion WITH
               Functions <- MCFunctions, Commands <- MCCommands, Known <- MCKnown, Files <- MCFiles, InputLines <- MCLines, WordBreaks <- MCWordBreaks
completer_vars == <<specifications_vars, input, restarts, answer>>

MCInit == part \in {"history", "editor", "completer"} /\ Init /\ EditorInit /\ Completer!Init

MCNext ==
  \/ part = "history" /\ Next /\ UNCHANGED <<part, editor_vars, completer_vars>>
  \/ /\ part = "editor" /\ InStep(terminal, input_origin, prompt, line, cursor, completion_menu)
     /\ EditorNext
     /\ UNCHANGED <<part, vars, completer_vars>>
  \/ part = "completer" /\ Completer!Next /\ UNCHANGED <<part, vars, editor_vars>>

MCSpec == MCInit /\ [][MCNext]_<<part, vars, editor_vars, completer_vars>>
=============================================================================
