---------------------------- MODULE MCShellState ----------------------------
(***************************************************************************)
(* What a shell keeps while it runs a program, on small instances: its call *)
(* and scope stacks (CallStack), the variables in its scopes (Environment), *)
(* its open files (OpenFiles), where it is and where it finds its commands  *)
(* (Locations, half at a time) and how far getopts has come (Getopts).  A   *)
(* behaviour exercises one of them, `part`; the others stay as they start.  *)
(***************************************************************************)
EXTENDS CallStack, Locations, OpenFiles, Environment, Getopts, TLC

VARIABLE part

MCNames == {"x", "r"}
MCElements == "e" :> <<"x", 0>>
MCLiterals == {Scalar(<<"x">>), Scalar(<<"e">>), Array(<<<<NoKey, <<"a">>>>>>)}
MCSubscripts == {0, -1}
Word(t) == Holding(Unset("untyped"), "string", 0 :> <<t>>)
Ref(t) == [Word(t) EXCEPT !.nameref = TRUE]
MCStarted ==
  LET xs == {Word("a"), [Word("a") EXCEPT !.readonly = TRUE], Unset("assoc"),
             Holding(Unset("untyped"), "indexed", 0 :> <<"a">> @@ 1 :> <<"b">>)}
  IN {<< >>, "r" :> Ref("x")} \union {("x" :> x) @@ ("r" :> r) : x \in xs, r \in {Ref("x"), Ref("e")}}
MCDirectories == {<<"/">>, <<"/", "a">>, <<"/", "b">>}
MCSearchPaths == {<< <<"/", "a">>, <<"/", "b">> >>, << <<".">>, <<"/", "b">> >>}
MCProcessDir == <<"/", "a">>
MCHome == <<"/">>
MCTargets == {<<"..", "b">>, <<"/", "a">>, <<"b">>}
MCPinned == <<"/", "pin">>
MCOptionStrings == {<<"a", "b", ":">>, <<":", "a", "b", ":">>, <<"a", ":", "a", ":">>, <<":", "a", "a", ":", ":">>}
MCWords == {<<"-", "a", "b">>, <<"-", "b", "a">>, <<"-", "x", "a">>, <<"-", "b">>, <<"-", "-">>, <<"-">>, <<"a">>}
MCNextWords == {<<"-", "a", "b">>, <<"-", "b">>, <<"-", "-">>, <<"a">>}
MCArgumentLists == {<<>>} \union {<<v>> : v \in MCWords} \union {<<v, w>> : v \in MCWords, w \in MCNextWords}
MCCharacters == {"-", "a", "b", "x", ":", "?"}
MCIndices == {0, 1, 2, 4}

(* What a part that is not at work starts from is of no interest. *)
FirstOf(set) == CHOOSE x \in set : TRUE

MCInit ==
  /\ part \in {"calls", "files", "variables", "places", "lookups", "getopts"}
  /\ Init /\ FilesInit /\ EnvironmentInit /\ LocationsInit /\ GetoptsInit
  /\ part # "calls" => program.kind = "stdin"
  /\ part # "variables" => entry_count = 0
  /\ part # "lookups" => PATH = FirstOf(MCSearchPaths) /\ programs = {}
  /\ part # "getopts" => options = FirstOf(MCOptionStrings) /\ args = <<>>

MCNext ==
  \/ part = "calls" /\ Next
     /\ UNCHANGED <<part, files_vars, environment_vars, locations_vars, getopts_vars>>
  \/ part = "files" /\ FilesNext
     /\ UNCHANGED <<part, vars, environment_vars, locations_vars, getopts_vars>>
  \/ part = "variables" /\ EnvironmentNext
     /\ UNCHANGED <<part, vars, files_vars, locations_vars, getopts_vars>>
  \/ part = "places" /\ (MovesOn \/ DeclaresReadonly \/ DirectoriesChange)
     /\ UNCHANGED <<part, vars, files_vars, environment_vars, getopts_vars>>
  \/ /\ part = "lookups"
     /\ \/ LooksOn \/ cd \/ AssignsPath
        \/ Redefines \/ ProgramsChange
     /\ UNCHANGED <<part, vars, files_vars, environment_vars, getopts_vars>>
  \/ part = "getopts" /\ GetoptsNext
     /\ UNCHANGED <<part, vars, files_vars, environment_vars, locations_vars>>

MCSpec == MCInit /\ [][MCNext]_<<part, vars, files_vars, environment_vars, locations_vars, getopts_vars>>
=============================================================================
