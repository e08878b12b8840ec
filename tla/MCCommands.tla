------------------------------ MODULE MCCommands ------------------------------
(* Bodies of functions, as the trees of module Commands: every kind of      *)
(* command, alone, in a list, in a pipeline and inside every compound        *)
(* command.                                                                *)
EXTENDS Sequences
Simple(w, suffix) == <<"simple", <<>>, <<w>>, suffix>>
A == Simple("a", <<>>)
Word(w) == <<"word", w>>
P(c) == [timed |-> <<>>, bang |-> FALSE, seq |-> <<c>>, pipe_kinds |-> <<>>]
One(c, sep) == << << << <<"&&", P(c)>> >>, sep>> >>
Two(c, d, sep) == << << << <<"&&", P(c)>> >>, sep>>, << << <<"&&", P(d)>> >>, ";">> >>
L(c) == One(c, ";")
File == <<"redirect", <<>>, ">", Word("f")>>
Simples == {A, Simple("a", <<Word("x"), <<"assignment", "v=", << <<"x", "y">> >> >>, <<"redirect", <<"2">>, ">&", Word("1")>>, Word("do")>>),
  <<"simple", << <<"assignment", "v=1", <<>> >>, File>>, <<>>, <<>> >>,
  <<"simple", << <<"assignment", "v=", <<>> >> >>, <<"a">>, << <<"substitution", "<", L(A)>> >> >>,
  Simple("a", << <<"redirect", <<>>, "<", <<"substitution", "<", L(A)>> >> >>),
  Simple("a", << <<"redirect", <<>>, "&>>", Word("f")>>, <<"redirect", <<"2">>, "<<<", Word("x")>> >>),
  <<"simple", <<File>>, <<"a">>, <<>> >>}
Compounds(c, sep) == { <<"group", One(c, sep)>>, <<"subshell", One(c, sep)>>, <<"for", "x", <<>>, One(c, sep)>>, <<"for", "x", <<"a", "in">>, One(c, sep)>>,
  <<"arithmetic_for", << <<"x">>, <<>>, <<"(", "x", ")">> >>, One(c, sep)>>, 
  <<"case", "x", << << <<"a", "esac">>, One(c, sep), ";;">>, << <<"b">>, <<>>, ";&">> >> >>,
  <<"if", One(A, ";"), One(c, sep), << << One(c, ";"), L(A)>>, << <<>>, One(c, sep)>> >> >>,
  <<"if", One(c, sep), L(A), <<>> >>, <<"while", One(c, sep), L(A)>>, <<"until", L(A), One(c, sep)>>,
  <<"coproc", <<>>, c>>}
Full(cc) == {<<"compound", cc, <<>> >>} \cup (IF cc[1] = "coproc" THEN {} ELSE {<<"compound", cc, <<File>> >>})
Tests == { <<"test", <<"||", <<"&&", <<"not", <<"unary", "-n", "a">> >>, <<"binary", "==", "a", "b">> >>, <<"parens", <<"unary", "-e", "f">> >> >>, <<>> >>,
           <<"test", <<"not", <<"binary", "=~", "a", <<"(", "x", "|", "y", ")", "z">> >> >>, <<File>> >> }
C1 == Simples \cup Tests \cup UNION {Full(cc) : cc \in UNION {Compounds(c, sep) : c \in {A}, sep \in {";", "&"}}}
  \cup {<<"compound", <<"arithmetic", <<"x", "<", "(", "y", ")">> >>, <<>> >>, <<"function", "g", <<"compound", <<"group", L(A)>>, <<File>> >> >>,
        <<"compound", <<"coproc", <<"n">>, <<"compound", <<"group", L(A)>>, <<>> >> >>, <<>> >> }
Piped == [timed: {<<>>, <<"time">>, <<"time", "-p">>}, bang: BOOLEAN, seq: {<<c, A>> : c \in C1} \cup {<<A, c>> : c \in C1}, pipe_kinds: {<<"|">>}]
C2 == C1 \cup {<<"compound", cc, <<>> >> : cc \in UNION {Compounds(c, sep) : c \in C1, sep \in {";", "&"}}}
FunctionBodies == {<<"compound", <<"group", One(c, ";")>>, <<>> >> : c \in C2} \cup {<<"compound", <<"subshell", Two(c, d, sep)>>, <<File>> >> : c \in C1, d \in Simples \cup Tests, sep \in {";", "&"}}
 \cup {<<"compound", <<"group", << << << <<"&&", p>>, <<"||", P(A)>>, <<"&&", p>> >>, ";">> >> >>, <<>> >> : p \in Piped}
=============================================================================
