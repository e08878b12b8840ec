------------------------------- MODULE MCLanguage -------------------------------
(* Small inputs for every algorithm of Language. *)
EXTENDS Language

Leaf(op, arg) == Node(op, arg, <<>>)
List(kids) == Node("list", <<>>, kids)
OK == Leaf("command", <<0>>)
Fails == Leaf("command", <<1>>)

Leaves0 == {OK, Fails, Leaf("break", <<1>>), Leaf("break", <<2>>), Leaf("continue", <<1>>),
            Leaf("continue", <<2>>), Leaf("return", <<3>>), Leaf("exit", <<>>), Leaf("raise", <<0>>),
            Leaf("raise", <<1>>)}
Plain == {OK, Fails}

(* One compound command around given lists.                                *)
Compounds(lists, few) ==
       {Node("while", <<1>>, <<a, b>>) : a \in few, b \in lists}
  \cup {Node("while", <<0>>, <<a, b>>) : a \in lists, b \in few}
  \cup {Node("for", <<2>>, <<b>>) : b \in lists}
  \cup {Node("arithmetic_for", <<2>>, <<b>>) : b \in lists}
  \cup {Node("if", <<>>, <<a, b>>) : a \in lists, b \in few}
  \cup {Node("if", <<>>, <<a, b, c>>) : a \in few, b \in few, c \in lists}
  \cup {Node("case", <<1, t, 0, u, 1, 0>>, <<b, c, b>>) : b \in lists, c \in few, t \in 0..2, u \in 0..2}
  \cup {Node("brace", <<>>, b.kids) : b \in lists}
  \cup {Node("subshell", <<>>, b.kids) : b \in lists}
  \cup {Node("call", <<>>, <<Node("brace", <<>>, b.kids)>>) : b \in lists}
  \cup {Node(op, <<>>, <<b>>) : op \in {"source", "eval"}, b \in lists}
  \cup {Node("pipeline", <<bang>>, <<Node("brace", <<>>, b.kids), Node("brace", <<>>, c.kids)>>) :
          bang \in {0, 1}, b \in lists, c \in few}
  \cup {Node("pipeline", <<bang>>, <<Node("brace", <<>>, c.kids), Node("brace", <<>>, b.kids)>>) :
          bang \in {0, 1}, b \in lists, c \in few}
  \cup {Node("pipeline", <<1>>, <<Node("brace", <<>>, b.kids)>>) : b \in lists}
  \cup {Node("andor", <<t, u>>, <<Node("brace", <<>>, b.kids), Fails, OK>>) : b \in lists, t \in {0, 1}, u \in {0, 1}}
  \cup {Node("andor", <<t, u>>, <<OK, Node("brace", <<>>, b.kids), Fails>>) : b \in lists, t \in {0, 1}, u \in {0, 1}}

Few == {List(<<OK>>), List(<<Fails>>)}
Lists0 == {List(<<a>>) : a \in Leaves0} \cup {List(<<a, OK>>) : a \in Leaves0}
Lists1 == {List(<<a, OK>>) : a \in Compounds(Lists0, Few)}
Lists1Few == {List(<<a, OK>>) : a \in Compounds({List(<<a, OK>>) : a \in Leaves0 \ {Leaf("return", <<3>>)}}, {List(<<OK>>)})}
Lists2 == {List(<<a, OK>>) : a \in Compounds(Lists1Few, {List(<<OK>>)})}

MCPrograms == {Node("program", <<>>, <<l>>) : l \in Lists1 \cup Lists2}

MCOptions == {Params(e, FALSE, l, FALSE) : e \in BOOLEAN, l \in BOOLEAN}
  \cup {Params(TRUE, TRUE, FALSE, FALSE)}
MCWithoutErrexit == {Params(FALSE, FALSE, l, FALSE) : l \in BOOLEAN}
MCNone == {}

---------------------------------------------------------------------------
Literal(c) == Atom("character", <<c>>, <<>>)
a == <<Literal("a")>>
b == <<Literal("b")>>
SimpleAtoms == {Literal("a"), Literal("b"), Atom("any", <<>>, <<>>), Atom("text", <<>>, <<>>),
                Atom("set", <<"a", "c">>, <<>>), Atom("not set", <<"a">>, <<>>)}
GroupAtoms == {Atom(q, <<>>, <<a, b \o a>>) : q \in Quantifiers \ {"!"}}
         \cup {Atom(q, <<>>, <<a, <<Atom("text", <<>>, <<>>), Literal("b")>>>>) : q \in {"?", "*", "+"}}
Strings(chars, n) == UNION {[1..k -> chars] : k \in 0..n}
MCPatternInputs ==
  [atoms: Strings(SimpleAtoms \cup GroupAtoms, 2) \cup [1..3 -> SimpleAtoms \ {Literal("b"), Atom("not set", <<"a">>, <<>>)}],
   value: Strings({"a", "b"}, 3) \cup {<<"c">>}]

MCDirectories ==
  (<<>> :> {<<"a">>, <<"a", "b">>, <<".", "a">>, <<"b">>}) @@ (<< <<"a">> >> :> {<<"b">>, <<".", "b">>})
    @@ (<< <<"a", "b">> >> :> {<<"a">>, <<"b">>})
PathWords == {<<x>> : x \in SimpleAtoms} \cup {<<x, y>> : x \in SimpleAtoms \cup {Literal(".")}, y \in SimpleAtoms}
MCPathInputs == [words: {<<w>> : w \in PathWords} \cup {<<v, w>> : v \in PathWords, w \in PathWords}, dots: BOOLEAN]

Text(q, s) == Piece(IF q THEN "single" ELSE "text", s, <<>>, NoExpr)
Named(n) == Parameter("named", <<n>>, 0, FALSE)
Expr(op, par, word) == [op |-> op, par |-> par, indirect |-> FALSE, word |-> word, with |-> <<>>, kind |-> "", colon |-> TRUE,
                        offset |-> 0, length |-> <<>>]
Expands(e) == Piece("parameter", <<>>, <<>>, e)
Var(n) == Expands(Expr("Parameter", Named(n), <<>>))
Plainly == [nounset |-> FALSE, extglob |-> TRUE, patsub_replacement |-> TRUE, nocasematch |-> FALSE, nocaseglob |-> FALSE,
            dotglob |-> FALSE, failglob |-> FALSE, nullglob |-> FALSE, noglob |-> TRUE, brace_expand |-> TRUE]
Env(x, y, ifs) == [vars |-> (<<"x">> :> [elements |-> <<x>>, readonly |-> FALSE]) @@ (<<"y">> :> [elements |-> <<y>>, readonly |-> FALSE]),
                   args |-> <<<<"a">>, <<"b">>>>, zero |-> <<"z">>, status |-> 0, ifs |-> ifs, options |-> Plainly]
SplitInputs ==
  [word: (Strings({Var("x"), Var("y"), Text(TRUE, <<>>), Text(TRUE, <<":">>)}, 2) \ {<<>>}) \cup {<<Var("x"), Text(TRUE, <<"b">>), Var("y")>>},
   env: {Env(x, y, ifs) : x \in Strings({"a", ":", " "}, 4), y \in Strings({"a", ":", " "}, 1), ifs \in {<<" ", ":">>, <<":">>}}]

All(star) == Parameter("all", <<>>, 0, star)
Unset == Named("u")
Star == <<Piece("text", <<"*">>, <<>>, NoExpr)>>
Braced(words) == Piece("brace", <<>>, [k \in DOMAIN words |-> Piece("alternative", <<>>, words[k], NoExpr)], NoExpr)
BraceList == Braced(<< <<Var("y")>>, <<>>, <<Text(FALSE, <<"a">>), Braced(<<Star, <<Var("x")>>>>)>>>>)
Exprs ==
       {Expr("Parameter", p, <<>>) : p \in {Named("x"), Unset, All(FALSE), All(TRUE), Parameter("count", <<>>, 0, FALSE),
                                           Parameter("status", <<>>, 0, FALSE), Parameter("shell name", <<>>, 0, FALSE)}
                                           \cup {Parameter("positional", <<>>, n, FALSE) : n \in 0..3}
                                           \cup {Parameter("element", <<"x">>, n, FALSE) : n \in 0..1}}
  \cup {[Expr(op, p, w) EXCEPT !.colon = c] :
          op \in {"UseDefaultValues", "AssignDefaultValues", "IndicateErrorIfNullOrUnset", "UseAlternativeValue"},
          p \in {Named("x"), Unset}, c \in BOOLEAN,
          w \in {Star, <<Var("y")>>, <<Double(<<Var("y")>>)>>, <<Expands(Expr("Parameter", All(FALSE), <<>>))>>,
                 <<Double(<<BraceList>>)>>, <<Var("y"), Double(<<BraceList, Var("x")>>)>>, <<Double(<<Var("x")>>), Var("y"), Double(Star)>>}}
  \cup {Expr(op, p, <<>>) : op \in {"ParameterLength", "MemberKeys", "VariableNames"}, p \in {Named("x"), Parameter("elements", <<"x">>, 0, FALSE)}}
  \cup {[Expr("Substring", p, <<>>) EXCEPT !.offset = o, !.length = l] :
          p \in {Named("x"), All(FALSE)}, o \in -2..2, l \in {<<>>, <<-1>>, <<0>>, <<1>>}}
  \cup {Expr(op, Named("x"), w) : op \in {"RemoveSmallestSuffixPattern", "RemoveLargestSuffixPattern", "RemoveSmallestPrefixPattern",
          "RemoveLargestPrefixPattern", "UppercaseFirstChar", "LowercaseFirstChar", "UppercasePattern", "LowercasePattern"},
          w \in {<<>>, <<Text(FALSE, <<"a">>)>>, Star}}
  \cup {[Expr("ReplaceSubstring", Named("x"), w) EXCEPT !.kind = k, !.with = <<Text(FALSE, <<"&", " ">>)>>] :
          w \in {<<Text(FALSE, <<"a">>)>>, Star}, k \in {"Prefix", "Suffix", "FirstOccurrence", "Anywhere"}}
  \cup {[Expr("Transform", p, <<>>) EXCEPT !.kind = k] : p \in {Named("x"), All(FALSE), Unset},
          k \in {"CapitalizeInitial", "Quoted", "ToLowerCase", "ToUpperCase"}}
  \cup {[Expr("Parameter", Named("y"), <<>>) EXCEPT !.indirect = TRUE]}
QuotedInputs ==
  [word: {<<Double(kids)>> : kids \in {<<>>} \cup {<<Expands(e)>> : e \in Exprs}
                              \cup {<<Text(FALSE, <<" ">>), Expands(e), Var("x")>> : e \in Exprs}}
         \cup {<<Double(<<Expands(e)>>), Double(<<Var("y")>>)>> : e \in Exprs}
         \cup {<<Double(<<BraceList>>)>>, <<BraceList, Double(<<BraceList>>)>>}
         \cup {<<Expands(e)>> : e \in Exprs} \cup {<<Piece("command", <<"a", " ", "\n", "\n">>, <<>>, NoExpr), Var("x")>>},
   env: {[Env(x, y, <<" ">>) EXCEPT !.options.nounset = n, !.options.noglob = ~n, !.options.failglob = n, !.options.brace_expand = e] :
          x \in {<<>>, <<"a", " ", "b">>, <<"*", "a">>}, y \in {<<"x">>, <<":", " ">>}, n \in BOOLEAN, e \in BOOLEAN}]
MCWordInputs == SplitInputs \cup QuotedInputs
===============================================================================
