-------------------------------- MODULE MCSyntax --------------------------------
(***************************************************************************)
(* Small inputs for Language and Syntax: programs, patterns, paths and words *)
(* of MCLanguage, functions of MCCommands, and the texts below.             *)
(***************************************************************************)
EXTENDS Syntax

ML == INSTANCE MCLanguage WITH Programs <- {}, Options <- {}, PatternInputs <- {}, PathInputs <- {}, WordInputs <- {},
                              Directories <- <<>>, MaxCommands <- 0
MCPrograms == ML!MCPrograms
MCOptions == ML!MCOptions
MCDirectories == ML!MCDirectories
MCPatternInputs == ML!MCPatternInputs
MCPathInputs == ML!MCPathInputs
MCWordInputs == ML!MCWordInputs

MC == INSTANCE MCCommands
MCFunctions == MC!FunctionBodies

W(text) == Item("word", text)
O(text) == Item("operator", text)
Here(tag, body, tabs) == [Item("here", tag) EXCEPT !.body = body, !.tabs = tabs]
E1 == <<"E">>
F1 == <<"F">>
QuotedTag == <<"'", "E", "'">>
Bodies == {<<>>, << <<"x">> >>, << <<"E", "x">>, <<"x", "E">> >>, << <<>>, <<"$", "x">> >>}
Heres == {Here(t, b, tabs) : t \in {E1, QuotedTag}, b \in Bodies, tabs \in BOOLEAN}
Others == {Here(F1, b, FALSE) : b \in {<<>>, << <<"E">>, <<"y">> >>, << <<"x">> >>}}
Words1 == {W(<<"a">>), W(<<"\"", "a", " ", "#", "\"">>), W(<<"$", "(", "(", "1", "<", "<", "2", ")", ")">>), W(<<"$", "{", "x", "#", "b", "}">>),
           W(<<"\\", "#">>), W(<<"b", "#">>)}
Ops == {O(<<"|">>), O(<<"&", "&">>), O(<<";">>)}
Comments == {Item("comment", c) : c \in {<<>>, <<"<", "<", "E">>, <<" ", "x">>}}
Lines == {<<W(<<"a">>), h>> : h \in Heres} \cup {<<W(<<"a">>), h, o>> : h \in Heres, o \in Others \cup Words1 \cup Ops \cup Comments}
  \cup {<<W(<<"a">>), o, h>> : h \in Heres, o \in Words1 \cup Ops} \cup {<<w, x>> : w \in Words1, x \in Words1 \cup Ops \cup Comments}
Lines2 == {<<W(<<"a">>)>>, <<W(<<"a">>), Here(E1, << <<"x">> >>, FALSE), Here(F1, << <<"E">> >>, FALSE)>>}
MCSources ==
  [lines: {<<l>> : l \in Lines} \cup {<<l, m>> : l \in Lines, m \in Lines2}, gap: {<<" ">>, <<" ", " ">>}]

Texts(chars, n) == UNION {[1..k -> chars] : k \in 0..n}
QuoteChars == {"a", "'", "\"", "\\", " ", "$", "{", ",", "}", "\n", Backquote, "~", "#"}
MCQuoteInputs ==
  [value: Texts(QuoteChars, 2) \cup [1..3 -> {"a", "'", "\"", "\\", "$", "\n"}] \cup [1..3 -> {"{", ",", "}", "'"}],
   options: [always_quote: {FALSE}, mode: {"single", "double", "backslash"}, avoid_ansi_c_quoting_newline: {FALSE}]
       \cup [always_quote: {TRUE}, mode: {"single", "double"}, avoid_ansi_c_quoting_newline: {FALSE}]]

P(text) == <<BareText(text)>>
Ranges == {NumberRange(e[1], e[2], n) : e \in {<<<<"1">>, <<"3">>>>, <<<<"0", "1">>, <<"3">>>>, <<<<"3">>, <<"0", "1">>>>, <<<<"8">>, <<"1", "0">>>>},
                                       n \in {1, 2}}
BraceLeaves == {P(<<"a">>), P(<<>>), P(<<"\"", ",", "\"">>), P(<<"\\", "{">>)}
Lists == {Alternatives(<<x, y>>) : x \in BraceLeaves, y \in BraceLeaves}
Mixed == {Alternatives(<<P(<<"a">>), <<r>>, x>>) : r \in Ranges, x \in {P(<<>>), P(<<"a">>)}}
Nested1 == {Alternatives(<<P(<<"a">>), <<c, d>>>>) : c \in Lists \cup Mixed, d \in {BareText(<<"b">>), Alternatives(<<P(<<"a">>), P(<<>>)>>)}}
Around == {<<"{", "x", "}">>, <<"$", "{", "x", "}">>, <<"\"", "{", "0", "1", ".", ".", "3", "}", "\"">>}
MCBraceInputs ==
  {<<c>> : c \in Lists \cup Mixed \cup Nested1 \cup Ranges} \cup {<<c, BareText(<<"b">>), r>> : c \in Ranges, r \in Ranges}
  \cup {<<c, d>> : c \in Lists, d \in {Alternatives(<<P(<<"a">>), P(<<>>)>>)}} \cup {<<BareText(t), c>> : c \in Ranges, t \in Around}

---------------------------------------------------------------------------
MCInit == Init \/ ReadingInit
MCNext == Next \/ ReadingNext
MCSpec == MCInit /\ [][MCNext]_vars
===============================================================================
