-------------------------------- MODULE Commands --------------------------------
(***************************************************************************)
(* The grammar of commands (parser/parse_impl/peg.rs), the tree it builds   *)
(* and the text a tree is printed as (parser/ast.rs).  The shell hands      *)
(* exported functions to its child processes as that text, and the child    *)
(* reads it with the same grammar (define_func_from_str).                   *)
(*                                                                         *)
(* A program is a sequence of tokens, operators told from words by their    *)
(* spelling; a newline is "nl".  Left out: locations (but for a number that *)
(* touches the redirection after it, which is the token Fd) and the inside  *)
(* of words and arithmetic.                                                 *)
(***************************************************************************)
EXTENDS Integers, Sequences, SequencesExt, TLC

Operators == {"nl", "&", "&&", "(", ")", ";", ";;", ";&", ";;&", "|", "||", "|&", "<", ">", ">|", "<<", ">>", "<&", ">&", "<<-", "<>",
              "<<<", "&>", "&>>"}
Fd == "2"                \* a number right before a redirection
Assignments == {"v=1", "v="}
EndInEquals == {"v="}
Multiline == "'nl'"      \* a quoted newline, and what it is once its second line is indented
Shifted == "'nl    '"
Unended == "unended"     \* a here-document whose tag never comes is an error of the tokenizer
reserved_word == {"!", "{", "}", "case", "do", "done", "elif", "else", "esac", "fi", "for", "if", "in", "then", "until", "while",
                  "[[", "]]", "function", "select", "coproc"}
IsWord(t) == t \notin Operators \cup {Fd, Unended}

---------------------------------------------------------------------------
(* The grammar: parsing expressions by rule.                               *)
T(token) == <<"token", token>>
R(rule) == <<"rule", rule>>
AnyWord(words) == <<"any", words>>     \* one word, not in `words`
In(tokens) == <<"in", tokens>>     \* one of these tokens
S(parts) == <<"seq", parts>>
Or(choices) == <<"or", choices>>
Many(e) == <<"many", e>>
Some(e) == <<"some", e>>
Maybe(e) == <<"maybe", e>>
Not(e) == <<"not", e>>
Slice(e) == <<"slice", e>>         \* the tokens themselves
Ahead(e) == <<"ahead", e>>

BinaryTests == {"-eq", "-ne", "-lt", "-le", "-gt", "-ge", "-ef", "-nt", "-ot", "==", "=", "!=", "<", ">"}
UnaryTests == {"-a", "-b", "-c", "-d", "-e", "-f", "-g", "-h", "-k", "-n", "-o", "-p", "-r", "-s", "-t", "-u", "-v", "-w", "-x", "-z",
               "-G", "-L", "-N", "-O", "-R", "-S"}
FileOperators == {"<", "<&", ">", ">&", ">>", "<>", ">|"}
word == AnyWord({})
linebreak == Many(T("nl"))
newline_list == Some(T("nl"))

Pipelines ==
  [and_or |-> S(<<R("pipeline"), Many(S(<<In({"&&", "||"}), linebreak, R("pipeline")>>))>>),
   pipeline |-> S(<<Maybe(S(<<T("time"), Maybe(T("-p"))>>)), Many(T("!")), R("command"), Many(S(<<In({"|", "|&"}), linebreak, R("command")>>))>>),
   command |-> Or(<<R("function_definition"), R("simple_command"), R("compound"), R("extended_test_command")>>),
   compound |-> S(<<R("compound_command"), R("redirect_list")>>)]

Arithmetics ==
  [arithmetic_command |-> S(<<T("("), T("("), R("arithmetic_expression"), T(")"), T(")")>>),
   arithmetic_expression |-> Slice(Many(R("arithmetic_expression_piece"))),
   arithmetic_expression_piece |-> Or(<<S(<<T("("), Many(S(<<Not(T(")")), R("arithmetic_expression_piece")>>)), T(")")>>),
                                        S(<<Not(S(<<T(")"), T(")")>>)), Not(In({";", ")"})), Or(<<word, In(Operators)>>)>>)>>)]

Lists ==
  [subshell |-> S(<<T("("), R("compound_list"), T(")")>>),
   compound_list |-> S(<<linebreak, R("and_or"), Many(S(<<R("separator"), R("and_or")>>)), Maybe(R("separator"))>>),
   separator |-> Or(<<S(<<In({"&", ";"}), linebreak>>), newline_list>>),
   sequential_sep |-> Or(<<S(<<T(";"), linebreak>>), newline_list>>)]

Loops ==
  [for_clause |-> Or(<<S(<<T("for"), word, S(<<linebreak, T("in")>>), Many(word), R("sequential_sep"), R("do_group")>>),
                       S(<<T("for"), word, S(<<>>), S(<<>>), Maybe(R("sequential_sep")), R("do_group")>>)>>),
   arithmetic_for_clause |-> S(<<T("for"), T("("), T("("), R("arithmetic_expression"), T(";"), R("arithmetic_expression"), T(";"),
                                 R("arithmetic_expression"), T(")"), T(")"), R("arithmetic_for_body")>>),
   arithmetic_for_body |-> Or(<<S(<<Maybe(R("sequential_sep")), R("do_group")>>), S(<<T("{"), R("compound_list"), T("}")>>)>>),
   while_clause |-> S(<<In({"while", "until"}), R("compound_list"), R("do_group")>>)]

Tests ==
  [extended_test_command |-> S(<<T("[["), linebreak, R("or_test"), linebreak, T("]]"), R("redirect_list")>>),
   or_test |-> S(<<R("and_test"), Many(S(<<linebreak, T("||"), linebreak, R("and_test")>>))>>),
   and_test |-> S(<<R("test"), Many(S(<<linebreak, T("&&"), linebreak, R("test")>>))>>),
   test |-> Or(<<S(<<T("!"), R("test")>>), S(<<T("("), R("or_test"), T(")")>>), S(<<word, In(BinaryTests), word>>),
                 S(<<word, T("=~"), R("regex_word")>>), S(<<In(UnaryTests), word>>), S(<<word>>)>>),
   regex_word |-> Slice(Some(Or(<<AnyWord({"]]"}), T("|"), S(<<T("("), Many(Or(<<word, In(Operators \ {")"})>>)), T(")")>>)>>)))]

Cases ==
  [case_clause |-> S(<<T("case"), word, linebreak, T("in"), linebreak, Many(R("case_item")), Maybe(R("case_item_ns")), T("esac")>>),
   case_item |-> Or(<<S(<<R("patterns"), R("no_commands"), In({";;", ";&", ";;&"}), linebreak>>),
                      S(<<R("patterns"), R("compound_list"), In({";;", ";&", ";;&"}), linebreak>>)>>),
   case_item_ns |-> Or(<<S(<<R("patterns"), R("compound_list")>>), S(<<R("patterns"), R("no_commands")>>)>>),
   no_commands |-> linebreak,
   patterns |-> S(<<Maybe(T("(")), word, Many(S(<<T("|"), word>>)), T(")")>>)]

Conditionals ==
  [if_clause |-> S(<<T("if"), R("compound_list"), T("then"), R("compound_list"),
                     Many(S(<<T("elif"), R("compound_list"), T("then"), R("compound_list")>>)), Maybe(S(<<T("else"), R("compound_list")>>)), T("fi")>>)]

CompoundCommands ==
  [compound_command |-> Or(<<R("arithmetic_command"), R("coproc_clause"), R("brace_group"), R("subshell"), R("for_clause"), R("case_clause"),
                             R("if_clause"), R("while_clause"), R("arithmetic_for_clause")>>),
   coproc_clause |-> S(<<T("coproc"), linebreak, Maybe(S(<<R("fname"), linebreak, Ahead(In({"{", "("}))>>)), R("command")>>),
   brace_group |-> S(<<T("{"), R("compound_list"), T("}")>>),
   do_group |-> S(<<T("do"), R("compound_list"), T("done")>>)]

Functions ==
  [function_definition |-> Or(<<S(<<T("function"), R("fname"), R("function_parens_and_body")>>),
                                S(<<Not(In(reserved_word)), R("fname"), R("function_parens_and_body")>>),
                                S(<<T("function"), R("fname"), R("bare_body")>>)>>),
   function_parens_and_body |-> S(<<T("("), T(")"), linebreak, R("compound")>>),
   bare_body |-> S(<<S(<<>>), S(<<>>), linebreak, R("compound")>>),
   fname |-> AnyWord(EndInEquals)]

SimpleCommands ==
  [simple_command |-> Or(<<S(<<Some(Or(<<R("io_redirect"), R("assignment_word")>>)),
                               Maybe(S(<<Not(In(Assignments)), AnyWord(reserved_word), Many(R("suffix_item"))>>))>>),
                           S(<<S(<<>>), S(<<S(<<S(<<>>), AnyWord(reserved_word), Many(R("suffix_item"))>>)>>)>>)>>),
   suffix_item |-> Or(<<R("process_substitution"), R("io_redirect"), R("assignment_word"), R("plain_word")>>),
   plain_word |-> word]

Redirections ==
  [redirect_list |-> Many(R("io_redirect")),
   io_redirect |-> Or(<<S(<<Maybe(T(Fd)), In(FileOperators), Or(<<R("process_substitution"), R("plain_word")>>)>>),
                        S(<<S(<<>>), In({"&>>", "&>"}), R("plain_word")>>), S(<<Maybe(T(Fd)), T("<<<"), R("plain_word")>>),
                        S(<<Maybe(T(Fd)), In({"<<-", "<<"}), R("here_document")>>)>>),
   here_document |-> S(<<word, word, word>>),
   process_substitution |-> S(<<In({"<", ">"}), R("subshell")>>)]

AssignmentWords ==
  [assignment_word |-> Or(<<S(<<In(EndInEquals), T("("), linebreak, Many(S(<<word, linebreak>>)), T(")")>>), S(<<In(Assignments)>>)>>)]

Grammar == Pipelines @@ Arithmetics @@ Lists @@ Loops @@ Tests @@ Cases @@ Conditionals @@ CompoundCommands
            @@ Functions @@ SimpleCommands @@ Redirections @@ AssignmentWords

---------------------------------------------------------------------------
(* What each rule makes of the values of its parts: a node is a tuple that  *)
(* starts with its kind.                                                   *)
Column(rows, a) == [k \in DOMAIN rows |-> rows[k][a]]
Columns(rows, a, b) == [k \in DOMAIN rows |-> <<rows[k][a], rows[k][b]>>]

(* A list: [and-or list, separator] pairs, `;` where none is written.       *)
ListOf(first, rest, last) ==
  LET and_ors == <<first>> \o Column(rest, 2)
      seps == Column(rest, 1) \o (IF last = <<>> THEN <<";">> ELSE last)
  IN [k \in DOMAIN and_ors |-> <<and_ors[k], seps[k]>>]

ErrorsToo == <<"redirect", <<Fd>>, ">&", <<"word", "1">>>>
(* `|&` is `2>&1 |`.                                                        *)
add_pipe_extension_redirection(c) ==
  CASE c[1] = "simple" -> [c EXCEPT ![4] = Append(@, ErrorsToo)]
    [] c[1] \in {"compound", "test"} -> [c EXCEPT ![3] = Append(@, ErrorsToo)]
    [] c[1] = "function" -> [c EXCEPT ![3][3] = Append(@, ErrorsToo)]

PipelineOf(timed, bangs, first, rest) ==
  LET seq == <<first>> \o Column(rest, 3)
      kinds == Column(rest, 1)
  IN [timed |-> IF timed = <<>> THEN <<>> ELSE <<"time">> \o timed[1][2],
      bang |-> Len(bangs) % 2 = 1,
      seq |-> [k \in DOMAIN seq |-> IF k \in DOMAIN kinds /\ kinds[k] = "|&" THEN add_pipe_extension_redirection(seq[k]) ELSE seq[k]],
      pipe_kinds |-> kinds]

(* Words of one meaning are one predicate.                                 *)
Predicate(t) == CASE t = "-a" -> "-e" [] t = "-L" -> "-h" [] t = "=" -> "==" [] OTHER -> t
TestOf(v) ==
  CASE Len(v) = 1 -> <<"unary", "-n", v[1]>>
    [] Len(v) = 2 -> IF v[1] = "!" THEN <<"not", v[2]>> ELSE <<"unary", Predicate(v[1]), v[2]>>
    [] Len(v) = 3 -> IF v[1] = "(" THEN <<"parens", v[2]>> ELSE <<"binary", Predicate(v[2]), v[1], v[3]>>
Joined(op, first, rest) == FoldLeft(LAMBDA left, item : <<op, left, item[4]>>, first, rest)

Built(rule, v) ==
  CASE rule = "and_or" -> <<<<"&&", v[1]>>>> \o Columns(v[2], 1, 3)
    [] rule = "pipeline" -> PipelineOf(v[1], v[2], v[3], v[4])
    [] rule = "compound" -> <<"compound", v[1], v[2]>>
    [] rule = "separator" -> IF Head(v) = "&" THEN "&" ELSE ";"
    [] rule = "compound_list" -> ListOf(v[2], v[3], v[4])
    [] rule = "function_definition" -> <<"function", v[Len(v) - 1], v[Len(v)]>>
    [] rule \in {"function_parens_and_body", "bare_body"} -> v[4]
    [] rule = "extended_test_command" -> <<"test", v[3], v[6]>>
    [] rule = "arithmetic_command" -> <<"arithmetic", v[3]>>
    [] rule = "coproc_clause" -> <<"coproc", IF v[3] = <<>> THEN <<>> ELSE <<v[3][1][1]>>, v[4]>>
    [] rule = "brace_group" -> <<"group", v[2]>>
    [] rule = "subshell" -> <<"subshell", v[2]>>
    [] rule = "for_clause" -> <<"for", v[2], v[4], v[6]>>
    [] rule = "arithmetic_for_clause" -> <<"arithmetic_for", <<v[4], v[6], v[8]>>, v[11]>>
    [] rule \in {"do_group", "arithmetic_for_body"} -> v[2]
    [] rule = "case_clause" -> <<"case", v[2], v[6] \o v[7]>>
    [] rule = "case_item" -> <<v[1], v[2], v[3]>>
    [] rule = "case_item_ns" -> <<v[1], v[2], ";;">>
    [] rule = "no_commands" -> <<>>
    [] rule = "patterns" -> <<v[2]>> \o Column(v[3], 2)
    [] rule = "if_clause" -> <<"if", v[2], v[4], Columns(v[5], 2, 4) \o [k \in DOMAIN v[6] |-> <<<<>>, v[6][k][2]>>]>>
    [] rule = "while_clause" -> v
    [] rule = "or_test" -> Joined("||", v[1], v[2])
    [] rule = "and_test" -> Joined("&&", v[1], v[2])
    [] rule = "test" -> TestOf(v)
    [] rule = "simple_command" -> IF v[2] = <<>> THEN <<"simple", v[1], <<>>, <<>>>> ELSE <<"simple", v[1], <<v[2][1][2]>>, v[2][1][3]>>
    [] rule = "plain_word" -> <<"word", v>>
    [] rule = "io_redirect" -> <<"redirect", v[1], v[2], v[3]>>
    [] rule = "here_document" -> <<"here_document", v[1], v[2]>>
    [] rule = "process_substitution" -> <<"substitution", v[1], v[2][2]>>
    [] rule = "assignment_word" -> <<"assignment", v[1], IF Len(v) = 1 THEN <<>> ELSE <<Column(v[4], 1)>>>>
    [] OTHER -> v

Yes(value, next) == [ok |-> TRUE, v |-> value, p |-> next]
No == [ok |-> FALSE, v |-> <<>>, p |-> 0]

RECURSIVE Parse(_, _, _)
Parse(e, t, p) ==
  LET Inner(at) == Parse(e[2], t, at)
  IN CASE e[1] = "token" -> IF p <= Len(t) /\ t[p] = e[2] THEN Yes(t[p], p + 1) ELSE No
       [] e[1] = "any" -> IF p <= Len(t) /\ IsWord(t[p]) /\ t[p] \notin e[2] THEN Yes(t[p], p + 1) ELSE No
       [] e[1] = "in" -> IF p <= Len(t) /\ t[p] \in e[2] THEN Yes(t[p], p + 1) ELSE No
       [] e[1] = "rule" -> LET m == Parse(Grammar[e[2]], t, p) IN IF m.ok THEN Yes(Built(e[2], m.v), m.p) ELSE No
       [] e[1] = "seq" -> FoldLeft(LAMBDA m, part : IF ~m.ok THEN No
                                     ELSE LET n == Parse(part, t, m.p) IN IF n.ok THEN Yes(Append(m.v, n.v), n.p) ELSE No, Yes(<<>>, p), e[2])
       [] e[1] = "or" -> FoldLeft(LAMBDA m, choice : IF m.ok THEN m ELSE Parse(choice, t, p), No, e[2])
       [] e[1] = "many" -> LET m == Inner(p) IN IF ~m.ok THEN Yes(<<>>, p) ELSE LET rest == Parse(e, t, m.p) IN Yes(<<m.v>> \o rest.v, rest.p)
       [] e[1] = "some" -> LET m == Parse(Many(e[2]), t, p) IN IF m.v = <<>> THEN No ELSE m
       [] e[1] = "maybe" -> LET m == Inner(p) IN IF m.ok THEN Yes(<<m.v>>, m.p) ELSE Yes(<<>>, p)
       [] e[1] = "not" -> IF Inner(p).ok THEN No ELSE Yes(<<>>, p)
       [] e[1] = "ahead" -> IF Inner(p).ok THEN Yes(<<>>, p) ELSE No
       [] e[1] = "slice" -> LET m == Inner(p) IN IF m.ok THEN Yes(SubSeq(t, p, m.p - 1), m.p) ELSE No

(* A rule is given all of the tokens.                                      *)
Read(rule, t) == LET m == Parse(R(rule), t, 1) IN IF m.ok /\ m.p = Len(t) + 1 THEN m ELSE No

---------------------------------------------------------------------------
(* What a tree is printed as.  `deep` is set inside what is indented, where *)
(* every line is given four more blanks, those of words and here-documents  *)
(* too.                                                                    *)
Shown(w, deep) == IF deep /\ w = Multiline THEN Shifted ELSE w
Words(ws, deep) == [k \in DOMAIN ws |-> Shown(ws[k], deep)]
Between(parts, token) == FlattenSeq([k \in DOMAIN parts |-> IF k = 1 THEN parts[k] ELSE <<token>> \o parts[k]])

RECURSIVE DisplayList(_, _), DisplayCommand(_, _), DisplayCompound(_, _), DisplayTest(_, _)
DisplayItem(item, deep) ==
  CASE item[1] = "word" -> <<Shown(item[2], deep)>>
    [] item[1] = "substitution" -> <<item[2], "(">> \o DisplayList(item[3], deep) \o <<")">>
    [] item[1] = "assignment" -> IF item[3] = <<>> THEN <<item[2]>> ELSE <<item[2], "(">> \o Words(item[3][1], deep) \o <<")">>
    [] item[1] = "here_document" -> IF deep THEN <<item[2], Unended>> ELSE <<item[2], item[3], item[2], "nl">>
DisplayRedirect(item, deep) ==
  IF item[1] = "redirect" THEN item[2] \o <<item[3]>> \o DisplayItem(item[4], deep) ELSE DisplayItem(item, deep)
DisplayItems(items, deep) == FlattenSeq([k \in DOMAIN items |-> DisplayRedirect(items[k], deep)])

DisplayPipeline(pipe, deep) ==
  pipe.timed \o (IF pipe.bang THEN <<"!">> ELSE <<>>)
    \o FlattenSeq([k \in DOMAIN pipe.seq |-> (IF k = 1 THEN <<>> ELSE <<pipe.pipe_kinds[k - 1]>>) \o DisplayCommand(pipe.seq[k], deep)])
DisplayAndOr(and_or, deep) ==
  FlattenSeq([k \in DOMAIN and_or |-> (IF k = 1 THEN <<>> ELSE <<and_or[k][1]>>) \o DisplayPipeline(and_or[k][2], deep)])

DropsTheLast(list, k) == IF k = Len(list) THEN <<>> ELSE <<list[k][2]>>    \* mutant of Separator
Separator(list, k) == IF k = Len(list) /\ list[k][2] = ";" THEN <<>> ELSE <<list[k][2]>>
DisplayList(list, deep) == Between([k \in DOMAIN list |-> DisplayAndOr(list[k][1], deep) \o Separator(list, k)], "nl")

DisplayTest(e, deep) ==
  CASE e[1] \in {"||", "&&"} -> DisplayTest(e[2], deep) \o <<e[1]>> \o DisplayTest(e[3], deep)
    [] e[1] = "not" -> <<"!">> \o DisplayTest(e[2], deep)
    [] e[1] = "parens" -> <<"(">> \o DisplayTest(e[2], deep) \o <<")">>
    [] e[1] = "unary" -> <<e[2], Shown(e[3], deep)>>
    [] e[1] = "binary" -> <<e[3], e[2]>> \o (IF e[2] = "=~" THEN e[4] ELSE <<Shown(e[4], deep)>>)

DisplayBody(body, deep) == DisplayCompound(body[2], deep) \o DisplayItems(body[3], deep)
DisplayCommand(c, deep) ==
  CASE c[1] = "simple" -> DisplayItems(c[2], deep) \o Words(c[3], deep) \o DisplayItems(c[4], deep)
    [] c[1] = "compound" -> DisplayBody(c, deep)
    [] c[1] = "function" -> <<c[2], "(", ")", "nl">> \o DisplayBody(c[3], deep)
    [] c[1] = "test" -> <<"[[">> \o DisplayTest(c[2], deep) \o <<"]]">> \o DisplayItems(c[3], deep)

Block(list) == <<"nl">> \o DisplayList(list, TRUE) \o <<"nl">>
DoGroup(list) == <<"do">> \o Block(list) \o <<"done">>
DisplayCase(item) ==
  <<"nl">> \o Between([k \in DOMAIN item[1] |-> Words(<<item[1][k]>>, TRUE)], "|") \o <<")">> \o Block(item[2]) \o <<item[3]>>
DisplayElse(clause, deep) ==
  <<"nl">> \o (IF clause[1] = <<>> THEN <<"else", "nl">> ELSE <<"elif">> \o DisplayList(clause[1], deep) \o <<";", "then", "nl">>)
    \o DisplayList(clause[2], TRUE)
DisplayCompound(c, deep) ==
  CASE c[1] = "arithmetic" -> <<"(", "(">> \o c[2] \o <<")", ")">>
    [] c[1] = "group" -> <<"{">> \o Block(c[2]) \o <<"}">>
    [] c[1] = "subshell" -> <<"(">> \o DisplayList(c[2], deep) \o <<")">>
    [] c[1] = "for" -> <<"for", c[2], "in">> \o Words(c[3], deep) \o <<";", "nl">> \o DoGroup(c[4])
    [] c[1] = "arithmetic_for" -> <<"for", "(", "(">> \o Between(c[2], ";") \o <<")", ")", "nl">> \o DoGroup(c[3])
    [] c[1] = "case" -> <<"case", Shown(c[2], deep), "in">> \o FlattenSeq([k \in DOMAIN c[3] |-> DisplayCase(c[3][k])]) \o <<"nl", "esac">>
    [] c[1] = "if" -> <<"if">> \o DisplayList(c[2], deep) \o <<";", "then", "nl">> \o DisplayList(c[3], TRUE)
                        \o FlattenSeq([k \in DOMAIN c[4] |-> DisplayElse(c[4][k], deep)]) \o <<"nl", "fi">>
    [] c[1] \in {"while", "until"} -> <<c[1]>> \o DisplayList(c[2], deep) \o <<";">> \o DoGroup(c[3])
    [] c[1] = "coproc" -> <<"coproc">> \o c[2] \o DisplayCommand(c[3], deep)

(* An exported function, as a child process finds it in its environment,    *)
(* and what the child makes of it.                                         *)
ExportedText(body) == <<"(", ")">> \o DisplayBody(body, FALSE)
define_func_from_str(text) == Read("function_parens_and_body", text)

---------------------------------------------------------------------------
(* The lists between parentheses in a command, at any depth.               *)
CommandsOf(list) == UNION {UNION {ToSet(list[k][1][j][2].seq) : j \in DOMAIN list[k][1]} : k \in DOMAIN list}
ListsOf(c) ==
  CASE c[1] \in {"group", "subshell"} -> {c[2]}
    [] c[1] = "for" -> {c[4]}
    [] c[1] = "arithmetic_for" -> {c[3]}
    [] c[1] = "case" -> {c[3][k][2] : k \in DOMAIN c[3]}
    [] c[1] = "if" -> {c[2], c[3]} \cup UNION {{c[4][k][1], c[4][k][2]} : k \in DOMAIN c[4]}
    [] c[1] \in {"while", "until"} -> {c[2], c[3]}
    [] OTHER -> {}
Substituted(items) ==
  {items[k][3] : k \in {j \in DOMAIN items : items[j][1] = "substitution"}}
    \cup {items[k][4][3] : k \in {j \in DOMAIN items : items[j][1] = "redirect" /\ items[j][4][1] = "substitution"}}
RECURSIVE Parenthesized(_)
Parenthesized(c) ==
  LET own == CASE c[1] = "simple" -> Substituted(c[2] \o c[4])
               [] c[1] \in {"compound", "test"} -> Substituted(c[3]) \cup (IF c[2][1] = "subshell" THEN {c[2][2]} ELSE {})
               [] c[1] = "function" -> {}
      inner == CASE c[1] = "compound" -> UNION {CommandsOf(l) : l \in ListsOf(c[2])} \cup (IF c[2][1] = "coproc" THEN {c[2][3]} ELSE {})
                 [] c[1] = "function" -> {c[3]}
                 [] OTHER -> {}
  IN own \cup UNION {Parenthesized(d) : d \in inner \cup UNION {CommandsOf(l) : l \in own}}

(* What the printed form cannot say, or says otherwise: a list in           *)
(* parentheses that begins with another parenthesis is read as arithmetic;  *)
(* one that ends in a `case`, alone or before one-word commands, has its    *)
(* `esac` read as a pattern; a condition that ends with `&` is given a `;`; *)
(* a `|&` is printed with the redirection it stands for and gains another;  *)
(* here-documents and words of several lines do not bear the indentation;   *)
(* `function for` is printed without the keyword; a coprocess whose command  *)
(* starts with a keyword before a brace or parenthesis, or defines a         *)
(* function, takes the first word for its name.                             *)
EndsInEsac(text) ==
  \E k \in DOMAIN text : text[k] = "esac" /\ \A j \in k + 1..Len(text) : IF (j - k) % 2 = 1 THEN text[j] = "|" ELSE IsWord(text[j])
PrintsPlainly(body) ==
  LET text == ExportedText(body)
      Next2(a, b) == \E k \in 1..Len(text) - 1 : text[k] \in a /\ text[k + 1] \in b
  IN /\ \A list \in Parenthesized(body) : LET inner == DisplayList(list, FALSE) IN Head(inner) # "(" /\ ~EndsInEsac(inner)
     /\ ~Next2({"&"}, {";"})
     /\ ToSet(text) \cap {"|&", "<<", "<<-", Shifted} = {}
     /\ ~\E k \in 1..Len(text) - 2 : text[k] \in reserved_word /\ text[k + 1] = "(" /\ text[k + 2] = ")"
     /\ LET flat == SelectSeq(text, LAMBDA t : t # "nl")
        IN ~\E k \in 1..Len(flat) - 3 : /\ flat[k] = "coproc" /\ flat[k + 2] \in {"{", "("}
                                       /\ (flat[k + 1] \in reserved_word \/ flat[k + 3] = ")")
=============================================================================
