--------------------------------- MODULE Syntax ---------------------------------
(***************************************************************************)
(* Reading the text of programs: the tokenizer, the grammars of words and of  *)
(* commands, brace expansion and quoting, each given one input in the  *)
(* variables of Language, `subject` and `input`.                            *)
(***************************************************************************)
EXTENDS Language, SyntaxReference, Braces, Escapes

CONSTANTS
  Sources,      \* lines of items [op, text, body, tabs, gap]
  QuoteInputs,  \* [value, options] to quote
  BraceInputs,  \* words with braces, as trees
  ExportedFunctions \* bodies of functions, as trees of Commands

Cmd == INSTANCE Commands

---------------------------------------------------------------------------
(* The words a text without parameters in it expands to: its braces, then   *)
(* its pieces, then fields and paths.                                      *)
RECURSIVE PiecesOf(_)
PiecesOf(parsed) ==
  [k \in DOMAIN parsed |->
    LET piece == parsed[k]
    IN CASE piece.op = "ansi" -> [piece EXCEPT !.op = "single", !.text = expand_backslash_escapes(@, TRUE).text]
         [] piece.op = "double" -> [piece EXCEPT !.kids = PiecesOf(@)]
         [] OTHER -> piece]
Environ == [vars |-> <<>>, args |-> <<>>, zero |-> <<>>, status |-> 0, ifs |-> <<" ", "\t", "\n">>,
            options |-> [nounset |-> FALSE, extglob |-> TRUE, patsub_replacement |-> TRUE, nocasematch |-> FALSE, nocaseglob |-> FALSE,
                         dotglob |-> FALSE, failglob |-> FALSE, nullglob |-> FALSE, noglob |-> FALSE, brace_expand |-> TRUE]]
WordsOf(text) ==
  LET braces == brace_expand_if_needed(text).words
      parsed == [k \in DOMAIN braces |-> parse(IF braces[k] = <<>> THEN <<"\"", "\"">> ELSE braces[k])]
  IN FlattenSeq([k \in DOMAIN braces |->
       IF parsed[k].ok THEN full_expand_with_splitting(PiecesOf(parsed[k].v), Environ).words ELSE << <<"error">> >>])

ReadingInit == subject \in {"source", "quote", "braces", "function"} /\ input = Pending

ReadSource ==
  /\ Due("source")
  /\ input' \in Sources
  /\ UNCHANGED subject

QuoteText ==
  /\ Due("quote")
  /\ input' \in QuoteInputs
  /\ UNCHANGED subject

ExpandBraces ==
  /\ Due("braces")
  /\ input' \in BraceInputs
  /\ UNCHANGED subject

ExportFunction ==
  /\ Due("function")
  /\ input' \in ExportedFunctions
  /\ UNCHANGED subject

ReadingNext == ReadSource \/ QuoteText \/ ExpandBraces \/ ExportFunction

(* What the algorithm at work is to make of its input, stated of the input. *)
Given(s, in, Holds(_)) == Ran(s) => Holds(in)

(***************************************************************************)
(* The tokens of a source are those it is written with: a comment is none, *)
(* and the body of every here-document ends at its own tag, however many   *)
(* are due on the line, and stands where its operator does.  Claimed where *)
(* no expansion with brackets follows a here-document on its line.         *)
(***************************************************************************)
TokensAsWritten(source) == uncached_tokenize_str(SourceText(source)) = [error |-> "", tokens |-> SourceTokens(source)]

Bracketed(item) == item.op = "word" /\ Len(item.text) > 1 /\ item.text[1] = "$" /\ item.text[2] \in {"(", "{", "["}
Apart(source) ==
  \A l \in DOMAIN source.lines : \A j, k \in DOMAIN source.lines[l] :
    ~(j < k /\ source.lines[l][j].op = "here" /\ Bracketed(source.lines[l][k]))
ReadsAsWritten(source) == Apart(source) => TokensAsWritten(source)

(***************************************************************************)
(* A command substitution is one word, and the program in it has the tokens *)
(* it has alone.  Claimed where the grammar of words sees no parenthesis or *)
(* quote in a comment or here-document and blanks are single.               *)
(***************************************************************************)
Opaque(text) == \E k \in DOMAIN text : text[k] \in {")", "(", "\"", "'"}
KeepsItsTokens(text) ==
  LET outer == uncached_tokenize_str(<<"$", "(">> \o text \o <<")">>)
      pieces == parse(outer.tokens[1].s).v
  IN /\ Len(outer.tokens) = 1
     /\ Len(pieces) = 1 /\ pieces[1].op = "command"
     /\ uncached_tokenize_str(pieces[1].text) = uncached_tokenize_str(text)
IsPlain(source) ==
  /\ Len(source.gap) = 1 /\ Apart(source)
  /\ \A l \in DOMAIN source.lines : \A k \in DOMAIN source.lines[l] :
       LET item == source.lines[l][k]
       IN ~(item.op = "comment" /\ Opaque(item.text)) /\ \A j \in DOMAIN item.body : ~Opaque(item.body[j])
PlainKeepsItsTokens(source) == IsPlain(source) => KeepsItsTokens(SourceText(source))

(***************************************************************************)
(* The tokens of a program are those it is written with, alone and inside a *)
(* command substitution.                                                    *)
(***************************************************************************)
SourcesReadAsWritten ==
  [][Given("source", input', ReadsAsWritten) /\ Given("source", input', PlainKeepsItsTokens)]_vars

(***************************************************************************)
(* What quoting writes for a value, read as a program and expanded, is one  *)
(* word with that value.  (Not where it starts with ~ or #, they are left bare.)     *)
(***************************************************************************)
ReadsBack(in, text) ==
  /\ uncached_tokenize_str(text) = [error |-> "", tokens |-> <<Token("word", text)>>]
  /\ WordsOf(text) = <<in.value>>
QuotedReadsBack(in) ==
  ~(in.value # <<>> /\ in.value[1] \in {"~", "#"}) => ReadsBack(in, quote(in.value, in.options))
QuotedTextReadsBack ==
  [][Given("quote", input', QuotedReadsBack)]_vars

(***************************************************************************)
(* Brace expansion gives the product of the alternatives in the order they  *)
(* are written, numbers padded as their own bounds are.  (Not where an      *)
(* alternative holds a brace of its own that begins no expression.)         *)
(***************************************************************************)
RECURSIVE LoneBraces(_)
LoneBraces(nodes) ==
  \E k \in DOMAIN nodes :
    \/ \E i \in DOMAIN nodes[k].text : nodes[k].text[i] \in {"{", "}"}
    \/ \E j \in DOMAIN nodes[k].kids : LoneBraces(nodes[k].kids[j])
ExpandsAsWritten(tree) ==
  ~(\E k \in DOMAIN tree : \E j \in DOMAIN tree[k].kids : LoneBraces(tree[k].kids[j])) =>
    brace_expand_if_needed(BraceText(tree)) = [words |-> BraceWords(tree), err |-> FALSE]
BracesExpandAsWritten ==
  [][Given("braces", input', ExpandsAsWritten)]_vars

(***************************************************************************)
(* A function exported to a child process is, there, the function it is     *)
(* here: its body is read back from its printed form as the same tree, with *)
(* every list, separator, redirection, test and clause in its place.  Not   *)
(* for the bodies whose form says something else (PrintsPlainly).           *)
(***************************************************************************)
(* What a child process makes of a function the shell exports to it.        *)
Exported(body) == Cmd!define_func_from_str(Cmd!ExportedText(body))
IsThat(body, read) == read.ok /\ read.v = body
FunctionReadsBack(body) == Cmd!PrintsPlainly(body) => IsThat(body, Exported(body))
ExportedFunctionsReadBack ==
  [][Given("function", input', FunctionReadsBack)]_vars
===============================================================================
