----------------------------- MODULE SyntaxReference -----------------------------
(***************************************************************************)
(* What sources and words with braces mean, from what they were written of. *)
(***************************************************************************)
EXTENDS Integers, Tokenizer, TLC

(* What a source is: its text and the tokens it is made of.                 *)
Item(op, text) == [op |-> op, text |-> text, body |-> <<>>, tabs |-> FALSE]
Line == <<"\n">>
BodyText(item, tab) ==
  FlattenSeq([k \in DOMAIN item.body |-> (IF item.tabs /\ tab THEN <<"\t">> ELSE <<>>) \o item.body[k] \o Line])
Bare(tag) == SelectSeq(tag, LAMBDA c : c \notin Quotes)
Redirector(item) == IF item.tabs THEN <<"<", "<", "-">> ELSE <<"<", "<">>
ItemText(item, gap) ==
  CASE item.op = "here" -> Redirector(item) \o Tail(gap) \o item.text
    [] item.op = "comment" -> <<"#">> \o item.text
    [] OTHER -> item.text
HereText(item) == IF item.op # "here" THEN <<>>
                  ELSE BodyText(item, TRUE) \o (IF item.tabs THEN <<"\t">> ELSE <<>>) \o Bare(item.text) \o Line
SourceText(source) ==
  FlattenSeq([l \in DOMAIN source.lines |->
    LET line == source.lines[l]
    IN FlattenSeq([k \in DOMAIN line |-> (IF k = 1 THEN <<>> ELSE source.gap) \o ItemText(line[k], source.gap)]) \o Line
         \o FlattenSeq([k \in DOMAIN line |-> HereText(line[k])])])
ItemTokens(item) ==
  CASE item.op = "here" -> <<Token("operator", Redirector(item)), Token("word", item.text), Token("word", BodyText(item, FALSE)),
                             Token("word", Bare(item.text))>>
    [] item.op = "comment" -> <<>>
    [] OTHER -> <<Token(item.op, item.text)>>
SourceTokens(source) ==
  FlattenSeq([l \in DOMAIN source.lines |->
    FlattenSeq([k \in DOMAIN source.lines[l] |-> ItemTokens(source.lines[l][k])]) \o <<Token("operator", Line)>>])

---------------------------------------------------------------------------
(* A word with braces as a tree: a sequence of plain text, choices among     *)
(* such sequences, and ranges of numbers (their bounds as digits).          *)
BareText(text) == [op |-> "plain", text |-> text, kids |-> <<>>, ends |-> <<>>, step |-> 1]
Alternatives(kids) == [op |-> "choice", text |-> <<>>, kids |-> kids, ends |-> <<>>, step |-> 1]
NumberRange(from, to, step) == [op |-> "range", text |-> <<>>, kids |-> <<>>, ends |-> <<from, to>>, step |-> step]
DecimalValue(s) == FoldLeft(LAMBDA n, c : 10 * n + CHOOSE d \in 0..9 : ToString(d) = c, 0, s)

RECURSIVE BraceText(_)
BraceText(word) ==
  FlattenSeq([k \in DOMAIN word |->
    LET node == word[k]
        members == FlattenSeq([j \in DOMAIN node.kids |-> (IF j = 1 THEN <<>> ELSE <<",">>) \o BraceText(node.kids[j])])
        step == IF node.step = 1 THEN <<>> ELSE <<".", ".", ToString(node.step)>>
    IN CASE node.op = "plain" -> node.text
         [] node.op = "choice" -> <<"{">> \o members \o <<"}">>
         [] node.op = "range" -> <<"{">> \o node.ends[1] \o <<".", ".">> \o node.ends[2] \o step \o <<"}">>])

(* The numbers of a range, in order, each in at least the width its bounds  *)
(* are padded to.                                                          *)
Widened(s) == Len(s) > 1 /\ s[1] = "0"
RECURSIVE Numeral(_, _)
Numeral(n, width) ==
  IF n < 10 /\ width <= 1 THEN <<ToString(n)>> ELSE Append(Numeral(n \div 10, width - 1), ToString(n % 10))
RangeWords(node) ==
  LET a == DecimalValue(node.ends[1])
      b == DecimalValue(node.ends[2])
      width == IF ~Widened(node.ends[1]) /\ ~Widened(node.ends[2]) THEN 0
               ELSE IF Len(node.ends[1]) > Len(node.ends[2]) THEN Len(node.ends[1]) ELSE Len(node.ends[2])
      up == a <= b
      hits == {n \in (IF up THEN a..b ELSE b..a) : (IF up THEN n - a ELSE a - n) % node.step = 0}
      Earlier(n) == {m \in hits : IF up THEN m < n ELSE m > n}
  IN [k \in 1..Cardinality(hits) |-> Numeral(CHOOSE n \in hits : Cardinality(Earlier(n)) = k - 1, width)]

RECURSIVE BraceWords(_)
BraceWords(word) ==
  LET node == word[1]
      starts == CASE node.op = "plain" -> <<node.text>>
                  [] node.op = "choice" -> FlattenSeq([j \in DOMAIN node.kids |-> BraceWords(node.kids[j])])
                  [] node.op = "range" -> RangeWords(node)
      ends == BraceWords(Tail(word))
  IN IF word = <<>> THEN << <<>> >>
     ELSE [k \in 1..(Len(starts) * Len(ends)) |-> starts[(k - 1) \div Len(ends) + 1] \o ends[((k - 1) % Len(ends)) + 1]]
==================================================================================
