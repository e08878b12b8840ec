------------------------------- MODULE Tokenizer -------------------------------
(***************************************************************************)
(* Breaking the text of a program into operators and words, with the       *)
(* bodies of its here-documents put where their operators are.             *)
(*                                                                         *)
(* A text is a sequence of one-character strings.  `t` is the tokenizer    *)
(* (what it has still to read and its state between tokens), `st` the      *)
(* token being read.                                                       *)
(***************************************************************************)
EXTENDS Naturals, Sequences, SequencesExt

CONSTANTS
  MaxNesting,   \* MAX_NESTING_DEPTH
  UsizeModulus  \* the counter of arithmetic contexts wraps here (2^64)

Backquote == "backquote"   \* this character cannot stand in a string here
Blanks == {" ", "\t"}
Quotes == {"\\", "'", "\""}
OperatorStarts == {"&", "(", ")", ";", "\n", "|", "<", ">"}
Operators == {<<c>> : c \in OperatorStarts} \cup
  {<<"&", "&">>, <<";", ";">>, <<"|", "|">>, <<">", "|">>, <<"<", "<">>, <<">", ">">>, <<"<", "&">>,
   <<">", "&">>, <<"<", "<", "-">>, <<"<", ">">>, <<"<", "<", "<">>, <<"&", ">">>, <<"&", ">", ">">>,
   <<";", ";", "&">>, <<";", "&">>, <<"|", "&">>}
GlobStarts == {"@", "!", "?", "+", "*"}

Token(kind, s) == [kind |-> kind, s |-> s]
TokenizeResult(reason, token) == [reason |-> reason, token |-> token]
Blank(c) == IF c = " " THEN "blank" ELSE "tab"
WithoutBodies == {"body start", "end tag"}
OfHereDocument == {"body start", "body end", "end tag"}
Errors == {"escape", "ansi", "single", "double", "backquote", "group", "variable", "expansion",
           "here-documents", "here tag", "nesting"}
Failed(r) == r.reason \in Errors
Error(t, e) == [t |-> t, r |-> TokenizeResult(e, <<>>)]

NoHere == [op |-> "none", tabs |-> FALSE, operator |-> <<>>]
Tokenizer(text) == [text |-> text, here |-> NoHere, tags |-> <<>>, queued |-> <<>>, arith |-> 0]
NoToken == [s |-> <<>>, operator |-> FALSE, escape |-> FALSE, quote |-> "none"]

HasSuffix(s, u) == Len(u) <= Len(s) /\ SubSeq(s, Len(s) - Len(u) + 1, Len(s)) = u
Unquoted(st) == ~st.escape /\ st.quote = "none"
Add(st, c) == [st EXCEPT !.s = Append(@, c)]
AddAll(st, s) == [st EXCEPT !.s = @ \o s]
Beyond(t, n) == [t EXCEPT !.text = SubSeq(@, n + 1, Len(@))]
Lowered(n) == (n + UsizeModulus - 1) % UsizeModulus
PushLast(tags, r) == [tags EXCEPT ![Len(tags)].after = Append(@, r)]

(* unquote_str, from position k in a mode.                                 *)
RECURSIVE UnquotedFrom(_, _, _)
UnquotedFrom(s, k, mode) ==
  LET c == s[k]
      next == IF k < Len(s) THEN s[k + 1] ELSE ""
      Change(m) == UnquotedFrom(s, k + 1, m)
      Keep(u, n) == u \o UnquotedFrom(s, k + n, mode)
  IN IF k > Len(s) THEN <<>>
     ELSE IF mode = "single" THEN IF c = "'" THEN Change("none") ELSE Keep(<<c>>, 1)
     ELSE IF c = "\"" THEN Change(IF mode = "double" THEN "none" ELSE "double")
     ELSE IF c = "'" /\ mode = "none" THEN Change("single")
     ELSE IF c # "\\" \/ next = "" \/ (mode = "double" /\ next \notin {"$", Backquote, "\"", "\\", "\n"}) THEN Keep(<<c>>, 1)
     ELSE IF next = "\n" THEN Keep(<<>>, 2)
     ELSE Keep(<<next>>, 2)
unquote_str(s) == UnquotedFrom(s, 1, "none")

TagText(tag) == IF tag.quoted THEN unquote_str(tag.tag) ELSE tag.tag

---------------------------------------------------------------------------
(* The end of a token for a reason: what it becomes, by the state of the   *)
(* here-documents.  `r` is <<>> where the tokenizer reads on.              *)
delimit_current_token(t, st, reason) ==
  LET token == <<Token(IF st.operator THEN "operator" ELSE "word", st.s)>>
      own == TokenizeResult(reason, token)
      ReadOn(t2) == [t |-> t2, st |-> NoToken, r |-> <<>>]
      tag == t.tags[1]
      line == st.s = <<"\n">>
  IN IF st.s = <<>> /\ reason # "body end" THEN [t |-> t, st |-> st, r |-> <<TokenizeResult(reason, <<>>)>>]
     ELSE IF t.here.op = "next is tag" THEN ReadOn([t EXCEPT !.here = [@ EXCEPT !.op = "tag", !.operator = <<own>>]])
     ELSE IF t.here.op = "tag" /\ line THEN [t |-> t, st |-> st, r |-> <<TokenizeResult("here tag", <<>>)>>]
     ELSE IF t.here.op = "tag" THEN
       LET name == IF st.s[1] \in Blanks THEN Tail(st.s) ELSE st.s
       IN ReadOn([t EXCEPT !.here = [NoHere EXCEPT !.op = "next line"],
                           !.tags = Append(@, [tag |-> Append(name, "\n"), quoted |-> \E k \in DOMAIN name : name[k] \in Quotes,
                                               tabs |-> t.here.tabs, tokens |-> t.here.operator \o <<own>>, after |-> <<>>])])
     ELSE IF t.here.op = "next line" THEN
       ReadOn([t EXCEPT !.here.op = IF line THEN "bodies" ELSE "next line", !.tags = PushLast(@, own)])
     ELSE IF t.here.op = "bodies" THEN
       ReadOn([t EXCEPT !.here.op = IF Len(t.tags) = 1 THEN "none" ELSE "bodies",
                        !.tags = Tail(@),
                        !.queued = @ \o tag.tokens
                          \o <<TokenizeResult("body start", <<>>), own,
                               TokenizeResult("end tag", <<Token("word", Front(TagText(tag)))>>)>> \o tag.after])
     ELSE [t |-> t, st |-> NoToken, r |-> <<own>>]

EndsBodyAnywhere(t, st, newline) ==
  t.tags # <<>> /\ HasSuffix(st.s, IF newline THEN TagText(t.tags[1]) ELSE Front(TagText(t.tags[1])))
(* The tag of the first here-document ends what was read: the body is done. *)
EndsBody(t, st, newline) ==
  /\ t.tags # <<>>
  /\ LET end == IF newline THEN TagText(t.tags[1]) ELSE Front(TagText(t.tags[1]))
         body == SubSeq(st.s, 1, Len(st.s) - Len(end))
     IN HasSuffix(st.s, end) /\ (body = <<>> \/ Last(body) = "\n")
WithoutTag(t, st, newline) ==
  [st EXCEPT !.s = SubSeq(@, 1, Len(@) - Len(TagText(t.tags[1])) + (IF newline THEN 0 ELSE 1))]

(* The number of characters up to the closing backquote, 0 if there is none. *)
RECURSIVE BackquoteEnd(_, _, _)
BackquoteEnd(s, k, escaped) ==
  IF k > Len(s) THEN 0
  ELSE IF ~escaped /\ s[k] = Backquote THEN k
  ELSE BackquoteEnd(s, k + 1, ~escaped /\ s[k] = "\\")

(* The same for the parenthesis that closes an extended glob; more than   *)
(* the length of the text where they are nested too deep.                 *)
RECURSIVE GroupEnd(_, _, _, _)
GroupEnd(s, k, open, quote) ==
  LET c == s[k] IN
  IF k > Len(s) THEN 0
  ELSE IF quote = "'" THEN GroupEnd(s, k + 1, open, IF c = "'" THEN "" ELSE quote)
  ELSE IF c = "\\" THEN IF k = Len(s) THEN 0 ELSE GroupEnd(s, k + 2, open, quote)
  ELSE IF quote = "\"" THEN GroupEnd(s, k + 1, open, IF c = "\"" THEN "" ELSE quote)
  ELSE IF c \in {"'", "\""} THEN GroupEnd(s, k + 1, open, c)
  ELSE IF c = "(" THEN IF open = MaxNesting THEN MaxNesting + Len(s) ELSE GroupEnd(s, k + 1, open + 1, quote)
  ELSE IF c = ")" /\ open = 1 THEN k
  ELSE GroupEnd(s, k + 1, IF c = ")" THEN open - 1 ELSE open, quote)

(* What the end of an operator says of the text after it: a here-document  *)
(* tag comes next, or an arithmetic context begins or ends.                *)
AfterOperator(t, st) ==
  LET c == t.text[1] IN
  IF t.arith > 0 THEN IF st.s = <<")">> /\ c = ")" THEN [t EXCEPT !.arith = @ - 1] ELSE t
  ELSE IF st.s \in {<<"<", "<">>, <<"<", "<", "-">>} THEN [t EXCEPT !.here = [NoHere EXCEPT !.op = "next is tag", !.tabs = Len(st.s) = 3]]
  ELSE IF st.s = <<"(">> /\ c = "(" THEN [t EXCEPT !.arith = @ + 1]
  ELSE t

NewlyQuotes(st, c) ==
  /\ ~st.escape
  /\ CASE st.quote \in {"double", "ansi"} -> c = "\\"
       [] st.quote = "single" -> FALSE
       [] OTHER -> c \in Quotes

CommentLength(s) == CHOOSE n \in 0..Len(s) : (n = Len(s) \/ s[n + 1] = "\n") /\ \A k \in 1..n : s[k] # "\n"

---------------------------------------------------------------------------
RECURSIVE Scan(_, _, _), Nested(_, _, _, _)

(* `how` has the character to stop before (<<>>: none), whether spaces       *)
(* count, and how deep the constructs around are.                           *)
How(until, space, depth) == [until |-> until, space |-> space, depth |-> depth]
Char1(t) == IF t.text = <<>> THEN "" ELSE t.text[1]
Char2(t) == IF Len(t.text) < 2 THEN "" ELSE t.text[2]
Char3(t) == IF Len(t.text) < 3 THEN "" ELSE t.text[3]
TakeAll(t, st, how, n) == Scan(Beyond(t, n), AddAll(st, SubSeq(t.text, 1, n)), how)
Take(t, st, how) == TakeAll(t, st, how, 1)

(* The token ends, and the next begins where it was one of a here-document. *)
Delimit(t, st, how, reason) ==
  LET d == delimit_current_token(t, st, reason)
  IN IF d.r = <<>> THEN Scan(d.t, d.st, how) ELSE [t |-> d.t, r |-> d.r[1]]

AtEndOfInput(t, st, how) ==
  IF st.escape THEN Error(t, "escape")
  ELSE IF st.quote # "none" THEN Error(t, st.quote)
  ELSE IF t.here.op = "none" THEN Delimit(t, st, how, "end")
  ELSE IF EndsBody(t, st, FALSE) THEN Delimit(t, WithoutTag(t, st, FALSE), how, "body end")
  ELSE Error(t, "here-documents")

InHereDocument(t, st, how) ==
  LET c == Char1(t)
  IN IF t.tags[1].tabs /\ c = "\t" /\ (st.s = <<>> \/ Last(st.s) = "\n") THEN Scan(Beyond(t, 1), st, how)
     ELSE IF c = "\n" /\ EndsBody(t, Add(st, c), TRUE) THEN Delimit(Beyond(t, 1), WithoutTag(t, Add(st, c), TRUE), how, "body end")
     ELSE Take(t, st, how)

InOperator(t, st, how) ==
  IF Append(st.s, Char1(t)) \in Operators THEN Take(t, st, how)
  ELSE Delimit(AfterOperator(t, st), st, how, IF st.s = <<"\n">> THEN "newline" ELSE "operator end")

(* A backslash or a quote that counts; a backslash and newline are nothing. *)
StartsQuote(t, st, how) ==
  LET c == Char1(t)
      kind == IF c = "\"" THEN "double" ELSE IF HasSuffix(st.s, <<"$">>) THEN "ansi" ELSE "single"
  IN IF c # "\\" THEN Take(t, [st EXCEPT !.quote = kind], how)
     ELSE IF Char2(t) = "\n" THEN Scan(Beyond(t, 2), st, how)
     ELSE Take(t, [st EXCEPT !.escape = TRUE], how)

(* The n characters that open a construct, the construct, and what follows; *)
(* an arithmetic one is counted while it lasts.                             *)
Inside(t, st, how, n, count, arith, brackets) ==
  LET in == Nested([Beyond(t, n) EXCEPT !.arith = IF arith THEN (@ + 1) % UsizeModulus ELSE @], AddAll(st, SubSeq(t.text, 1, n)),
                   [held |-> <<>>, draining |-> FALSE, count |-> count],
                   [opening |-> brackets[1], closing |-> brackets[2], depth |-> how.depth + 1])
  IN IF Failed(in.r) THEN [t |-> in.t, r |-> in.r]
     ELSE Scan([in.t EXCEPT !.arith = IF arith THEN Lowered(@) ELSE @], in.st, how)

ExpansionStart(t, st, how) ==
  LET next == Char2(t)
      double == next = "(" /\ Char3(t) = "("
      end == BackquoteEnd(t.text, 2, FALSE)
  IN IF Char1(t) = Backquote THEN IF end = 0 THEN Error(t, "backquote") ELSE TakeAll(t, st, how, end)
     ELSE IF double THEN Inside(t, st, how, 3, 2, TRUE, <<"(", ")">>)
     ELSE IF next = "(" THEN Inside(t, st, how, 2, 1, FALSE, <<"(", ")">>)
     ELSE IF next = "[" THEN Inside(t, st, how, 2, 1, TRUE, <<"[", "]">>)
     ELSE IF next = "{" THEN Inside(t, st, how, 2, 1, FALSE, <<"", "}">>)
     ELSE Take(t, st, how)

ExtendedGlob(t, st, how) ==
  LET n == GroupEnd(t.text, 2, 1, "")
  IN IF n = 0 THEN Error(t, "group") ELSE IF n > Len(t.text) THEN Error(t, "nesting") ELSE TakeAll(t, st, how, n)

(* What is left delimits a token, or is one more character of it.           *)
Delimits(t, st, how) ==
  LET c == Char1(t)
      started == st.s # <<>>
  IN IF Unquoted(st) /\ c \in OperatorStarts THEN
       IF started THEN Delimit(t, st, how, "operator start") ELSE Take(t, [st EXCEPT !.operator = TRUE], how)
     ELSE IF Unquoted(st) /\ c \in Blanks THEN
       IF started THEN Delimit(Beyond(t, 1), st, how, Blank(c))
       ELSE IF how.space THEN Take(t, st, how) ELSE Scan(Beyond(t, 1), st, how)
     ELSE IF c = "#" /\ ~started /\ how.until # <<"}">> THEN Scan(Beyond(t, CommentLength(t.text)), st, how)
     ELSE Take(t, st, how)

(* One character, or one construct, of the token `st` after another.       *)
Scan(t, st, how) ==
  LET c == Char1(t)
      closes == IF st.quote = "double" THEN "\"" ELSE "'"
  IN IF how.depth > MaxNesting THEN Error(t, "nesting")
     ELSE IF t.queued # <<>> THEN [t |-> [t EXCEPT !.queued = Tail(@)], r |-> t.queued[1]]
     ELSE IF t.text = <<>> THEN AtEndOfInput(t, st, how)
     ELSE IF t.here.op = "bodies" THEN InHereDocument(t, st, how)
     ELSE IF Unquoted(st) /\ how.until = <<c>> THEN Delimit(t, st, how, "closing")
     ELSE IF st.operator THEN InOperator(t, st, how)
     ELSE IF NewlyQuotes(st, c) THEN StartsQuote(t, st, how)
     ELSE IF ~st.escape /\ st.quote # "none" /\ c = closes THEN Take(t, [st EXCEPT !.quote = "none"], how)
     ELSE IF st.escape THEN Take(t, [st EXCEPT !.escape = FALSE], how)
     ELSE IF st.quote \in {"none", "double"} /\ c \in {"$", Backquote} THEN ExpansionStart(t, st, how)
     ELSE IF c = "(" /\ Unquoted(st) /\ st.s # <<>> /\ Last(st.s) \in GlobStarts THEN ExtendedGlob(t, st, how)
     ELSE Delimits(t, st, how)

(* A construct with brackets in a token: its tokens are put together again, *)
(* those of the here-documents of a line after the line's own.             *)
Nested(t, st, n, how) ==
  LET drains == n.draining /\ n.held # <<>>
      got == IF drains THEN [t |-> t, r |-> n.held[1]] ELSE Scan(t, NoToken, How(<<how.closing>>, how.closing # "}", how.depth))
      rest == IF drains THEN [n EXCEPT !.held = Tail(@), !.draining = Len(n.held) > 1] ELSE n
      r == got.r
      Hold(m) == Nested(got.t, st, [m EXCEPT !.held = Append(@, r)], how)
      opened == r.token # <<>> /\ r.token[1] = Token("operator", <<how.opening>>)
      count == rest.count + (IF opened THEN 1 ELSE 0)
      with == AddAll(st, (IF r.token = <<>> THEN <<>> ELSE r.token[1].s)
                         \o CASE r.reason = "body start" -> <<"\n">>
                              [] r.reason = "blank" -> <<" ">>
                              [] r.reason = "tab" -> <<"\t">>
                              [] r.reason = "closing" -> <<got.t.text[1]>>
                              [] OTHER -> <<>>)
      Fails(e) == [t |-> got.t, st |-> st, r |-> TokenizeResult(e, <<>>)]
  IN IF Failed(r) THEN Fails(r.reason)
     ELSE IF ~drains /\ r.reason \in OfHereDocument THEN Hold(rest)
     ELSE IF r.reason = "newline" /\ rest.held # <<>> THEN Hold([rest EXCEPT !.draining = TRUE])
     ELSE IF count > MaxNesting THEN Fails("nesting")
     ELSE IF r.reason = "end" THEN Fails(IF how.closing = "}" THEN "variable" ELSE "expansion")
     ELSE IF r.reason = "closing" /\ count = 1 THEN [t |-> Beyond(got.t, 1), st |-> with, r |-> r]
     ELSE IF r.reason = "closing" THEN Nested(Beyond(got.t, 1), with, [rest EXCEPT !.count = count - 1], how)
     ELSE Nested(got.t, with, [rest EXCEPT !.count = count], how)

RECURSIVE TokensOf(_)
TokensOf(t) ==
  LET got == Scan(t, NoToken, How(<<>>, FALSE, 0))
      rest == TokensOf(got.t)
  IN IF Failed(got.r) THEN [error |-> got.r.reason, tokens |-> <<>>]
     ELSE IF got.r.token # <<>> THEN [rest EXCEPT !.tokens = got.r.token \o @]
     ELSE IF got.r.reason = "end" THEN [error |-> "", tokens |-> <<>>]
     ELSE rest
uncached_tokenize_str(text) == TokensOf(Tokenizer(text))
===============================================================================
