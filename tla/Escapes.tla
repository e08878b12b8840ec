-------------------------------- MODULE Escapes --------------------------------
(***************************************************************************)
(* Escape sequences and quoting (engine/escape.rs).  Codes is the part of   *)
(* the character table that matters: a byte without a character in it is    *)
(* "#" and its number; so is a Unicode escape, the surrogates included.     *)
(***************************************************************************)
EXTENDS Naturals, Sequences, SequencesExt, TLC

Codes == ("\n" :> 10) @@ ("\t" :> 9) @@ ("\r" :> 13) @@ ("bell" :> 7) @@ ("backspace" :> 8) @@ ("vertical tab" :> 11)
  @@ ("form feed" :> 12) @@ ("esc" :> 27) @@ ("start" :> 1) @@ ("delete" :> 127) @@ ("null" :> 0) @@ ("A" :> 65) @@ ("a" :> 97) @@ ("\\" :> 92)
Chr(n) == LET hits == {c \in DOMAIN Codes : Codes[c] = n} IN IF hits = {} THEN "#" \o ToString(n) ELSE CHOOSE c \in hits : TRUE
Named == [a |-> "bell", b |-> "backspace", e |-> "esc", E |-> "esc", f |-> "form feed", n |-> "\n", r |-> "\r", t |-> "\t",
          v |-> "vertical tab"]
HexDigits == <<"0", "1", "2", "3", "4", "5", "6", "7", "8", "9", "a", "b", "c", "d", "e", "f">>
HexValue(c) == CHOOSE n \in 0..16 : IF n = 16 THEN \A k \in 1..16 : HexDigits[k] # c ELSE HexDigits[n + 1] = c
IsDigit(c, base) == HexValue(c) < base
Value(digits, base) == FoldLeft(LAMBDA n, c : base * n + HexValue(c), 0, digits)

(* The digits from k on, at most `most` of them.                            *)
DigitsFrom(s, k, base, most) ==
  LET Run(n) == k + n - 1 <= Len(s) /\ \A i \in k..(k + n - 1) : IsDigit(s[i], base)
      n == CHOOSE n \in 0..most : Run(n) /\ (n = most \/ ~Run(n + 1))
  IN SubSeq(s, k, k + n - 1)

(* The digits after \x; in ANSI-C mode they may be in braces, where as many  *)
(* as there are count.                                                      *)
RECURSIVE HexScan(_, _, _)
HexScan(s, k, st) ==
  LET c == s[k] IN
  IF k > Len(s) THEN [st EXCEPT !.next = k]
  ELSE IF st.ansi /\ ~st.brace /\ c = "{" THEN HexScan(s, k + 1, [st EXCEPT !.brace = TRUE])
  ELSE IF st.brace /\ c = "}" THEN [st EXCEPT !.next = k + 1]
  ELSE IF IsDigit(c, 16) /\ (IF st.brace THEN ~st.invalid ELSE Len(st.digits) < 2) THEN HexScan(s, k + 1, [st EXCEPT !.digits = Append(@, c)])
  ELSE IF st.brace /\ st.digits = <<>> THEN HexScan(s, k + 1, [st EXCEPT !.invalid = TRUE])
  ELSE [st EXCEPT !.next = k]

(* \c and the character it names, in ANSI-C mode.                           *)
Control(s, k) ==
  IF k > Len(s) THEN [text |-> <<"\\", "c">>, next |-> k]
  ELSE [text |-> <<IF s[k] = "?" THEN "delete" ELSE IF s[k] \in DOMAIN Codes THEN Chr(Codes[s[k]] % 32) ELSE "control " \o s[k]>>,
        next |-> IF s[k] = "\\" /\ k < Len(s) /\ s[k + 1] = "\\" THEN k + 2 ELSE k + 1]

(* The escape after a backslash: its text and what follows; err where a     *)
(* number does not fit a byte.                                              *)
Escape(s, k, ansi) ==
  LET c == s[k]
      Gives1(text, next) == [text |-> text, next |-> next, err |-> FALSE]
      hex == HexScan(s, k + 1, [ansi |-> ansi, brace |-> FALSE, invalid |-> FALSE, digits |-> <<>>, next |-> 0])
      octal == DigitsFrom(s, IF c = "0" THEN k + 1 ELSE k, 8, 3)
      unicode == DigitsFrom(s, k + 1, 16, IF c = "u" THEN 4 ELSE 8)
      itself == <<"\\", c>>
      special == {"\\"} \cup IF ansi THEN {"'", "\"", "?"} ELSE {}
  IN CASE c \in DOMAIN Named -> Gives1(<<Named[c]>>, k + 1)
       [] c \in special -> Gives1(<<c>>, k + 1)
       [] c = "c" -> Control(s, k + 1) @@ [err |-> FALSE]
       [] c = "0" \/ (ansi /\ c \in {"1", "2", "3", "4", "5", "6", "7"}) ->
            [text |-> <<Chr(Value(octal, 8))>>, next |-> k + Len(octal) + (IF c = "0" THEN 1 ELSE 0), err |-> Value(octal, 8) > 255]
       [] c = "x" ->
            Gives1(IF hex.digits # <<>> THEN <<Chr(Value(hex.digits, 16) % 256)>> ELSE IF hex.brace THEN <<"null">> ELSE itself, hex.next)
       [] c \in {"u", "U"} ->
            Gives1(IF unicode = <<>> THEN itself ELSE <<Chr(Value(unicode, 16))>>, k + 1 + Len(unicode))
       [] OTHER -> Gives1(itself, k + 1)

(* [text, on, err]: `on` is FALSE where \c ends all output.                 *)
RECURSIVE ExpandedFrom(_, _, _)
ExpandedFrom(s, k, ansi) ==
  LET one == IF s[k] # "\\" THEN [text |-> <<s[k]>>, next |-> k + 1, err |-> FALSE]
             ELSE IF k = Len(s) THEN [text |-> <<"\\">>, next |-> k + 1, err |-> FALSE]
             ELSE Escape(s, k + 1, ansi)
      rest == ExpandedFrom(s, one.next, ansi)
  IN IF k > Len(s) THEN [text |-> <<>>, on |-> TRUE, err |-> FALSE]
     ELSE IF ~ansi /\ s[k] = "\\" /\ k < Len(s) /\ s[k + 1] = "c" THEN [text |-> <<>>, on |-> FALSE, err |-> FALSE]
     ELSE [rest EXCEPT !.text = one.text \o @, !.err = @ \/ one.err]
UpToNull(s) == LET nulls == {k \in DOMAIN s : s[k] = "null"}
               IN IF nulls = {} THEN s ELSE SubSeq(s, 1, (CHOOSE k \in nulls : \A j \in nulls : k <= j) - 1)
expand_backslash_escapes(s, ansi) ==
  LET all == ExpandedFrom(s, 1, ansi) IN IF ansi THEN [all EXCEPT !.text = UpToNull(@)] ELSE all

---------------------------------------------------------------------------
needs_escaping(c) ==
  c \in {"(", ")", "[", "]", "{", "}", "$", "*", "?", "|", "&", ";", "<", ">", "backquote", "\\", "\"", "!", "^", ",", " ", "'"}
needs_ansi_c_quoting(c) == c \in DOMAIN Codes /\ (Codes[c] < 32 \/ c = "delete")
Prefixed(s, Marked(_)) == FlattenSeq([k \in DOMAIN s |-> IF Marked(s[k]) THEN <<"\\", s[k]>> ELSE <<s[k]>>])
backslash_escape(s) == IF s = <<>> THEN <<"'", "'">> ELSE Prefixed(s, needs_escaping)
double_quote(s) == <<"\"">> \o Prefixed(s, LAMBDA c : c \in {"$", "backquote", "\"", "\\"}) \o <<"\"">>

(* Runs without a single quote are quoted, the quotes between them escaped. *)
ForgetsRuns(s) == <<"'">> \o s \o <<"'">>
single_quote(s) ==
  LET Begins(k) == s[k] # "'" /\ (k = 1 \/ s[k - 1] = "'")
      Finishes(k) == s[k] # "'" /\ (k = Len(s) \/ s[k + 1] = "'")
  IN IF s = <<>> THEN <<"'", "'">>
     ELSE FlattenSeq([k \in DOMAIN s |->
            IF s[k] = "'" THEN <<"\\", "'">>
            ELSE (IF Begins(k) THEN <<"'">> ELSE <<>>) \o <<s[k]>> \o (IF Finishes(k) THEN <<"'">> ELSE <<>>)])
Octal(n) == <<ToString(n \div 64), ToString((n \div 8) % 8), ToString(n % 8)>>
ansi_c_quote(s) ==
  LET names == {c \in DOMAIN Named : c # "e"}
      Name(c) == CHOOSE n \in names : Named[n] = c
      Quoted1(c) == IF \E n \in names : Named[n] = c THEN <<"\\", Name(c)>>
                    ELSE IF c \in {"\\", "'"} THEN <<"\\", c>>
                    ELSE IF needs_ansi_c_quoting(c) THEN <<"\\">> \o Octal(Codes[c]) ELSE <<c>>
  IN <<"$", "'">> \o FlattenSeq([k \in DOMAIN s |-> Quoted1(s[k])]) \o <<"'">>

(* options: always_quote, mode ("single", "double", "backslash"),            *)
(* avoid_ansi_c_quoting_newline.                                            *)
quote(s, options) ==
  IF \E k \in DOMAIN s : needs_ansi_c_quoting(s[k]) /\ ~(options.avoid_ansi_c_quoting_newline /\ s[k] = "\n") THEN ansi_c_quote(s)
  ELSE IF ~options.always_quote /\ s # <<>> /\ \A k \in DOMAIN s : ~needs_escaping(s[k]) THEN s
  ELSE IF options.mode = "backslash" THEN backslash_escape(s)
  ELSE IF options.mode = "single" THEN single_quote(s)
  ELSE double_quote(s)
===============================================================================
