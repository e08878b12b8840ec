------------------------------ MODULE Variables ------------------------------
(***************************************************************************)
(* One shell variable and what assignments make of it                      *)
(* (src/src/engine/variables.rs).  A value is a sequence of tokens: the    *)
(* empty string is << >>, `x=$x$y` is concatenation.  Subscripts are       *)
(* integers; those of an associative array are their texts.  The           *)
(* attributes that rewrite values (-i -l -u -c) and dynamic variables are  *)
(* not here.                                                               *)
(***************************************************************************)
EXTENDS Integers, Sequences, SequencesExt, FiniteSetsExt, Functions

NoKey == -99

(* The texts that are no numbers are one subscript of associative arrays. *)
OtherKey == 9

(* The kinds are untyped, string, indexed and assoc; a variable that is *)
(* declared but not set has one too, of which string is not one.        *)
Variable(kind, set, elems) ==
  [kind |-> kind, set |-> set, elems |-> elems,
   readonly |-> FALSE, exported |-> FALSE, nameref |-> FALSE]

(* A string has one element; what is not set has none. *)
IsVariable(v) ==
  /\ DOMAIN v = {"kind", "set", "elems", "readonly", "exported", "nameref"}
  /\ v.kind \in {"untyped", "string", "indexed", "assoc"}
  /\ {v.set, v.readonly, v.exported, v.nameref} \subseteq BOOLEAN
  /\ IF v.set THEN v.kind # "untyped" /\ (v.kind = "string" => DOMAIN v.elems = {0})
     ELSE v.kind # "string" /\ v.elems = << >>

Unset(kind) == Variable(kind, FALSE, << >>)

Scalar(value) == [array |-> FALSE, value |-> value]

Array(items) == [array |-> TRUE, items |-> items]

Ok(var) == [var |-> var, ok |-> TRUE]

Err(var) == [var |-> var, ok |-> FALSE]

Holding(var, kind, elems) ==
  [var EXCEPT !.kind = kind, !.set = TRUE, !.elems = elems]

Only(key, value) == [k \in {key} |-> value]

With(elems, key, value) ==
  [k \in DOMAIN elems \union {key} |-> IF k = key THEN value ELSE elems[k]]

Text(elems, key) == IF key \in DOMAIN elems THEN elems[key] ELSE << >>

(* What `$name` shows, without following namerefs. *)
try_get_cow_str(var) == Text(var.elems, 0)

-----------------------------------------------------------------------------
(* A subscript that does not parse as u64, a negative one, counts as zero. *)
update_indexed_array_from_literals(existing, items) ==
  FoldLeft(LAMBDA acc, item :
             LET key == IF item[1] = NoKey THEN acc.next
                        ELSE IF item[1] < 0 THEN 0 ELSE item[1]
             IN [elems |-> With(acc.elems, key, item[2]), next |-> key + 1],
           [elems |-> existing,
            next |-> IF existing = << >> THEN 0 ELSE Max(DOMAIN existing) + 1],
           items).elems

(***************************************************************************)
(* Items without a subscript are keys and values in turn; a key without a  *)
(* value gets the empty string, a subscript after it is an error that      *)
(* keeps what was inserted before.                                         *)
(***************************************************************************)
update_associative_array_from_literals(existing, items) ==
  LET walk == FoldLeft(LAMBDA acc, item :
                IF ~acc.ok THEN acc
                ELSE IF acc.pending
                THEN IF item[1] # NoKey THEN [acc EXCEPT !.ok = FALSE]
                     ELSE [acc EXCEPT !.pending = FALSE, !.elems = With(@, OtherKey, item[2])]
                ELSE IF item[1] # NoKey
                THEN [acc EXCEPT !.elems = With(@, item[1], item[2])]
                ELSE [acc EXCEPT !.pending = TRUE],
              [elems |-> existing, pending |-> FALSE, ok |-> TRUE], items)
  IN IF walk.ok /\ walk.pending THEN [walk EXCEPT !.elems = With(@, OtherKey, << >>)] ELSE walk

(* A negative subscript counts back from one past the largest. *)
get_key_for_indexed_array(elems, index) ==
  IF index >= 0 THEN index
  ELSE IF elems = << >> \/ Max(DOMAIN elems) + 1 + index < 0 THEN NoKey
  ELSE Max(DOMAIN elems) + 1 + index

convert_to_indexed_array(var) ==
  CASE var.set /\ var.kind = "indexed" -> Ok(var)
    [] var.set /\ var.kind = "assoc" -> Err(var)
    [] OTHER -> Ok(Holding(var, "indexed", Only(0, try_get_cow_str(var))))

convert_to_associative_array(var) ==
  CASE var.set /\ var.kind = "assoc" -> Ok(var)
    [] var.set /\ var.kind = "indexed" -> Err(var)
    [] OTHER -> Ok(Holding(var, "assoc", Only(0, try_get_cow_str(var))))

(* The empty array that an unset variable becomes. *)
EmptyArray(var) ==
  Holding(var, IF var.kind = "assoc" THEN "assoc" ELSE "indexed", << >>)

AssignedUnchecked(var, index, value, append) ==
  Ok([var EXCEPT !.elems = With(@, index, value)])

(***************************************************************************)
(* The variable is made an array first: when the subscript turns out to be *)
(* out of range it stays one.                                              *)
(***************************************************************************)
assign_at_index(var, index, value, append) ==
  IF var.readonly THEN Err(var)
  ELSE LET array == IF ~var.set THEN EmptyArray(var)
                    ELSE IF var.kind = "string" THEN convert_to_indexed_array(var).var
                    ELSE var
           key == IF array.kind = "assoc" THEN index
                  ELSE get_key_for_indexed_array(array.elems, index)
           new == IF append THEN Text(array.elems, key) \o value ELSE value
       IN IF key = NoKey THEN Err(array)
          ELSE Ok([array EXCEPT !.elems = With(@, key, new)])

AssignArray(var, items, append) ==
  LET existing == IF append THEN var.elems ELSE << >>
  IN
  IF var.kind = "assoc"
  THEN LET made == update_associative_array_from_literals(existing, items)
       IN IF made.ok THEN Ok(Holding(var, "assoc", made.elems))
          \* Appending inserts in place, a whole new value is dropped.
          ELSE Err(IF append THEN [var EXCEPT !.elems = made.elems] ELSE var)
  ELSE Ok(Holding(var, "indexed", update_indexed_array_from_literals(existing, items)))

(* What `+=` fills in before it appends. *)
Prepared(var, literal) ==
  CASE ~var.set /\ (literal.array \/ var.kind # "untyped") -> EmptyArray(var)
    [] ~var.set /\ ~literal.array /\ var.kind = "untyped" -> Holding(var, "string", Only(0, << >>))
    [] var.set /\ var.kind = "string" /\ literal.array -> convert_to_indexed_array(var).var
    [] OTHER -> var

assign(var, literal, append) ==
  IF var.readonly THEN Err(var)
  ELSE LET old == IF append THEN Prepared(var, literal) ELSE var
       IN CASE literal.array -> AssignArray(old, literal.items, append)
            [] ~literal.array /\ old.kind \in {"indexed", "assoc"} ->
                 assign_at_index(old, 0, literal.value, append)
            [] OTHER ->
                 Ok(Holding(old, "string",
                      Only(0, IF append THEN Text(old.elems, 0) \o literal.value
                              ELSE literal.value)))

(* Nothing here looks whether the variable is readonly. *)
unset_index(var, index) ==
  LET key == IF var.kind = "assoc" THEN index
             ELSE get_key_for_indexed_array(var.elems, index)
  IN CASE var.kind \in {"untyped", "string"} -> Err(var)
       [] var.kind = "indexed" /\ var.set /\ key = NoKey -> Err(var)
       [] OTHER -> Ok([var EXCEPT !.elems = Restrict(@, DOMAIN @ \ {key})])

=============================================================================
