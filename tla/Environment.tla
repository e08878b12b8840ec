----------------------------- MODULE Environment -----------------------------
(***************************************************************************)
(* The variables of a shell: the stack of scopes that functions and        *)
(* commands push, how names and namerefs are looked up in it, and every    *)
(* way the interpreter and the builtins change it                          *)
(* (src/src/engine/env.rs, interp.rs, src/src/builtins/declare.rs,         *)
(* export.rs, unset.rs).  `set -a` is off.                                 *)
(***************************************************************************)
EXTENDS Variables

CONSTANTS
  Names,       \* variable names; a value of that one token can be a target
  Elements,    \* other texts that are targets: token |-> <<name, subscript>>
  Literals,    \* what is assigned
  Subscripts,  \* the subscripts used
  Started,     \* the variables there may be when the execution begins
  MAX_NAMEREF_DEPTH,
  MaxScopes,   \* bound: scopes on the stack
  MaxVariableChanges  \* bound: changes in one execution

VARIABLES
  environment,  \* ShellEnvironment.scopes: [type, map], innermost last
  entry_count,  \* how many entries it says the scopes have
  variable_changes,  \* how many changes were made
  last          \* ghost: "shell", "global", "element" or other, of the last step

environment_vars == <<environment, entry_count, variable_changes, last>>

IsMap(map) == /\ map = [name \in DOMAIN map |-> map[name]]
              /\ DOMAIN map \subseteq Names
              /\ \A name \in DOMAIN map : IsVariable(map[name])

IsScope(scope) ==
  /\ scope = [type |-> scope.type, map |-> scope.map]
  /\ scope.type \in {"global", "local", "command"}
  /\ IsMap(scope.map)

(* A stack of scopes, of which the outermost is global. *)
IsScopes(s) ==
  /\ Len(s) \in Nat \ {0}
  /\ s = [i \in 1 .. Len(s) |-> s[i]]
  /\ s[1].type = "global"
  /\ \A i \in 1 .. Len(s) : IsScope(s[i])

ASSUME EnvironmentAssumption ==
  /\ IsFiniteSet(Names)
  /\ MAX_NAMEREF_DEPTH \in Nat
  /\ \A l \in Literals : l.array \in BOOLEAN
  /\ \A text \in DOMAIN Elements : Elements[text] \in Names \X (Int \ {NoKey})
  /\ \A map \in Started : IsMap(map)

(* What the lookup policies let through. *)
TopLocal(s) == Max({0} \union {i \in DOMAIN s : s[i].type = "local"})

Visible(s, policy) ==
  CASE policy = "anywhere" -> DOMAIN s
    [] policy = "global" -> {i \in DOMAIN s : s[i].type = "global"}
    [] policy = "current local" -> {TopLocal(s)} \ {0}

(* The scope in which a name is found; zero when there is none. *)
At(s, name, policy) ==
  Max({0} \union {i \in Visible(s, policy) : name \in DOMAIN s[i].map})

get(s, name) == At(s, name, "anywhere")

Get(s, i, name) == s[i].map[name]

Put(s, i, name, var) == [s EXCEPT ![i].map = With(@, name, var)]

Without(s, i, name) == [s EXCEPT ![i].map = Restrict(@, DOMAIN @ \ {name})]

-----------------------------------------------------------------------------
(***************************************************************************)
(* Where a nameref leads: a name, perhaps with a subscript, or nowhere.    *)
(* The chain is followed for as long as the limit lets it; one that comes  *)
(* back to a name it met fails, as one that comes to the limit does.       *)
(***************************************************************************)
parse_nameref_target(text) ==
  CASE Len(text) = 1 /\ text[1] \in Names -> <<text[1], NoKey>>
    [] Len(text) = 1 /\ text[1] \in DOMAIN Elements -> Elements[text[1]]
    [] OTHER -> <<>>

Ended(way) == [way EXCEPT !.ends = TRUE]

Followed(s, way) ==
  LET i   == get(s, way.to[1])
      var == Get(s, i, way.to[1])
      target == IF var.kind = "string" THEN parse_nameref_target(Text(var.elems, 0)) ELSE <<>>
  IN IF way.ends \/ i = 0 THEN Ended(way)
     ELSE IF ~var.nameref \/ ~var.set THEN Ended(way)
     ELSE [to |-> target, ends |-> target = <<>> \/ target[2] # NoKey]

Ways(s, name) ==
  LET way[n \in Nat] == IF n = 0 THEN [to |-> <<name, NoKey>>, ends |-> FALSE]
                        ELSE Followed(s, way[n - 1])
  IN way

resolve_target(s, name) ==
  LET way == Ways(s, name)[MAX_NAMEREF_DEPTH]
  IN IF way.ends THEN way.to ELSE <<>>

-----------------------------------------------------------------------------
(* Results: the scopes, the count and whether the operation succeeded.     *)
Now == [s |-> environment, n |-> entry_count, ok |-> TRUE]

Failed(e) == [e EXCEPT !.ok = FALSE]

Stored(e, i, name, made) ==
  [e EXCEPT !.s = Put(e.s, i, name, made.var), !.ok = made.ok]

InnermostScope(s, type) == Max({i \in DOMAIN s : s[i].type = type})

AddedTwice(e, name, var, type) ==
  LET i == InnermostScope(e.s, type)
  IN [s |-> Put(e.s, i, name, var), n |-> e.n + 1, ok |-> TRUE]

(* An entry in the innermost scope of the type, whatever was there. *)
add(e, name, var, type) ==
  LET i == InnermostScope(e.s, type)
  IN [s |-> Put(e.s, i, name, var), ok |-> TRUE,
      n |-> IF name \in DOMAIN e.s[i].map THEN e.n ELSE e.n + 1]

(***************************************************************************)
(* get_mut: the variable to change for a name, after namerefs; one that is *)
(* missing becomes a global without a value.  `at` is its scope, or tells  *)
(* that the name has no variable, or that its nameref leads nowhere or to  *)
(* an element, and then `type` is where the nameref itself is.             *)
(***************************************************************************)
NoVariable == 0

FailedNameref == -1

Present(e, name) ==
  IF get(e.s, name) = 0 THEN add(e, name, Unset("untyped"), "global") ELSE e

MutAt(e, name, i) == [e |-> e, name |-> name, at |-> i, type |-> e.s[i].type]

MutFound(e, name) == MutAt(e, name, get(e.s, name))

MutThrough(e, name, i, target) ==
  CASE i = 0 -> [e |-> e, name |-> name, at |-> NoVariable, type |-> "none"]
    [] i # 0 /\ (target = <<>> \/ target[2] # NoKey) ->
         [MutAt(e, name, i) EXCEPT !.at = FailedNameref]
    [] i # 0 /\ target # <<>> /\ target[2] = NoKey ->
         MutFound(Present(e, target[1]), target[1])

get_mut(e, name) ==
  MutThrough(e, name, get(e.s, name), resolve_target(e.s, name))

Exported(var, export) == [var EXCEPT !.exported = @ \/ export]

(***************************************************************************)
(* An assignment: to what get_mut finds when that is in the scope it is    *)
(* meant for, to a new variable of the assignment's own name otherwise.    *)
(***************************************************************************)
AssignedTo(a, old) ==
  IF a.index # NoKey THEN assign_at_index(old, a.index, a.literal.value, a.append)
  ELSE assign(old, a.literal, a.append)

NewlyAssigned(a) ==
  CASE a.index # NoKey \/ a.literal.array ->
         Holding(Unset("untyped"), "indexed",
           update_indexed_array_from_literals(<< >>,
             IF a.index # NoKey THEN <<<<a.index, a.literal.value>>>> ELSE a.literal.items))
    [] OTHER -> Holding(Unset("untyped"), "string", Only(0, a.literal.value))

StoredAssigned(found, made, export) ==
  Stored(found.e, found.at, found.name,
         [var |-> Exported(made.var, export /\ made.ok), ok |-> made.ok])

AssignThrough(found, a, export, required, creation) ==
  IF found.at # NoVariable /\ (required = "any" \/ found.type = required)
  THEN IF found.at = FailedNameref \/ (a.index # NoKey /\ a.literal.array)
       THEN Failed(found.e)
       ELSE StoredAssigned(found, AssignedTo(a, Get(found.e.s, found.at, found.name)), export)
  ELSE IF a.index # NoKey /\ a.literal.array THEN Failed(found.e)
  ELSE add(found.e, a.name, Exported(NewlyAssigned(a), export), creation)

apply_assignment(e, a, export, required, creation) ==
  AssignThrough(get_mut(e, a.name), a, export, required, creation)

(***************************************************************************)
(* What read, for, getopts and `${x=y}` use.  The policy finds the nameref *)
(* only; the variable it leads to is then looked for anywhere.             *)
(***************************************************************************)
update_or_add_array_element_raw(e, name, index, value) ==
  LET i == get(e.s, name)
  IN IF i # 0
     THEN Stored(e, i, name, assign_at_index(Get(e.s, i, name), index, value, FALSE))
     ELSE add(e, name, assign(Unset("untyped"), Array(<<<<index, value>>>>), FALSE).var, "global")

Updated(e, i, name, made, export) ==
  IF ~made.ok THEN IF i = 0 THEN Failed(e) ELSE Stored(e, i, name, made)
  ELSE IF i = 0 THEN add(e, name, Exported(made.var, export), "global")
  ELSE Stored(e, i, name, Ok(Exported(made.var, export)))

update_or_add_raw(e, i, name, literal, export) ==
  Updated(e, i, name,
    assign(IF i = 0 THEN Unset("untyped") ELSE Get(e.s, i, name), literal, FALSE), export)

UpdateThrough(e, target, literal, export) ==
  CASE target = <<>> -> Failed(e)
    [] target # <<>> /\ target[2] # NoKey ->
         IF literal.array THEN Failed(e)
         ELSE update_or_add_array_element_raw(e, target[1], target[2], literal.value)
    [] target # <<>> /\ target[2] = NoKey ->
         update_or_add_raw(e, get(e.s, target[1]), target[1], literal, export)

update_or_add(e, name, literal, export) ==
  UpdateThrough(e, resolve_target(e.s, name), literal, export)

update_or_add_array_element(e, name, index, value) ==
  LET target == resolve_target(e.s, name)
  IN IF target = <<>> THEN Failed(e)
     ELSE IF target[2] # NoKey THEN Failed(e)
     ELSE update_or_add_array_element_raw(e, target[1], index, value)

Uncovered(e, name) ==
  LET i == get(e.s, name)
  IN IF i = 0 THEN e
     ELSE IF Get(e.s, i, name).readonly THEN Failed(e)
     ELSE [e EXCEPT !.n = @ - 1, !.s = Without(e.s, i, name)]

(***************************************************************************)
(* In the function that is running, an unset local leaves a placeholder    *)
(* that still hides the variables below; elsewhere the entry goes.         *)
(***************************************************************************)
unset_raw(e, name) ==
  LET i == get(e.s, name)
  IN IF i = 0 THEN e
     ELSE IF Get(e.s, i, name).readonly THEN Failed(e)
     ELSE IF i = TopLocal(e.s)
     THEN [e EXCEPT !.s = Put(e.s, i, name, Unset("untyped"))]
     ELSE [e EXCEPT !.n = @ - 1, !.s = Without(e.s, i, name)]

unset_index_raw(e, name, index) ==
  LET i == get(e.s, name)
  IN IF i = 0 THEN e ELSE Stored(e, i, name, unset_index(Get(e.s, i, name), index))

unset(e, name) ==
  LET target == resolve_target(e.s, name)
  IN IF target = <<>> THEN Failed(e)
     ELSE IF target[2] # NoKey THEN unset_index_raw(e, target[1], target[2])
     ELSE unset_raw(e, target[1])

UnsetElement(e, name, index) ==
  LET target == resolve_target(e.s, name)
  IN IF target = <<>> THEN Failed(e)
     ELSE IF target[2] # NoKey THEN Failed(e)
     ELSE unset_index_raw(e, target[1], index)

-----------------------------------------------------------------------------
(***************************************************************************)
(* declare, local and readonly: `d` has the verb, the flags and what is    *)
(* assigned, if anything.  Attributes are set one by one on the variable   *)
(* itself, so a step that fails leaves those before it.                    *)
(***************************************************************************)
InFunction == TopLocal(environment) # 0

CreatesLocal(d) == d.verb = "local" \/ (d.verb = "declare" /\ InFunction /\ ~d.global)

declaration_lookup(d) ==
  IF d.global THEN "global" ELSE IF CreatesLocal(d) THEN "current local" ELSE "anywhere"

Converted(d, var) ==
  CASE d.type = "assoc" -> convert_to_associative_array(var)
    [] d.type = "indexed" -> convert_to_indexed_array(var)
    [] OTHER -> Ok(var)

Before(d, var) ==
  [var EXCEPT !.nameref = IF d.nameref = "keep" THEN @ ELSE d.nameref = "on",
              !.exported = @ \/ d.export]

After(d, var) ==
  CASE d.verb = "readonly" \/ d.readonly = "on" -> Ok([var EXCEPT !.readonly = TRUE])
    [] d.verb # "readonly" /\ d.readonly = "off" -> IF var.readonly THEN Err(var) ELSE Ok(var)
    [] OTHER -> Ok(var)

Initialised(d, made, append) ==
  IF ~made.ok \/ ~d.assigns THEN made ELSE assign(made.var, d.literal, append)

Finished(d, made) == IF made.ok THEN After(d, made.var) ELSE made

Declared(d, conv) ==
  Finished(d, Initialised(d, IF conv.ok THEN Ok(Before(d, conv.var)) ELSE conv, d.append))

NewlyDeclared(d) ==
  LET kind == IF d.type # "keep" THEN d.type
              ELSE IF d.assigns /\ d.literal.array THEN "indexed" ELSE "untyped"
  IN Finished(d, Initialised(d, Ok(Before(d, Unset(kind))), FALSE))

AddedDeclared(e, d, new) ==
  IF ~new.ok THEN Failed(e)
  ELSE add(e, d.name, new.var, IF CreatesLocal(d) THEN "local" ELSE "global")

DeclaredAt(e, d, i) ==
  IF i # 0 THEN Stored(e, i, d.name, Declared(d, Converted(d, Get(e.s, i, d.name))))
  ELSE AddedDeclared(e, d, NewlyDeclared(d))

process_declaration(e, d) == DeclaredAt(e, d, At(e.s, d.name, declaration_lookup(d)))

(* `export name` and `export -n name`. *)
ExportName(e, name, on) ==
  LET found == get_mut(e, name)
  IN CASE found.at = NoVariable ->
            IF on THEN add(e, name, Exported(Unset("untyped"), TRUE), "global") ELSE e
       [] found.at = FailedNameref -> found.e
       [] OTHER -> Stored(found.e, found.at, found.name,
                     Ok([Get(found.e.s, found.at, found.name) EXCEPT !.exported = on]))

-----------------------------------------------------------------------------
Step(e, op) ==
  /\ environment' = e.s
  /\ entry_count' = e.n
  /\ variable_changes' = variable_changes + 1
  /\ last' = op

PushedScope(e, type) == [e EXCEPT !.s = Append(e.s, [type |-> type, map |-> << >>])]

PoppedScope(e) ==
  [e EXCEPT !.s = Front(e.s), !.n = @ - Cardinality(DOMAIN Last(e.s).map)]

Around == Last(environment).type

Assignments ==
  {a \in [name : Names, index : {NoKey} \union Subscripts, literal : Literals, append : BOOLEAN] :
     a.index = NoKey \/ ~a.literal.array}

(* `x=1`, at the outermost level, in a function, or in eval and source. *)
Assign == \E a \in Assignments : Step(apply_assignment(Now, a, FALSE, "any", "global"), "script")

(* A command, with its assignments; the first that fails ends it.  What *)
(* eval and source run is taken to push no command scope of its own.    *)
Pushed(type) ==
  /\ Len(environment) < MaxScopes
  /\ environment' = PushedScope(Now, type).s
  /\ last' = "script"
  /\ UNCHANGED <<entry_count, variable_changes>>

BeginCommand == Around # "command" /\ Pushed("command")

BegunWith(e) == Step(IF e.ok THEN e ELSE [PoppedScope(e) EXCEPT !.ok = FALSE], "script")

BeginWith ==
  /\ Around # "command" /\ Len(environment) < MaxScopes
  /\ \E a \in Assignments :
       BegunWith(apply_assignment(PushedScope(Now, "command"), a, TRUE, "command", "command"))

(* The command is a function. *)
EnterFunction == Around = "command" /\ Pushed("local")

Leave ==
  /\ Len(environment) > 1
  /\ environment' = PoppedScope(Now).s
  /\ entry_count' = PoppedScope(Now).n
  /\ last' = "script"
  /\ UNCHANGED variable_changes

(* At most one flag; with one, local and readonly do what declare does. *)
Plain(verb, name) ==
  [verb |-> verb, name |-> name, global |-> FALSE, type |-> "keep", nameref |-> "keep", readonly |-> "keep",
   export |-> FALSE, assigns |-> FALSE, literal |-> CHOOSE l \in Literals : TRUE, append |-> FALSE]

Flagged(d) ==
  {d, [d EXCEPT !.global = TRUE], [d EXCEPT !.export = TRUE]}
    \union {[d EXCEPT !.type = t] : t \in {"indexed", "assoc"}}
    \union {[d EXCEPT !.nameref = f] : f \in {"on", "off"}}
    \union {[d EXCEPT !.readonly = f] : f \in {"on", "off"}}

Assigning(d) == {d} \union {[d EXCEPT !.assigns = TRUE, !.literal = l] : l \in Literals}

Appending(d) ==
  IF d.assigns /\ ~d.export /\ d.nameref = "keep" /\ d.readonly = "keep"
  THEN {d, [d EXCEPT !.append = TRUE]} ELSE {d}

Declarations ==
  UNION {UNION {Appending(c) : c \in Assigning(d)} :
    d \in UNION {Flagged(Plain("declare", name)) \union {Plain("local", name), Plain("readonly", name)} : name \in Names}}

Declare ==
  /\ Around = "command"
  /\ \E d \in Declarations :
       /\ d.verb = "local" => InFunction
       /\ Step(process_declaration(Now, d), IF d.global THEN "global" ELSE "script")

Export ==
  /\ Around = "command"
  /\ \E name \in Names, on \in BOOLEAN :
       \/ Step(ExportName(Now, name, on), "script")
       \/ on /\ \E l \in Literals : Step(update_or_add(Now, name, l, TRUE), "script")

UnsetName ==
  /\ Around = "command"
  /\ \E name \in Names :
       \/ LET target == resolve_target(environment, name)
          IN Step(unset(Now, name),
                  IF target # <<>> /\ target[2] # NoKey THEN "element" ELSE "script")
       \/ Step(unset_raw(Now, name), "script")
       \/ \E index \in Subscripts : Step(UnsetElement(Now, name, index), "element")

(* read, mapfile, getopts, for, `${x=y}`, `${x[1]=y}`. *)
Update ==
  \E name \in Names, l \in Literals :
    \/ Step(update_or_add(Now, name, l, FALSE), "script")
    \/ \E index \in Subscripts :
         ~l.array /\ Step(update_or_add_array_element(Now, name, index, l.value), "script")

(* coproc and `$_`. *)
set_global ==
  \E name \in Names, l \in Literals :
    ~l.array /\ Step(add(Now, name, Holding(Unset("untyped"), "string", Only(0, l.value)), "global"),
                     "shell")

EnvironmentInit ==
  /\ \E map \in Started :
       /\ environment = <<[type |-> "global", map |-> map]>>
       /\ entry_count = Cardinality(DOMAIN map)
  /\ variable_changes = 0
  /\ last = "script"

EnvironmentNext ==
  \/ BeginCommand \/ EnterFunction \/ Leave
  \/ /\ variable_changes < MaxVariableChanges
     /\ \/ Assign \/ BeginWith
        \/ Declare \/ Export \/ UnsetName \/ Update \/ set_global

EnvironmentSpec == EnvironmentInit /\ [][EnvironmentNext]_environment_vars

-----------------------------------------------------------------------------
(* The hidden count is that of the entries, whatever was added, replaced, *)
(* unset, left as a placeholder or dropped with its scope; pop_scope would *)
(* otherwise report an underflow and leave the scope on the stack.         *)
EntriesIn(s) == {p \in (DOMAIN s) \X Names : p[2] \in DOMAIN s[p[1]].map}

CountsEntries == entry_count = Cardinality(EntriesIn(environment))

Keeps(old, new) ==
  /\ new.readonly
  /\ new.set \/ ~old.set
  /\ \A key \in DOMAIN old.elems :
       key \in DOMAIN new.elems /\ new.elems[key] = old.elems[key]

ReadonlyStay(s, t) ==
  \A i \in DOMAIN s \intersect DOMAIN t : \A name \in DOMAIN s[i].map :
    s[i].map[name].readonly =>
      name \in DOMAIN t[i].map /\ Keeps(s[i].map[name], t[i].map[name])

(***************************************************************************)
(* A readonly variable keeps its value and stays readonly while its scope  *)
(* stands: through namerefs, appends, elements, declarations, exports and  *)
(* unsets, in its own function and in those it calls.  The shell's own     *)
(* set_global and the removal of single elements do not look.              *)
(***************************************************************************)
ReadonlyKept ==
  [][last' \notin {"shell", "element"}
       => ReadonlyStay(environment, environment')]_environment_vars

(* Of the locals of s none is gone, and nothing they hide has changed. *)
LocalsStay(s, t) ==
  \A name \in Names : \A i \in 1 .. TopLocal(s) - 1 :
    name \in DOMAIN s[TopLocal(s)].map =>
      /\ name \in DOMAIN t[TopLocal(s)].map
      /\ name \in DOMAIN s[i].map <=> name \in DOMAIN t[i].map
      /\ name \in DOMAIN s[i].map => t[i].map[name] = s[i].map[name]

(***************************************************************************)
(* What a function has declared local stays its own until it returns: not  *)
(* even after an unset does an assignment by that name, or through a       *)
(* nameref, reach the variable of the same name further out.               *)
(***************************************************************************)
LocalsHide ==
  [][Len(environment') >= Len(environment) /\ last' \notin {"shell", "global"}
       => LocalsStay(environment, environment')]_environment_vars

(* The type invariant. *)
EnvironmentTypes ==
  /\ IsScopes(environment)
  /\ entry_count \in Nat
  /\ variable_changes \in Nat

=============================================================================
