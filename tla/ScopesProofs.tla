---------------------------- MODULE ScopesProofs ----------------------------
(***************************************************************************)
(* Proofs about modules Environment, for any names, literals, subscripts,  *)
(* limit on namerefs, depth of scopes and variables to begin with, and     *)
(* CallStack, for any nesting, any depth limit and any set of signals.     *)
(***************************************************************************)
EXTENDS Environment, CallStack, NatFacts, SequenceTheorems, FiniteSetTheorems

(***************************************************************************)
(* The inductive invariant: the scopes are well formed and counted.  What  *)
(* holds of the steps follows from it.                                     *)
(***************************************************************************)
Right(e) ==
  /\ DOMAIN e = {"s", "n", "ok"}
  /\ IsScopes(e.s)
  /\ e.n = Cardinality(EntriesIn(e.s))

EnvironmentInv ==
  /\ EnvironmentTypes
  /\ CountsEntries

(* The stack is the same, but for what is in the maps.                      *)
SameStack(s, t) ==
  /\ Len(t) = Len(s)
  /\ \A i \in 1 .. Len(s) : t[i].type = s[i].type

(* At most the variable of that name in the i-th scope changes, or goes.    *)
Touches(s, t, i, name) ==
  /\ SameStack(s, t)
  /\ \A j \in 1 .. Len(s) : j # i => t[j] = s[j]
  /\ \A x \in DOMAIN s[i].map \ {name} : x \in DOMAIN t[i].map /\ t[i].map[x] = s[i].map[x]
  /\ DOMAIN t[i].map \subseteq DOMAIN s[i].map \union {name}

(* A readonly variable keeps what it has.                                   *)
Preserves(old, new) == old.readonly => Keeps(old, new)

-----------------------------------------------------------------------------
(* The greatest of some numbers up to a bound.                              *)
LEMMA GreatestIs ==
  ASSUME NEW N \in Nat, NEW S \in SUBSET (0 .. N), S # {}
  PROVE  /\ Max(S) \in S
         /\ \A x \in S : x <= Max(S)
<1>1. PICK m \in S : \A x \in S : x <= m
  BY GreatestExists
<1>2. \A x \in S : m >= x
  BY <1>1
<1>3. Max(S) \in S /\ \A x \in S : Max(S) >= x
  BY <1>2 DEF Max
<1>. QED
  BY <1>3

LEMMA ScopesAre ==
  ASSUME NEW s, IsScopes(s)
  PROVE  /\ Len(s) \in Nat /\ Len(s) >= 1
         /\ DOMAIN s = 1 .. Len(s)
         /\ s[1].type = "global"
         /\ \A i \in 1 .. Len(s) :
              /\ s[i].type \in {"global", "local", "command"}
              /\ IsMap(s[i].map)
              /\ DOMAIN s[i].map \subseteq Names
              /\ \A name \in DOMAIN s[i].map : IsVariable(s[i].map[name])
<1>1. Len(s) \in Nat /\ Len(s) >= 1
  BY DEF IsScopes
<1>2. s = [i \in 1 .. Len(s) |-> s[i]] /\ s[1].type = "global"
  BY <1>1 DEF IsScopes
<1>3. \A i \in 1 .. Len(s) : IsScope(s[i])
  BY <1>1 DEF IsScopes
<1>4. DOMAIN s = 1 .. Len(s)
  BY <1>2
<1>5. \A map : IsMap(map) =>
        DOMAIN map \subseteq Names /\ \A name \in DOMAIN map : IsVariable(map[name])
  BY DEF IsMap
<1>6. \A i \in 1 .. Len(s) :
        /\ s[i].type \in {"global", "local", "command"}
        /\ IsMap(s[i].map)
  BY <1>3 DEF IsScope
<1>7. ASSUME NEW i \in 1 .. Len(s)
      PROVE  DOMAIN s[i].map \subseteq Names /\ \A name \in DOMAIN s[i].map : IsVariable(s[i].map[name])
  <2>1. IsMap(s[i].map)
    BY <1>6
  <2>. QED
    BY <2>1, <1>5
<1>8. \A i \in 1 .. Len(s) : DOMAIN s[i].map \subseteq Names
  BY <1>7
<1>9. \A i \in 1 .. Len(s) : \A name \in DOMAIN s[i].map : IsVariable(s[i].map[name])
  BY <1>7
<1>. QED
  BY <1>1, <1>2, <1>4, <1>6, <1>8, <1>9

(* A function on 1 .. n is a sequence. *)
LEMMA SequenceIs ==
  ASSUME NEW n \in Nat, NEW t, t = [i \in 1 .. n |-> t[i]]
  PROVE  Len(t) = n /\ t \in Seq({t[i] : i \in 1 .. n})
<1>. DEFINE T == {t[i] : i \in 1 .. n}
<1>1. \A i \in 1 .. n : t[i] \in T
  OBVIOUS
<1>. HIDE DEF T
<1>2. [i \in 1 .. n |-> t[i]] \in Seq(T) /\ Len([i \in 1 .. n |-> t[i]]) = n
  BY <1>1
<1>. QED
  BY <1>2 DEF T

LEMMA TopLocalIs ==
  ASSUME NEW s, IsScopes(s)
  PROVE  /\ TopLocal(s) \in 0 .. Len(s)
         /\ TopLocal(s) # 0 => s[TopLocal(s)].type = "local"
         /\ \A i \in 1 .. Len(s) : s[i].type = "local" => i <= TopLocal(s)
<1>1. PICK n \in Nat : n = Len(s) /\ DOMAIN s = 1 .. n
  BY ScopesAre
<1>. DEFINE S == {0} \union {i \in DOMAIN s : s[i].type = "local"}
<1>2. S \in SUBSET (0 .. n) /\ S # {}
  BY <1>1
<1>3. Max(S) \in S /\ \A x \in S : x <= Max(S)
  BY <1>2, GreatestIs
<1>4. TopLocal(s) = Max(S)
  BY DEF TopLocal
<1>. QED
  BY <1>1, <1>3, <1>4

LEMMA AtIs ==
  ASSUME NEW s, IsScopes(s), NEW name, NEW policy, Visible(s, policy) \subseteq 1 .. Len(s)
  PROVE  /\ At(s, name, policy) \in 0 .. Len(s)
         /\ At(s, name, policy) # 0 =>
              /\ At(s, name, policy) \in Visible(s, policy)
              /\ name \in DOMAIN s[At(s, name, policy)].map
         /\ \A i \in Visible(s, policy) :
              name \in DOMAIN s[i].map => i <= At(s, name, policy) /\ At(s, name, policy) # 0
<1>1. PICK n \in Nat : n = Len(s) /\ DOMAIN s = 1 .. n
  BY ScopesAre
<1>. DEFINE S == {0} \union {i \in Visible(s, policy) : name \in DOMAIN s[i].map}
<1>2. S \in SUBSET (0 .. n) /\ S # {}
  BY <1>1
<1>3. Max(S) \in S /\ \A x \in S : x <= Max(S)
  BY <1>2, GreatestIs
<1>4. At(s, name, policy) = Max(S)
  BY DEF At
<1>5. Max(S) \in 0 .. n
  BY <1>2, <1>3
<1>6. \A i \in Visible(s, policy) : name \in DOMAIN s[i].map => i <= Max(S) /\ Max(S) # 0
  BY <1>1, <1>3, <1>5
<1>. QED
  BY <1>1, <1>3, <1>4, <1>5, <1>6

LEMMA GetIs ==
  ASSUME NEW s, IsScopes(s), NEW name
  PROVE  /\ get(s, name) \in 0 .. Len(s)
         /\ get(s, name) # 0 =>
              get(s, name) \in 1 .. Len(s) /\ name \in DOMAIN s[get(s, name)].map /\ name \in Names
         /\ \A i \in 1 .. Len(s) :
              name \in DOMAIN s[i].map => i <= get(s, name) /\ get(s, name) # 0
<1>1. Visible(s, "anywhere") = 1 .. Len(s)
  BY ScopesAre DEF Visible
<1>. DEFINE i == At(s, name, "anywhere")
<1>2. /\ i \in 0 .. Len(s)
      /\ i # 0 => i \in Visible(s, "anywhere") /\ name \in DOMAIN s[i].map
      /\ \A j \in Visible(s, "anywhere") : name \in DOMAIN s[j].map => j <= i /\ i # 0
  BY <1>1, AtIs
<1>3. \A j \in 1 .. Len(s) : DOMAIN s[j].map \subseteq Names
  BY ScopesAre
<1>4. get(s, name) = i
  BY DEF get
<1>. QED
  BY <1>1, <1>2, <1>3, <1>4

LEMMA InnermostIs ==
  ASSUME NEW s, IsScopes(s), NEW type, \E i \in 1 .. Len(s) : s[i].type = type
  PROVE  /\ InnermostScope(s, type) \in 1 .. Len(s)
         /\ s[InnermostScope(s, type)].type = type
         /\ \A i \in 1 .. Len(s) : s[i].type = type => i <= InnermostScope(s, type)
<1>1. PICK n \in Nat : n = Len(s) /\ DOMAIN s = 1 .. n
  BY ScopesAre
<1>. DEFINE S == {i \in DOMAIN s : s[i].type = type}
<1>2. S \in SUBSET (0 .. n) /\ S # {}
  BY <1>1
<1>3. Max(S) \in S /\ \A x \in S : x <= Max(S)
  BY <1>2, GreatestIs
<1>. QED
  BY <1>1, <1>3 DEF InnermostScope

-----------------------------------------------------------------------------
(* A map in the place of another in one scope.                              *)
Replaced(s, t, i, map) == t = [s EXCEPT ![i].map = map]

LEMMA ReplacedIs ==
  ASSUME NEW s, IsScopes(s), NEW i \in 1 .. Len(s), NEW map, IsMap(map),
         NEW t, Replaced(s, t, i, map)
  PROVE  /\ IsScopes(t)
         /\ SameStack(s, t)
         /\ DOMAIN t = DOMAIN s
         /\ t[i].map = map
         /\ \A j \in 1 .. Len(s) : j # i => t[j] = s[j]
<1>1. PICK n \in Nat : n = Len(s)
  BY ScopesAre
<1>2. n # 0 /\ DOMAIN s = 1 .. n /\ s = [j \in 1 .. n |-> s[j]] /\ s[1].type = "global"
  BY <1>1, ScopesAre DEF IsScopes
<1>3. IsScope(s[i]) /\ \A j \in 1 .. n : IsScope(s[j])
  BY <1>1 DEF IsScopes
<1>4. t = [j \in 1 .. n |-> IF j = i THEN [s[i] EXCEPT !.map = map] ELSE s[j]]
  BY <1>1, <1>2 DEF Replaced
<1>5. /\ [s[i] EXCEPT !.map = map].type = s[i].type
      /\ [s[i] EXCEPT !.map = map].map = map
      /\ IsScope([s[i] EXCEPT !.map = map])
  <2>1. s[i] = [type |-> s[i].type, map |-> s[i].map] /\ s[i].type \in {"global", "local", "command"}
    BY <1>3 DEF IsScope
  <2>2. [s[i] EXCEPT !.map = map] = [type |-> s[i].type, map |-> map]
    BY <2>1
  <2>. QED
    BY <2>1, <2>2 DEF IsScope
<1>6. t[i] = [s[i] EXCEPT !.map = map] /\ \A j \in 1 .. n : j # i => t[j] = s[j]
  BY <1>1, <1>4
<1>7. t = [j \in 1 .. n |-> t[j]]
  BY <1>4
<1>8. Len(t) = n
  BY <1>7, SequenceIs
<1>9. \A j \in 1 .. n : t[j].type = s[j].type /\ IsScope(t[j])
  BY <1>3, <1>5, <1>6
<1>10. SameStack(s, t)
  BY <1>1, <1>8, <1>9 DEF SameStack
<1>11. IsScopes(t)
  <2>1. t[1].type = "global"
    BY <1>1, <1>2, <1>9
  <2>. QED
    BY <1>2, <1>7, <1>8, <1>9, <2>1 DEF IsScopes
<1>. QED
  BY <1>1, <1>2, <1>4, <1>5, <1>6, <1>10, <1>11

LEMMA PutIs ==
  ASSUME NEW s, IsScopes(s), NEW i \in 1 .. Len(s), NEW name \in Names,
         NEW var, IsVariable(var), NEW t, t = Put(s, i, name, var)
  PROVE  /\ IsScopes(t)
         /\ Touches(s, t, i, name)
         /\ DOMAIN t = DOMAIN s
         /\ DOMAIN t[i].map = DOMAIN s[i].map \union {name}
         /\ t[i].map[name] = var
<1>. DEFINE old == s[i].map
            map == With(old, name, var)
<1>1. IsMap(old)
  BY ScopesAre
<1>2. /\ map = [x \in DOMAIN old \union {name} |-> IF x = name THEN var ELSE old[x]]
      /\ DOMAIN map = DOMAIN old \union {name}
      /\ \A x \in DOMAIN map : map[x] = IF x = name THEN var ELSE old[x]
  <2>. HIDE DEF old
  <2>1. map = [x \in DOMAIN old \union {name} |-> IF x = name THEN var ELSE old[x]]
    BY DEF With
  <2>. HIDE DEF map
  <2>. QED
    BY <2>1
<1>3. IsMap(map)
  <2>1. DOMAIN old \subseteq Names /\ \A x \in DOMAIN old : IsVariable(old[x])
    BY <1>1 DEF IsMap
  <2>. HIDE DEF map, old
  <2>2. \A x \in DOMAIN map : IsVariable(map[x])
    BY <1>2, <2>1
  <2>3. map = [x \in DOMAIN map |-> map[x]]
    BY <1>2
  <2>. QED
    BY <1>2, <2>1, <2>2, <2>3 DEF IsMap
<1>4. Replaced(s, t, i, map)
  BY DEF Put, Replaced
<1>. HIDE DEF map
<1>5. /\ IsScopes(t)
      /\ SameStack(s, t)
      /\ DOMAIN t = DOMAIN s
      /\ t[i].map = map
      /\ \A j \in 1 .. Len(s) : j # i => t[j] = s[j]
  BY <1>3, <1>4, ReplacedIs
<1>6. Touches(s, t, i, name)
  BY <1>2, <1>5 DEF Touches
<1>. QED
  BY <1>2, <1>5, <1>6

LEMMA RemovedIs ==
  ASSUME NEW s, IsScopes(s), NEW i \in 1 .. Len(s), NEW name,
         NEW t, t = Without(s, i, name)
  PROVE  /\ IsScopes(t)
         /\ Touches(s, t, i, name)
         /\ DOMAIN t = DOMAIN s
         /\ DOMAIN t[i].map = DOMAIN s[i].map \ {name}
<1>. DEFINE old == s[i].map
            map == Restrict(old, DOMAIN old \ {name})
<1>1. IsMap(old)
  BY ScopesAre
<1>2. /\ map = [x \in DOMAIN old \ {name} |-> old[x]]
      /\ DOMAIN map = DOMAIN old \ {name}
      /\ \A x \in DOMAIN map : map[x] = old[x]
  BY DEF Restrict
<1>3. IsMap(map)
  <2>1. DOMAIN old \subseteq Names /\ \A x \in DOMAIN old : IsVariable(old[x])
    BY <1>1 DEF IsMap
  <2>. HIDE DEF map, old
  <2>2. \A x \in DOMAIN map : IsVariable(map[x])
    BY <1>2, <2>1
  <2>3. map = [x \in DOMAIN map |-> map[x]]
    BY <1>2
  <2>. QED
    BY <1>2, <2>1, <2>2, <2>3 DEF IsMap
<1>4. Replaced(s, t, i, map)
  BY DEF Without, Replaced
<1>. HIDE DEF map
<1>5. /\ IsScopes(t)
      /\ SameStack(s, t)
      /\ DOMAIN t = DOMAIN s
      /\ t[i].map = map
      /\ \A j \in 1 .. Len(s) : j # i => t[j] = s[j]
  BY <1>3, <1>4, ReplacedIs
<1>6. Touches(s, t, i, name)
  BY <1>2, <1>5 DEF Touches
<1>. QED
  BY <1>2, <1>5, <1>6

-----------------------------------------------------------------------------
(* The number of entries.                                                   *)
LEMMA EntriesAreFinite ==
  ASSUME NEW s, IsScopes(s)
  PROVE  IsFiniteSet(EntriesIn(s)) /\ Cardinality(EntriesIn(s)) \in Nat
<1>1. Len(s) \in Nat /\ DOMAIN s = 1 .. Len(s)
  BY ScopesAre
<1>2. IsFiniteSet(DOMAIN s)
  BY <1>1, FS_Interval
<1>3. IsFiniteSet((DOMAIN s) \X Names)
  BY <1>2, FS_Product, EnvironmentAssumption
<1>4. EntriesIn(s) \in SUBSET ((DOMAIN s) \X Names)
  BY DEF EntriesIn
<1>5. IsFiniteSet(EntriesIn(s))
  BY <1>3, <1>4, FS_Subset
<1>. QED
  BY <1>5, FS_CardinalityType

(* What is there for the other names stays there.                           *)
LEMMA EntriesElsewhere ==
  ASSUME NEW s, IsScopes(s), NEW t, DOMAIN t = DOMAIN s,
         NEW i \in 1 .. Len(s), NEW name \in Names, Touches(s, t, i, name)
  PROVE  /\ name \in DOMAIN t[i].map => EntriesIn(t) = EntriesIn(s) \union {<<i, name>>}
         /\ name \notin DOMAIN t[i].map => EntriesIn(t) = EntriesIn(s) \ {<<i, name>>}
<1>1. DOMAIN s = 1 .. Len(s)
  BY ScopesAre
<1>2. ASSUME NEW j \in 1 .. Len(s), NEW x \in Names, j # i \/ x # name
      PROVE  x \in DOMAIN t[j].map <=> x \in DOMAIN s[j].map
  BY <1>2 DEF Touches
<1>3. ASSUME NEW p \in (DOMAIN s) \X Names, p # <<i, name>>
      PROVE  p \in EntriesIn(t) <=> p \in EntriesIn(s)
  <2>1. PICK j \in 1 .. Len(s), x \in Names : p = <<j, x>>
    BY <1>1, <1>3
  <2>2. j # i \/ x # name
    BY <1>3, <2>1
  <2>3. x \in DOMAIN t[j].map <=> x \in DOMAIN s[j].map
    BY <1>2, <2>2
  <2>. QED
    BY <2>1, <2>3 DEF EntriesIn
<1>4. <<i, name>> \in (DOMAIN s) \X Names
  BY <1>1
<1>5. <<i, name>> \in EntriesIn(t) <=> name \in DOMAIN t[i].map
  BY <1>4 DEF EntriesIn
<1>6. EntriesIn(s) \subseteq (DOMAIN s) \X Names /\ EntriesIn(t) \subseteq (DOMAIN s) \X Names
  BY DEF EntriesIn
<1>. QED
  BY <1>3, <1>4, <1>5, <1>6

-----------------------------------------------------------------------------
(* What one change does to the locals and to the readonly variables.        *)
LEMMA SameTop ==
  ASSUME NEW s, NEW t, IsScopes(s), IsScopes(t), SameStack(s, t)
  PROVE  TopLocal(t) = TopLocal(s)
<1>1. /\ DOMAIN s = 1 .. Len(s) /\ DOMAIN t = 1 .. Len(s)
      /\ \A i \in 1 .. Len(s) : t[i].type = s[i].type
  BY ScopesAre DEF SameStack
<1>2. {i \in DOMAIN t : t[i].type = "local"} = {i \in DOMAIN s : s[i].type = "local"}
  BY <1>1
<1>. QED
  BY <1>2 DEF TopLocal

LEMMA TouchesLocals ==
  ASSUME NEW s, IsScopes(s), NEW i \in 1 .. Len(s), NEW name, NEW t, Touches(s, t, i, name),
         TopLocal(s) # 0 /\ name \in DOMAIN s[TopLocal(s)].map =>
           i >= TopLocal(s) /\ name \in DOMAIN t[TopLocal(s)].map
  PROVE  LocalsStay(s, t)
<1>. DEFINE top == TopLocal(s)
<1>1. top \in 0 .. Len(s) /\ Len(s) \in Nat
  BY TopLocalIs, ScopesAre
<1>2. /\ \A j \in 1 .. Len(s) : j # i => t[j] = s[j]
      /\ \A x \in DOMAIN s[i].map \ {name} : x \in DOMAIN t[i].map /\ t[i].map[x] = s[i].map[x]
      /\ DOMAIN t[i].map \subseteq DOMAIN s[i].map \union {name}
  BY DEF Touches
<1>3. top # 0 /\ name \in DOMAIN s[top].map => i >= top /\ name \in DOMAIN t[top].map
  OBVIOUS
<1>. HIDE DEF top
<1>4. ASSUME NEW x \in Names, NEW j \in 1 .. top - 1, x \in DOMAIN s[top].map
      PROVE  /\ x \in DOMAIN t[top].map
             /\ x \in DOMAIN s[j].map <=> x \in DOMAIN t[j].map
             /\ x \in DOMAIN s[j].map => t[j].map[x] = s[j].map[x]
  <2>1. top \in 1 .. Len(s) /\ j \in 1 .. Len(s) /\ top # 0 /\ j < top
    BY <1>1
  <2>2. x \in DOMAIN t[top].map
    <3>1. CASE top # i
      BY <1>2, <1>4, <2>1, <3>1
    <3>2. CASE top = i /\ x # name
      BY <1>2, <1>4, <3>2
    <3>3. CASE x = name
      BY <1>3, <1>4, <2>1, <3>3
    <3>. QED
      BY <3>1, <3>2, <3>3
  <2>3. CASE j # i
    BY <1>2, <2>1, <2>2, <2>3
  <2>4. CASE j = i
    <3>1. x # name
      BY <1>3, <1>4, <2>1, <2>4
    <3>. QED
      BY <1>2, <2>2, <2>4, <3>1
  <2>. QED
    BY <2>3, <2>4
<1>. QED
  BY <1>4 DEF LocalsStay, top

LEMMA TouchesReadonly ==
  ASSUME NEW s, IsScopes(s), NEW i \in 1 .. Len(s), NEW name, NEW t, Touches(s, t, i, name),
         name \in DOMAIN s[i].map /\ s[i].map[name].readonly =>
           name \in DOMAIN t[i].map /\ Keeps(s[i].map[name], t[i].map[name])
  PROVE  ReadonlyStay(s, t)
<1>1. \A v : v.readonly => Keeps(v, v)
  BY DEF Keeps
<1>2. /\ \A j \in 1 .. Len(s) : j # i => t[j] = s[j]
      /\ \A x \in DOMAIN s[i].map \ {name} : x \in DOMAIN t[i].map /\ t[i].map[x] = s[i].map[x]
  BY DEF Touches
<1>3. ASSUME NEW j \in DOMAIN s \intersect DOMAIN t, NEW x \in DOMAIN s[j].map,
             s[j].map[x].readonly
      PROVE  x \in DOMAIN t[j].map /\ Keeps(s[j].map[x], t[j].map[x])
  <2>0. j \in 1 .. Len(s)
    BY ScopesAre
  <2>1. CASE j # i
    BY <1>1, <1>2, <1>3, <2>0, <2>1
  <2>2. CASE j = i /\ x # name
    <3>1. x \in DOMAIN t[i].map /\ t[i].map[x] = s[i].map[x]
      BY <1>2, <2>2
    <3>. QED
      BY <1>1, <1>3, <2>2, <3>1
  <2>3. CASE j = i /\ x = name
    BY <1>3, <2>3
  <2>. QED
    BY <2>1, <2>2, <2>3
<1>. QED
  BY <1>3 DEF ReadonlyStay

(* One change after another.                                                *)
LEMMA SameAgain ==
  ASSUME NEW s, NEW t, NEW u, SameStack(s, t), SameStack(t, u)
  PROVE  SameStack(s, u)
  BY DEF SameStack

LEMMA LocalsAgain ==
  ASSUME NEW s, NEW t, NEW u, TopLocal(t) = TopLocal(s), LocalsStay(s, t), LocalsStay(t, u)
  PROVE  LocalsStay(s, u)
<1>1. PICK top : top = TopLocal(s)
  OBVIOUS
<1>2. TopLocal(t) = top
  BY <1>1
<1>3. ASSUME NEW x \in Names, NEW j \in 1 .. top - 1, x \in DOMAIN s[top].map
      PROVE  /\ x \in DOMAIN u[top].map
             /\ x \in DOMAIN s[j].map <=> x \in DOMAIN u[j].map
             /\ x \in DOMAIN s[j].map => u[j].map[x] = s[j].map[x]
  <2>1. /\ x \in DOMAIN t[top].map
        /\ x \in DOMAIN s[j].map <=> x \in DOMAIN t[j].map
        /\ x \in DOMAIN s[j].map => t[j].map[x] = s[j].map[x]
    BY <1>1, <1>3 DEF LocalsStay
  <2>2. /\ x \in DOMAIN u[top].map
        /\ x \in DOMAIN t[j].map <=> x \in DOMAIN u[j].map
        /\ x \in DOMAIN t[j].map => u[j].map[x] = t[j].map[x]
    BY <1>2, <1>3, <2>1 DEF LocalsStay
  <2>. QED
    BY <2>1, <2>2
<1>. QED
  BY <1>1, <1>3 DEF LocalsStay

LEMMA ReadonlyAgain ==
  ASSUME NEW s, NEW t, NEW u, DOMAIN s \intersect DOMAIN u \subseteq DOMAIN t,
         ReadonlyStay(s, t), ReadonlyStay(t, u)
  PROVE  ReadonlyStay(s, u)
<1>1. \A j \in DOMAIN s \intersect DOMAIN u : j \in DOMAIN t
  OBVIOUS
<1>2. ASSUME NEW a, NEW b, NEW c, Keeps(a, b), Keeps(b, c)
      PROVE  Keeps(a, c)
  BY <1>2 DEF Keeps
<1>3. ASSUME NEW j \in DOMAIN s \intersect DOMAIN u, NEW x \in DOMAIN s[j].map,
             s[j].map[x].readonly
      PROVE  x \in DOMAIN u[j].map /\ Keeps(s[j].map[x], u[j].map[x])
  <2>1. x \in DOMAIN t[j].map /\ Keeps(s[j].map[x], t[j].map[x])
    BY <1>1, <1>3 DEF ReadonlyStay
  <2>2. t[j].map[x].readonly
    BY <2>1 DEF Keeps
  <2>3. x \in DOMAIN u[j].map /\ Keeps(t[j].map[x], u[j].map[x])
    BY <1>1, <2>1, <2>2 DEF ReadonlyStay
  <2>. QED
    BY <1>2, <2>1, <2>3
<1>. QED
  BY <1>3 DEF ReadonlyStay

LEMMA NothingTouched ==
  ASSUME NEW s
  PROVE  SameStack(s, s) /\ LocalsStay(s, s) /\ ReadonlyStay(s, s)
<1>1. \A v : v.readonly => Keeps(v, v)
  BY DEF Keeps
<1>. QED
  BY <1>1 DEF SameStack, LocalsStay, ReadonlyStay

-----------------------------------------------------------------------------
(* Results of operations: well formed and counted, with the locals still    *)
(* hiding what they hid; safe if the readonly variables are kept as well.   *)
Settled(e, o) ==
  /\ Right(o)
  /\ SameStack(e.s, o.s)
  /\ LocalsStay(e.s, o.s)

Safe(e, o) == Settled(e, o) /\ ReadonlyStay(e.s, o.s)

(* A change of the name in that scope is not one behind a local.            *)
Reaches(s, i, name) ==
  TopLocal(s) # 0 /\ name \in DOMAIN s[TopLocal(s)].map => i >= TopLocal(s)

LEMMA SafeAgain ==
  ASSUME NEW e, NEW o, NEW p, Right(e), Safe(e, o), Safe(o, p)
  PROVE  Safe(e, p)
<1>1. IsScopes(e.s) /\ IsScopes(o.s) /\ IsScopes(p.s)
  BY DEF Safe, Settled, Right
<1>2. SameStack(e.s, o.s) /\ LocalsStay(e.s, o.s) /\ ReadonlyStay(e.s, o.s)
  BY DEF Safe, Settled
<1>3. SameStack(o.s, p.s) /\ LocalsStay(o.s, p.s) /\ ReadonlyStay(o.s, p.s)
  BY DEF Safe, Settled
<1>4. SameStack(e.s, p.s)
  BY <1>2, <1>3, SameAgain
<1>5. LocalsStay(e.s, p.s)
  BY <1>1, <1>2, <1>3, LocalsAgain, SameTop
<1>6. ReadonlyStay(e.s, p.s)
  <2>1. DOMAIN o.s = DOMAIN e.s
    BY <1>1, <1>2, ScopesAre DEF SameStack
  <2>. QED
    BY <1>2, <1>3, <2>1, ReadonlyAgain
<1>7. Right(p)
  BY DEF Safe, Settled
<1>. QED
  BY <1>4, <1>5, <1>6, <1>7 DEF Safe, Settled

LEMMA FailedIs ==
  ASSUME NEW e, Right(e)
  PROVE  Safe(e, Failed(e)) /\ Safe(e, e)
<1>1. DOMAIN e = {"s", "n", "ok"} /\ IsScopes(e.s)
      /\ e.n = Cardinality(EntriesIn(e.s))
  BY DEF Right
<1>2. Failed(e).s = e.s /\ Failed(e).n = e.n /\ DOMAIN Failed(e) = DOMAIN e
  BY <1>1 DEF Failed
<1>3. Right(Failed(e)) /\ Failed(e).s = e.s
  BY <1>1, <1>2 DEF Right
<1>. QED
  BY <1>3, NothingTouched DEF Safe, Settled

LEMMA GetReaches ==
  ASSUME NEW s, IsScopes(s), NEW name
  PROVE  /\ Reaches(s, get(s, name), name)
         /\ get(s, name) = 0 => \A i : Reaches(s, i, name)
<1>1. TopLocal(s) \in 0 .. Len(s) /\ Len(s) \in Nat
  BY TopLocalIs, ScopesAre
<1>2. get(s, name) \in 0 .. Len(s)
  BY GetIs
<1>3. \A i \in 1 .. Len(s) : name \in DOMAIN s[i].map => i <= get(s, name) /\ get(s, name) # 0
  BY GetIs
<1>4. TopLocal(s) # 0 /\ name \in DOMAIN s[TopLocal(s)].map =>
        TopLocal(s) <= get(s, name) /\ get(s, name) # 0
  BY <1>1, <1>3
<1>. QED
  BY <1>1, <1>2, <1>4 DEF Reaches

(* A variable in the place of one that is there.                            *)
StoredAs(e, o, i, name, var) ==
  /\ Right(o)
  /\ SameStack(e.s, o.s)
  /\ Reaches(e.s, i, name) => LocalsStay(e.s, o.s)
  /\ Preserves(e.s[i].map[name], var) => ReadonlyStay(e.s, o.s)

LEMMA StoredIs ==
  ASSUME NEW e, Right(e), NEW i \in 1 .. Len(e.s), NEW name \in DOMAIN e.s[i].map,
         NEW made, IsVariable(made.var)
  PROVE  StoredAs(e, Stored(e, i, name, made), i, name, made.var)
<1>. DEFINE o == Stored(e, i, name, made)
            t == Put(e.s, i, name, made.var)
<1>1. DOMAIN e = {"s", "n", "ok"} /\ IsScopes(e.s)
      /\ e.n = Cardinality(EntriesIn(e.s))
  BY DEF Right
<1>2. o.s = t /\ o.n = e.n /\ DOMAIN o = DOMAIN e
  BY <1>1 DEF Stored
<1>3. name \in Names
  BY <1>1, ScopesAre
<1>4. /\ IsScopes(t)
      /\ Touches(e.s, t, i, name)
      /\ DOMAIN t = DOMAIN e.s
      /\ DOMAIN t[i].map = DOMAIN e.s[i].map \union {name}
      /\ t[i].map[name] = made.var
  BY <1>1, <1>3, PutIs
<1>. HIDE DEF t
<1>5. <<i, name>> \in EntriesIn(e.s)
  BY <1>1, <1>3, ScopesAre DEF EntriesIn
<1>6. EntriesIn(t) = EntriesIn(e.s)
  <2>1. EntriesIn(t) = EntriesIn(e.s) \union {<<i, name>>}
    BY <1>1, <1>3, <1>4, EntriesElsewhere
  <2>. QED
    BY <1>5, <2>1
<1>7. o.s = t /\ o.n = e.n /\ DOMAIN o = {"s", "n", "ok"}
  BY <1>1, <1>2
<1>. HIDE DEF o
<1>8. Right(o)
  BY <1>1, <1>4, <1>6, <1>7 DEF Right
<1>9. SameStack(e.s, o.s)
  BY <1>4, <1>7 DEF Touches
<1>10. ASSUME Reaches(e.s, i, name)
       PROVE  LocalsStay(e.s, t)
  <2>1. TopLocal(e.s) # 0 /\ name \in DOMAIN e.s[TopLocal(e.s)].map =>
          i >= TopLocal(e.s) /\ name \in DOMAIN t[TopLocal(e.s)].map
    <3>. SUFFICES ASSUME TopLocal(e.s) # 0, name \in DOMAIN e.s[TopLocal(e.s)].map
                  PROVE  i >= TopLocal(e.s) /\ name \in DOMAIN t[TopLocal(e.s)].map
      OBVIOUS
    <3>1. i >= TopLocal(e.s)
      BY <1>10 DEF Reaches
    <3>2. TopLocal(e.s) \in 1 .. Len(e.s)
      BY <1>1, TopLocalIs
    <3>3. \A j \in 1 .. Len(e.s) : j # i => t[j] = e.s[j]
      BY <1>4 DEF Touches
    <3>4. name \in DOMAIN t[TopLocal(e.s)].map
      BY <1>4, <3>2, <3>3
    <3>. QED
      BY <3>1, <3>4
  <2>. QED
    BY <1>1, <1>4, <2>1, TouchesLocals
<1>11. ASSUME Preserves(e.s[i].map[name], made.var)
       PROVE  ReadonlyStay(e.s, t)
  BY <1>1, <1>4, <1>11, TouchesReadonly DEF Preserves
<1>. QED
  BY <1>7, <1>8, <1>9, <1>10, <1>11 DEF StoredAs, o

(* An entry in the innermost scope of a type.                               *)
LEMMA AddIs ==
  ASSUME NEW e, Right(e), NEW name \in Names, NEW var, IsVariable(var), NEW type,
         \E i \in 1 .. Len(e.s) : e.s[i].type = type
  PROVE  LET i == InnermostScope(e.s, type)
             o == add(e, name, var, type)
         IN /\ Right(o) /\ SameStack(e.s, o.s) /\ o.ok = TRUE
            /\ i \in 1 .. Len(e.s) /\ name \in DOMAIN o.s[i].map
            /\ Reaches(e.s, i, name) => LocalsStay(e.s, o.s)
            /\ name \notin DOMAIN e.s[i].map => ReadonlyStay(e.s, o.s)
            /\ Touches(e.s, o.s, i, name)
<1>. DEFINE i == InnermostScope(e.s, type)
            o == add(e, name, var, type)
            t == Put(e.s, i, name, var)
<1>1. DOMAIN e = {"s", "n", "ok"} /\ IsScopes(e.s)
      /\ e.n = Cardinality(EntriesIn(e.s))
  BY DEF Right
<1>2. i \in 1 .. Len(e.s)
  BY <1>1, InnermostIs
<1>3. o = [s |-> t, n |-> IF name \in DOMAIN e.s[i].map THEN e.n ELSE e.n + 1, ok |-> TRUE]
  BY DEF add
<1>. HIDE DEF i
<1>4. /\ IsScopes(t)
      /\ Touches(e.s, t, i, name)
      /\ DOMAIN t = DOMAIN e.s
      /\ DOMAIN t[i].map = DOMAIN e.s[i].map \union {name}
      /\ t[i].map[name] = var
  BY <1>1, <1>2, PutIs
<1>. HIDE DEF t
<1>5. <<i, name>> \in EntriesIn(e.s) <=> name \in DOMAIN e.s[i].map
  BY <1>1, <1>2, ScopesAre DEF EntriesIn
<1>6. EntriesIn(t) = EntriesIn(e.s) \union {<<i, name>>}
  BY <1>1, <1>2, <1>4, EntriesElsewhere
<1>7. /\ o.s = t /\ DOMAIN o = {"s", "n", "ok"} /\ o.ok = TRUE
      /\ o.n = IF name \in DOMAIN e.s[i].map THEN e.n ELSE e.n + 1
  BY <1>3
<1>. HIDE DEF o
<1>8. o.n = Cardinality(EntriesIn(t))
  <2>1. IsFiniteSet(EntriesIn(e.s))
    BY <1>1, EntriesAreFinite
  <2>2. Cardinality(EntriesIn(e.s) \union {<<i, name>>}) =
          IF <<i, name>> \in EntriesIn(e.s) THEN Cardinality(EntriesIn(e.s))
          ELSE Cardinality(EntriesIn(e.s)) + 1
    BY <2>1, FS_AddElement
  <2>. QED
    BY <1>1, <1>5, <1>6, <1>7, <2>2
<1>9. Right(o) /\ SameStack(e.s, o.s)
  BY <1>4, <1>7, <1>8 DEF Right, Touches
<1>10. ASSUME Reaches(e.s, i, name)
       PROVE  LocalsStay(e.s, t)
  <2>1. TopLocal(e.s) # 0 /\ name \in DOMAIN e.s[TopLocal(e.s)].map =>
          i >= TopLocal(e.s) /\ name \in DOMAIN t[TopLocal(e.s)].map
    <3>. SUFFICES ASSUME TopLocal(e.s) # 0, name \in DOMAIN e.s[TopLocal(e.s)].map
                  PROVE  i >= TopLocal(e.s) /\ name \in DOMAIN t[TopLocal(e.s)].map
      OBVIOUS
    <3>1. i >= TopLocal(e.s)
      BY <1>10 DEF Reaches
    <3>2. TopLocal(e.s) \in 1 .. Len(e.s)
      BY <1>1, TopLocalIs
    <3>3. \A j \in 1 .. Len(e.s) : j # i => t[j] = e.s[j]
      BY <1>4 DEF Touches
    <3>4. name \in DOMAIN t[TopLocal(e.s)].map
      BY <1>4, <3>2, <3>3
    <3>. QED
      BY <3>1, <3>4
  <2>. QED
    BY <1>1, <1>2, <1>4, <2>1, TouchesLocals
<1>11. ASSUME name \notin DOMAIN e.s[i].map
       PROVE  ReadonlyStay(e.s, t)
  BY <1>1, <1>2, <1>4, <1>11, TouchesReadonly
<1>12. name \in DOMAIN o.s[i].map /\ Touches(e.s, o.s, i, name)
  BY <1>4, <1>7
<1>13. /\ Reaches(e.s, i, name) => LocalsStay(e.s, o.s)
       /\ name \notin DOMAIN e.s[i].map => ReadonlyStay(e.s, o.s)
  BY <1>7, <1>10, <1>11
<1>. QED
  BY <1>2, <1>7, <1>9, <1>12, <1>13 DEF i, o

(* Scopes other than the global ones are left alone.                        *)
GlobalsOnly(s, t) ==
  \A j \in 1 .. Len(s) : s[j].type # "global" => t[j] = s[j]

(* A global for a name that has no variable.                                *)
AddedMissing(e, o, name) ==
  Safe(e, o) /\ get(o.s, name) # 0 /\ GlobalsOnly(e.s, o.s)

LEMMA AddMissing ==
  ASSUME NEW e, Right(e), NEW name \in Names, NEW var, IsVariable(var), get(e.s, name) = 0
  PROVE  AddedMissing(e, add(e, name, var, "global"), name)
<1>. DEFINE i == InnermostScope(e.s, "global")
            o == add(e, name, var, "global")
<1>1. IsScopes(e.s)
  BY DEF Right
<1>2. Len(e.s) \in Nat /\ Len(e.s) >= 1 /\ e.s[1].type = "global"
  BY <1>1, ScopesAre
<1>3. \E j \in 1 .. Len(e.s) : e.s[j].type = "global"
  BY <1>2
<1>4. /\ Right(o) /\ SameStack(e.s, o.s) /\ o.ok = TRUE
      /\ i \in 1 .. Len(e.s) /\ name \in DOMAIN o.s[i].map
      /\ Reaches(e.s, i, name) => LocalsStay(e.s, o.s)
      /\ name \notin DOMAIN e.s[i].map => ReadonlyStay(e.s, o.s)
  BY <1>3, AddIs
<1>8. ASSUME NEW j \in 1 .. Len(e.s), e.s[j].type # "global"
      PROVE  o.s[j] = e.s[j]
  <2>1. Touches(e.s, o.s, i, name)
    BY <1>3, AddIs
  <2>2. e.s[i].type = "global"
    BY <1>1, <1>3, InnermostIs
  <2>. HIDE DEF i, o
  <2>. QED
    BY <1>8, <2>1, <2>2 DEF Touches
<1>. HIDE DEF i, o
<1>5. Reaches(e.s, i, name) /\ name \notin DOMAIN e.s[i].map
  BY <1>1, <1>4, GetReaches, GetIs
<1>6. get(o.s, name) # 0
  <2>1. IsScopes(o.s) /\ i \in 1 .. Len(o.s)
    BY <1>4 DEF Right, SameStack
  <2>. QED
    BY <1>4, <2>1, GetIs
<1>7. Safe(e, o)
  BY <1>4, <1>5 DEF Safe, Settled
<1>. QED
  BY <1>6, <1>7, <1>8 DEF o, AddedMissing, GlobalsOnly

-----------------------------------------------------------------------------
(* What assignments and declarations make of one variable is a variable,    *)
(* which keeps its value if it was readonly.                                *)
Fits(var, new) == IsVariable(new) /\ Preserves(var, new)

LEMMA FitsAgain ==
  ASSUME NEW a, NEW b, NEW c, Fits(a, b), Fits(b, c)
  PROVE  Fits(a, c)
  BY DEF Fits, Preserves, Keeps

LEMMA FitsItself ==
  ASSUME NEW var, IsVariable(var)
  PROVE  Fits(var, var)
  BY DEF Fits, Preserves, Keeps

LEMMA FitsFree ==
  ASSUME NEW var, ~var.readonly, NEW new, IsVariable(new)
  PROVE  Fits(var, new)
  BY DEF Fits, Preserves

LEMMA OkErr ==
  ASSUME NEW var
  PROVE  Ok(var).var = var /\ Ok(var).ok = TRUE /\ Err(var).var = var /\ Err(var).ok = FALSE
  BY DEF Ok, Err

LEMMA UnsetIs ==
  ASSUME NEW kind \in {"untyped", "indexed", "assoc"}
  PROVE  IsVariable(Unset(kind)) /\ ~Unset(kind).readonly
  BY DEF Unset, Variable, IsVariable

LEMMA OnlyIs ==
  ASSUME NEW key, NEW value
  PROVE  DOMAIN Only(key, value) = {key} /\ Only(key, value)[key] = value
  BY DEF Only

Held(new, var, kind, elems) ==
  /\ IsVariable(new)
  /\ new.readonly = var.readonly
  /\ new.kind = kind /\ new.set = TRUE /\ new.elems = elems

LEMMA HoldingIs ==
  ASSUME NEW var, IsVariable(var), NEW kind, NEW elems,
         kind \in {"indexed", "assoc"} \/ (kind = "string" /\ DOMAIN elems = {0})
  PROVE  Held(Holding(var, kind, elems), var, kind, elems)
<1>. DEFINE new == Holding(var, kind, elems)
<1>1. /\ DOMAIN var = {"kind", "set", "elems", "readonly", "exported", "nameref"}
      /\ {var.set, var.readonly, var.exported, var.nameref} \subseteq BOOLEAN
  BY DEF IsVariable
<1>2. /\ DOMAIN new = DOMAIN var
      /\ new.kind = kind /\ new.set = TRUE /\ new.elems = elems
      /\ new.readonly = var.readonly /\ new.exported = var.exported /\ new.nameref = var.nameref
  BY <1>1 DEF Holding
<1>. HIDE DEF new
<1>3. {new.set, new.readonly, new.exported, new.nameref} \subseteq BOOLEAN
  BY <1>1, <1>2
<1>4. IsVariable(new)
  BY <1>1, <1>2, <1>3 DEF IsVariable
<1>. QED
  BY <1>2, <1>4 DEF new, Held

(* Other elements for a variable that is set.                               *)
LEMMA OtherElements ==
  ASSUME NEW var, IsVariable(var), var.set, var.kind # "string", NEW elems,
         NEW new, new = [var EXCEPT !.elems = elems]
  PROVE  IsVariable(new)
<1>1. /\ DOMAIN var = {"kind", "set", "elems", "readonly", "exported", "nameref"}
      /\ {var.set, var.readonly, var.exported, var.nameref} \subseteq BOOLEAN
      /\ var.kind \in {"untyped", "string", "indexed", "assoc"} /\ var.kind # "untyped"
  BY DEF IsVariable
<1>2. /\ DOMAIN new = DOMAIN var
      /\ new.kind = var.kind /\ new.set = var.set
      /\ new.readonly = var.readonly /\ new.exported = var.exported /\ new.nameref = var.nameref
  BY <1>1
<1>. QED
  BY <1>1, <1>2 DEF IsVariable

LEMMA ConvertedFits ==
  ASSUME NEW var, IsVariable(var)
  PROVE  /\ Fits(var, convert_to_indexed_array(var).var)
         /\ Fits(var, convert_to_associative_array(var).var)
         /\ var.set /\ var.kind = "string" =>
              LET new == convert_to_indexed_array(var).var
              IN new.set /\ new.kind = "indexed" /\ new.readonly = var.readonly
<1>. DEFINE text == Only(0, try_get_cow_str(var))
<1>1. Fits(var, var)
  BY FitsItself
<1>2. ASSUME NEW kind \in {"indexed", "assoc"}, ~var.set \/ var.kind \notin {"indexed", "assoc"}
      PROVE  LET new == Holding(var, kind, text)
             IN Fits(var, new) /\ new.set /\ new.kind = kind /\ new.readonly = var.readonly
  <2>. DEFINE new == Holding(var, kind, text)
  <2>1. /\ IsVariable(new) /\ new.readonly = var.readonly
        /\ new.kind = kind /\ new.set = TRUE /\ new.elems = text
    <3>. HIDE DEF text
    <3>1. Held(Holding(var, kind, text), var, kind, text)
      BY HoldingIs
    <3>. QED
      BY <3>1 DEF Held
  <2>2. \A key \in DOMAIN var.elems : key \in DOMAIN text /\ text[key] = var.elems[key]
    <3>. SUFFICES ASSUME NEW key \in DOMAIN var.elems
                  PROVE  key \in DOMAIN text /\ text[key] = var.elems[key]
      OBVIOUS
    <3>1. var.set /\ var.kind = "string"
      BY <1>2 DEF IsVariable
    <3>2. key = 0
      BY <3>1 DEF IsVariable
    <3>3. try_get_cow_str(var) = var.elems[0]
      BY <3>2 DEF try_get_cow_str, Text
    <3>. QED
      BY <3>2, <3>3, OnlyIs
  <2>. HIDE DEF text, new
  <2>3. Fits(var, new)
    BY <2>1, <2>2 DEF Fits, Preserves, Keeps
  <2>. QED
    BY <2>1, <2>3 DEF new
<1>. HIDE DEF text
<1>3. Fits(var, convert_to_indexed_array(var).var)
  <2>1. CASE var.set /\ var.kind \in {"indexed", "assoc"}
    <3>1. convert_to_indexed_array(var).var = var
      BY <2>1 DEF convert_to_indexed_array, Ok, Err
    <3>. QED
      BY <1>1, <3>1
  <2>2. CASE ~(var.set /\ var.kind \in {"indexed", "assoc"})
    <3>1. convert_to_indexed_array(var).var = Holding(var, "indexed", text)
      BY <2>2 DEF convert_to_indexed_array, Ok, Err, text
    <3>. QED
      BY <1>2, <2>2, <3>1
  <2>. QED
    BY <2>1, <2>2
<1>4. Fits(var, convert_to_associative_array(var).var)
  <2>1. CASE var.set /\ var.kind \in {"indexed", "assoc"}
    <3>1. convert_to_associative_array(var).var = var
      BY <2>1 DEF convert_to_associative_array, Ok, Err
    <3>. QED
      BY <1>1, <3>1
  <2>2. CASE ~(var.set /\ var.kind \in {"indexed", "assoc"})
    <3>1. convert_to_associative_array(var).var = Holding(var, "assoc", text)
      BY <2>2 DEF convert_to_associative_array, Ok, Err, text
    <3>. QED
      BY <1>2, <2>2, <3>1
  <2>. QED
    BY <2>1, <2>2
<1>5. ASSUME var.set, var.kind = "string"
      PROVE  LET new == convert_to_indexed_array(var).var
             IN new.set /\ new.kind = "indexed" /\ new.readonly = var.readonly
  <2>1. convert_to_indexed_array(var).var = Holding(var, "indexed", text)
    BY <1>5 DEF convert_to_indexed_array, Ok, Err, text
  <2>. QED
    BY <1>2, <1>5, <2>1
<1>. QED
  BY <1>3, <1>4, <1>5

LEMMA EmptyArrayIs ==
  ASSUME NEW var, IsVariable(var)
  PROVE  LET new == EmptyArray(var)
         IN IsVariable(new) /\ new.set /\ new.kind # "string" /\ new.readonly = var.readonly
            /\ (var.kind = "assoc" <=> new.kind = "assoc")
<1>. PICK kind \in {"indexed", "assoc"} : kind = IF var.kind = "assoc" THEN "assoc" ELSE "indexed"
  OBVIOUS
<1>1. EmptyArray(var) = Holding(var, kind, << >>)
  BY DEF EmptyArray
<1>2. LET new == Holding(var, kind, << >>)
      IN IsVariable(new) /\ new.readonly = var.readonly /\ new.kind = kind /\ new.set = TRUE
  <2>1. PICK elems : elems = << >>
    OBVIOUS
  <2>2. Held(Holding(var, kind, elems), var, kind, elems)
    BY HoldingIs
  <2>. QED
    BY <2>1, <2>2 DEF Held
<1>. QED
  BY <1>1, <1>2

LEMMA AssignAtIndexFits ==
  ASSUME NEW var, IsVariable(var), NEW index, NEW value, NEW append
  PROVE  Fits(var, assign_at_index(var, index, value, append).var)
<1>1. CASE var.readonly
  <2>1. assign_at_index(var, index, value, append).var = var
    BY <1>1 DEF assign_at_index, Err
  <2>. QED
    BY <2>1, FitsItself
<1>2. CASE ~var.readonly
  <2>. DEFINE array == IF ~var.set THEN EmptyArray(var)
                       ELSE IF var.kind = "string" THEN convert_to_indexed_array(var).var
                       ELSE var
              key == IF array.kind = "assoc" THEN index
                     ELSE get_key_for_indexed_array(array.elems, index)
              new == IF append THEN Text(array.elems, key) \o value ELSE value
              more == With(array.elems, key, new)
              longer == [array EXCEPT !.elems = more]
  <2>1. assign_at_index(var, index, value, append) =
          IF key = NoKey THEN Err(array) ELSE Ok([array EXCEPT !.elems = With(@, key, new)])
    BY <1>2 DEF assign_at_index
  <2>2. IsVariable(array) /\ array.set /\ array.kind # "string"
    <3>1. CASE ~var.set
      BY <3>1, EmptyArrayIs
    <3>2. CASE var.set /\ var.kind = "string"
      BY <3>2, ConvertedFits DEF Fits
    <3>3. CASE var.set /\ var.kind # "string"
      BY <3>3
    <3>. QED
      BY <3>1, <3>2, <3>3
  <2>3. [array EXCEPT !.elems = With(@, key, new)] = longer
    OBVIOUS
  <2>. HIDE DEF array, key, new, more
  <2>4. IsVariable(longer)
    BY <2>2, OtherElements
  <2>. HIDE DEF longer
  <2>5. assign_at_index(var, index, value, append).var \in {array, longer}
    BY <2>1, <2>3 DEF Ok, Err
  <2>6. IsVariable(assign_at_index(var, index, value, append).var)
    BY <2>2, <2>4, <2>5
  <2>. QED
    BY <1>2, <2>6, FitsFree
<1>. QED
  BY <1>1, <1>2

LEMMA PreparedIs ==
  ASSUME NEW var, IsVariable(var), NEW literal, literal.array \in BOOLEAN
  PROVE  /\ IsVariable(Prepared(var, literal)) /\ Prepared(var, literal).set
         /\ Prepared(var, literal).readonly = var.readonly
<1>. DEFINE new == Prepared(var, literal)
<1>1. CASE ~var.set /\ (literal.array \/ var.kind # "untyped")
  <2>1. new = EmptyArray(var)
    BY <1>1 DEF Prepared
  <2>. QED
    BY <2>1, EmptyArrayIs
<1>2. CASE ~var.set /\ ~literal.array /\ var.kind = "untyped"
  <2>1. PICK elems : elems = Only(0, << >>)
    OBVIOUS
  <2>2. DOMAIN elems = {0}
    BY <2>1, OnlyIs
  <2>3. Held(Holding(var, "string", elems), var, "string", elems)
    BY <2>2, HoldingIs
  <2>4. new = Holding(var, "string", elems)
    BY <1>2, <2>1 DEF Prepared
  <2>. QED
    BY <2>3, <2>4 DEF Held
<1>3. CASE var.set /\ var.kind = "string" /\ literal.array
  <2>1. new = convert_to_indexed_array(var).var
    BY <1>3 DEF Prepared
  <2>. QED
    BY <1>3, <2>1, ConvertedFits DEF Fits
<1>4. CASE var.set /\ ~(var.kind = "string" /\ literal.array)
  <2>1. new = var
    BY <1>4 DEF Prepared
  <2>. QED
    BY <1>4, <2>1
<1>5. var.set \in BOOLEAN
  BY DEF IsVariable
<1>. QED
  BY <1>1, <1>2, <1>3, <1>4, <1>5

LEMMA AssignArrayIs ==
  ASSUME NEW var, IsVariable(var), NEW items, NEW append, append => var.set
  PROVE  IsVariable(AssignArray(var, items, append).var)
<1>. DEFINE existing == IF append THEN var.elems ELSE << >>
            made == update_associative_array_from_literals(existing, items)
            indexed == update_indexed_array_from_literals(existing, items)
            longer == [var EXCEPT !.elems = made.elems]
<1>1. AssignArray(var, items, append) =
        IF var.kind = "assoc"
        THEN IF made.ok THEN Ok(Holding(var, "assoc", made.elems))
             ELSE Err(IF append THEN longer ELSE var)
        ELSE Ok(Holding(var, "indexed", indexed))
  BY DEF AssignArray
<1>. HIDE DEF existing, made, indexed
<1>2. \A elems : /\ Held(Holding(var, "assoc", elems), var, "assoc", elems)
                 /\ Held(Holding(var, "indexed", elems), var, "indexed", elems)
  BY HoldingIs
<1>3. IsVariable(Holding(var, "assoc", made.elems)) /\ IsVariable(Holding(var, "indexed", indexed))
  BY <1>2 DEF Held
<1>4. ASSUME append, var.kind = "assoc"
      PROVE  IsVariable(longer)
  BY <1>4, OtherElements
<1>. HIDE DEF longer
<1>5. CASE var.kind # "assoc"
  BY <1>1, <1>3, <1>5, OkErr
<1>6. CASE var.kind = "assoc" /\ made.ok
  BY <1>1, <1>3, <1>6, OkErr
<1>7. CASE var.kind = "assoc" /\ ~made.ok
  BY <1>1, <1>4, <1>7, OkErr
<1>. QED
  BY <1>5, <1>6, <1>7

LEMMA AssignFits ==
  ASSUME NEW var, IsVariable(var), NEW literal, literal.array \in BOOLEAN, NEW append \in BOOLEAN
  PROVE  Fits(var, assign(var, literal, append).var)
<1>1. CASE var.readonly
  <2>1. assign(var, literal, append).var = var
    BY <1>1 DEF assign, Err
  <2>. QED
    BY <2>1, FitsItself
<1>2. CASE ~var.readonly
  <2>. DEFINE old == IF append THEN Prepared(var, literal) ELSE var
              text == IF append THEN Text(old.elems, 0) \o literal.value ELSE literal.value
              made == assign(var, literal, append)
  <2>1. IsVariable(old) /\ (append => old.set)
    BY PreparedIs
  <2>2. made =
          CASE literal.array -> AssignArray(old, literal.items, append)
            [] ~literal.array /\ old.kind \in {"indexed", "assoc"} ->
                 assign_at_index(old, 0, literal.value, append)
            [] OTHER -> Ok(Holding(old, "string", Only(0, text)))
    BY <1>2 DEF assign
  <2>. HIDE DEF old, text, made
  <2>3. CASE literal.array
    <3>1. made = AssignArray(old, literal.items, append)
      BY <2>2, <2>3
    <3>2. IsVariable(made.var)
      BY <2>1, <3>1, AssignArrayIs
    <3>. QED
      BY <1>2, <3>2, FitsFree DEF made
  <2>4. CASE ~literal.array /\ old.kind \in {"indexed", "assoc"}
    <3>1. made = assign_at_index(old, 0, literal.value, append)
      BY <2>2, <2>4
    <3>2. IsVariable(made.var)
      BY <2>1, <3>1, AssignAtIndexFits DEF Fits
    <3>. QED
      BY <1>2, <3>2, FitsFree DEF made
  <2>5. CASE ~literal.array /\ old.kind \notin {"indexed", "assoc"}
    <3>1. PICK elems : elems = Only(0, text)
      OBVIOUS
    <3>2. made = Ok(Holding(old, "string", elems))
      BY <2>2, <2>5, <3>1
    <3>3. DOMAIN elems = {0}
      BY <3>1, OnlyIs
    <3>4. Held(Holding(old, "string", elems), old, "string", elems)
      BY <2>1, <3>3, HoldingIs
    <3>5. IsVariable(made.var)
      BY <3>2, <3>4, OkErr DEF Held
    <3>. QED
      BY <1>2, <3>5, FitsFree DEF made
  <2>. QED
    BY <2>3, <2>4, <2>5
<1>. QED
  BY <1>1, <1>2

LEMMA UnsetIndexIs ==
  ASSUME NEW var, IsVariable(var), NEW index
  PROVE  IsVariable(unset_index(var, index).var)
<1>. DEFINE key == IF var.kind = "assoc" THEN index
                   ELSE get_key_for_indexed_array(var.elems, index)
            fewer == Restrict(var.elems, DOMAIN var.elems \ {key})
            new == [var EXCEPT !.elems = fewer]
<1>1. unset_index(var, index).var \in {var, new} /\ (var.kind \in {"untyped", "string"} =>
        unset_index(var, index).var = var)
  BY DEF unset_index, Ok, Err
<1>. HIDE DEF key
<1>2. CASE var.kind \in {"untyped", "string"}
  BY <1>1, <1>2
<1>3. CASE var.kind \notin {"untyped", "string"} /\ var.set
  <2>1. IsVariable(new)
    BY <1>3, OtherElements
  <2>. QED
    BY <1>1, <2>1
<1>4. CASE var.kind \notin {"untyped", "string"} /\ ~var.set
  <2>1. var.elems = << >>
    BY <1>4 DEF IsVariable
  <2>2. fewer = << >>
    BY <2>1 DEF Restrict
  <2>. HIDE DEF fewer
  <2>3. /\ DOMAIN var = {"kind", "set", "elems", "readonly", "exported", "nameref"}
        /\ {var.set, var.readonly, var.exported, var.nameref} \subseteq BOOLEAN
        /\ var.kind \in {"untyped", "string", "indexed", "assoc"}
    BY DEF IsVariable
  <2>4. /\ DOMAIN new = DOMAIN var
        /\ new.kind = var.kind /\ new.set = var.set /\ new.elems = << >>
        /\ new.readonly = var.readonly /\ new.exported = var.exported /\ new.nameref = var.nameref
    BY <2>2, <2>3
  <2>. HIDE DEF new
  <2>5. IsVariable(new)
    BY <1>4, <2>3, <2>4 DEF IsVariable
  <2>. QED
    BY <1>1, <2>5
<1>. QED
  BY <1>2, <1>3, <1>4

(* Attributes, other than readonly, do not matter.                          *)
LEMMA AttributesFit ==
  ASSUME NEW var, IsVariable(var), NEW new,
         DOMAIN new = DOMAIN var, new.kind = var.kind, new.set = var.set, new.elems = var.elems,
         new.readonly \in BOOLEAN, new.exported \in BOOLEAN, new.nameref \in BOOLEAN,
         var.readonly => new.readonly
  PROVE  Fits(var, new)
<1>1. IsVariable(new)
  BY DEF IsVariable
<1>. QED
  BY <1>1 DEF Fits, Preserves, Keeps

LEMMA ExportedFits ==
  ASSUME NEW var, IsVariable(var), NEW export
  PROVE  Fits(var, Exported(var, export))
<1>. DEFINE new == Exported(var, export)
<1>1. /\ DOMAIN var = {"kind", "set", "elems", "readonly", "exported", "nameref"}
      /\ {var.set, var.readonly, var.exported, var.nameref} \subseteq BOOLEAN
  BY DEF IsVariable
<1>2. /\ DOMAIN new = DOMAIN var
      /\ new.kind = var.kind /\ new.set = var.set /\ new.elems = var.elems
      /\ new.readonly = var.readonly /\ new.nameref = var.nameref
      /\ new.exported \in BOOLEAN
  BY <1>1 DEF Exported
<1>. QED
  BY <1>1, <1>2, AttributesFit

-----------------------------------------------------------------------------
(* Namerefs lead to names and elements, or nowhere.                         *)
Targets == {<< >>} \union Names \X Int

LEMMA TargetIs ==
  ASSUME NEW target \in Targets
  PROVE  target # << >> => target[1] \in Names /\ target[2] \in Int
  BY DEF Targets

LEMMA ParsedIs ==
  ASSUME NEW text
  PROVE  parse_nameref_target(text) \in Targets
<1>1. NoKey \in Int
  BY DEF NoKey
<1>2. ASSUME NEW name \in Names
      PROVE  <<name, NoKey>> \in Targets
  BY <1>1 DEF Targets
<1>3. ASSUME NEW t \in DOMAIN Elements
      PROVE  Elements[t] \in Targets
  BY EnvironmentAssumption DEF Targets
<1>4. << >> \in Targets
  BY DEF Targets
<1>. HIDE DEF Targets
<1>5. CASE Len(text) = 1 /\ text[1] \in Names /\ text[1] \notin DOMAIN Elements
  BY <1>2, <1>5 DEF parse_nameref_target
<1>6. CASE Len(text) = 1 /\ text[1] \in DOMAIN Elements /\ text[1] \notin Names
  BY <1>3, <1>6 DEF parse_nameref_target
<1>7. CASE Len(text) = 1 /\ text[1] \in DOMAIN Elements /\ text[1] \in Names
  <2>1. parse_nameref_target(text) \in {<<text[1], NoKey>>, Elements[text[1]]}
    BY <1>7 DEF parse_nameref_target
  <2>. QED
    BY <1>2, <1>3, <1>7, <2>1
<1>8. CASE ~(Len(text) = 1 /\ (text[1] \in DOMAIN Elements \/ text[1] \in Names))
  BY <1>4, <1>8 DEF parse_nameref_target
<1>. QED
  BY <1>5, <1>6, <1>7, <1>8

LEMMA FollowedIs ==
  ASSUME NEW s, NEW way \in [to : Targets, ends : BOOLEAN]
  PROVE  Followed(s, way) \in [to : Targets, ends : BOOLEAN]
<1>. DEFINE i == get(s, way.to[1])
            var == Get(s, i, way.to[1])
            target == IF var.kind = "string" THEN parse_nameref_target(Text(var.elems, 0)) ELSE <<>>
            next == [to |-> target, ends |-> target = <<>> \/ target[2] # NoKey]
<1>1. target \in Targets
  <2>1. << >> \in Targets
    BY DEF Targets
  <2>. QED
    BY <2>1, ParsedIs
<1>2. Followed(s, way) \in {Ended(way), next}
  BY DEF Followed
<1>3. Ended(way) \in [to : Targets, ends : BOOLEAN]
  BY DEF Ended
<1>. HIDE DEF target
<1>4. (target = <<>> \/ target[2] # NoKey) \in BOOLEAN
  OBVIOUS
<1>5. next \in [to : Targets, ends : BOOLEAN]
  BY <1>1, <1>4
<1>. QED
  BY <1>2, <1>3, <1>5

LEMMA ResolvedIs ==
  ASSUME NEW s, NEW name \in Names
  PROVE  resolve_target(s, name) \in Targets
<1>. DEFINE V == [to : Targets, ends : BOOLEAN]
            first == [to |-> <<name, NoKey>>, ends |-> FALSE]
            step == [p \in Nat \X V |-> Followed(s, p[2])]
            Ruled(f) == f = [n \in Nat |-> IF n = 0 THEN first ELSE Followed(s, f[n - 1])]
<1>1. first \in V
  BY DEF Targets, NoKey
<1>2. step \in [Nat \X V -> V]
  <2>1. ASSUME NEW p \in Nat \X V
        PROVE  Followed(s, p[2]) \in V
    <3>1. p[2] \in V
      BY <2>1
    <3>. QED
      BY <3>1, FollowedIs
  <2>. HIDE DEF V
  <2>. QED
    BY <2>1
<1>. HIDE DEF V, first
<1>3. \E f : Ruled(f)
  <2>. HIDE DEF step
  <2>1. PICK f : Recursive(f, V, first, step)
    BY <1>1, <1>2, Recursion
  <2>. USE DEF step
  <2>2. f \in [Nat -> V] /\ f[0] = first /\ \A n \in Nat : f[n + 1] = step[<<n, f[n]>>]
    BY <2>1 DEF Recursive
  <2>3. ASSUME NEW n \in Nat
        PROVE  f[n] = IF n = 0 THEN first ELSE Followed(s, f[n - 1])
    <3>1. CASE n = 0
      BY <2>2, <3>1
    <3>2. CASE n # 0
      <4>1. PICK m \in Nat : m = n - 1 /\ n = m + 1
        BY <3>2
      <4>2. f[n] = step[<<m, f[m]>>] /\ f[m] \in V
        BY <2>2, <4>1
      <4>3. step[<<m, f[m]>>] = Followed(s, f[m])
        BY <4>2
      <4>. QED
        BY <3>2, <4>1, <4>2, <4>3
    <3>. QED
      BY <3>1, <3>2
  <2>4. f = [n \in Nat |-> f[n]]
    BY <2>2
  <2>5. Ruled(f)
    BY <2>3, <2>4
  <2>. QED
    BY <2>5
<1>. DEFINE g == CHOOSE f : Ruled(f)
<1>4. Ruled(g)
  BY <1>3
<1>5. Ways(s, name) = g
  BY Zenon DEF Ways, first
<1>. HIDE DEF g
<1>6. g[0] = first /\ \A n \in Nat : g[n + 1] = Followed(s, g[n])
  <2>1. \A n \in Nat : g[n] = IF n = 0 THEN first ELSE Followed(s, g[n - 1])
    BY <1>4
  <2>2. ASSUME NEW n \in Nat
        PROVE  g[n + 1] = Followed(s, g[n])
    <3>1. n + 1 \in Nat /\ n + 1 # 0 /\ (n + 1) - 1 = n
      OBVIOUS
    <3>. QED
      BY <2>1, <3>1
  <2>. QED
    BY <2>1, <2>2
<1>. DEFINE S == {n \in Nat : g[n] \in V}
<1>7. 0 \in S
  BY <1>1, <1>6
<1>8. \A n \in Nat : n \in S => n + 1 \in S
  BY <1>6, FollowedIs DEF V
<1>. HIDE DEF S
<1>9. Nat \subseteq S
  BY <1>7, <1>8, Induction
<1>10. g[MAX_NAMEREF_DEPTH] \in V
  BY <1>9, EnvironmentAssumption DEF S
<1>. PICK way : way = g[MAX_NAMEREF_DEPTH]
  OBVIOUS
<1>11. way.to \in Targets
  BY <1>10 DEF V
<1>12. resolve_target(s, name) = IF way.ends THEN way.to ELSE << >>
  BY <1>5 DEF resolve_target
<1>. QED
  BY <1>11, <1>12 DEF Targets

-----------------------------------------------------------------------------
(* Assignments, of every kind.                                              *)
LEMMA GotIs ==
  ASSUME NEW e, Right(e), NEW name, get(e.s, name) # 0
  PROVE  /\ get(e.s, name) \in 1 .. Len(e.s)
         /\ name \in DOMAIN e.s[get(e.s, name)].map /\ name \in Names
         /\ IsVariable(Get(e.s, get(e.s, name), name))
         /\ Reaches(e.s, get(e.s, name), name)
<1>1. IsScopes(e.s)
  BY DEF Right
<1>2. /\ get(e.s, name) \in 1 .. Len(e.s)
      /\ name \in DOMAIN e.s[get(e.s, name)].map /\ name \in Names
  BY <1>1, GetIs
<1>3. IsVariable(Get(e.s, get(e.s, name), name))
  BY <1>1, <1>2, ScopesAre DEF Get
<1>4. Reaches(e.s, get(e.s, name), name)
  BY <1>1, GetReaches
<1>. QED
  BY <1>2, <1>3, <1>4

(* Storing where the name is found.                                         *)
LEMMA StoredWhereGot ==
  ASSUME NEW e, Right(e), NEW name, get(e.s, name) # 0, NEW made, IsVariable(made.var)
  PROVE  LET i == get(e.s, name)
         IN /\ Settled(e, Stored(e, i, name, made))
            /\ Fits(Get(e.s, i, name), made.var) => Safe(e, Stored(e, i, name, made))
<1>. DEFINE i == get(e.s, name)
<1>1. i \in 1 .. Len(e.s) /\ name \in DOMAIN e.s[i].map /\ Reaches(e.s, i, name)
  BY GotIs
<1>. HIDE DEF i
<1>2. StoredAs(e, Stored(e, i, name, made), i, name, made.var)
  BY <1>1, StoredIs
<1>. QED
  BY <1>1, <1>2 DEF StoredAs, Settled, Safe, Fits, Get, i

(* What get_mut finds.                                                      *)
Found(e, name, found) ==
  /\ Safe(e, found.e)
  /\ GlobalsOnly(e.s, found.e.s)
  /\ found.at = NoVariable => found.e = e /\ get(e.s, name) = 0
  /\ found.at \notin {NoVariable, FailedNameref} =>
       found.at = get(found.e.s, found.name) /\ found.at # 0

LEMMA MutIs ==
  ASSUME NEW e, Right(e), NEW name \in Names
  PROVE  Found(e, name, get_mut(e, name))
<1>. DEFINE i == get(e.s, name)
            target == resolve_target(e.s, name)
            found == get_mut(e, name)
<1>1. found = MutThrough(e, name, i, target)
  BY DEF get_mut
<1>2. target \in Targets
  BY ResolvedIs
<1>3. IsScopes(e.s) /\ Safe(e, e) /\ GlobalsOnly(e.s, e.s)
  BY FailedIs DEF Right, GlobalsOnly
<1>. HIDE DEF target, found
<1>4. CASE i = 0
  <2>1. found.e = e /\ found.at = NoVariable
    BY <1>1, <1>4 DEF MutThrough
  <2>2. Safe(e, found.e) /\ GlobalsOnly(e.s, found.e.s)
    BY <1>3, <2>1
  <2>3. found.at = NoVariable => found.e = e /\ get(e.s, name) = 0
    BY <1>4, <2>1
  <2>. QED
    BY <2>1, <2>2, <2>3 DEF Found, found
<1>5. CASE i # 0 /\ (target = <<>> \/ target[2] # NoKey)
  <2>1. found = [MutAt(e, name, i) EXCEPT !.at = FailedNameref]
    BY <1>1, <1>5 DEF MutThrough
  <2>2. found.e = e /\ found.at = FailedNameref
    BY <2>1 DEF MutAt
  <2>3. FailedNameref # NoVariable
    BY DEF FailedNameref, NoVariable
  <2>4. Safe(e, found.e) /\ GlobalsOnly(e.s, found.e.s)
    BY <1>3, <2>2
  <2>. QED
    BY <2>2, <2>3, <2>4 DEF Found, found
<1>6. CASE i # 0 /\ target # <<>> /\ target[2] = NoKey
  <2>. PICK other : other = target[1]
    OBVIOUS
  <2>1. other \in Names
    BY <1>2, <1>6, TargetIs
  <2>. DEFINE p == Present(e, other)
  <2>2. found = MutFound(p, other)
    BY <1>1, <1>6 DEF MutThrough
  <2>3. Safe(e, p) /\ GlobalsOnly(e.s, p.s) /\ get(p.s, other) # 0
    <3>1. CASE get(e.s, other) = 0
      <4>. PICK var : var = Unset("untyped")
        OBVIOUS
      <4>. PICK o : o = add(e, other, var, "global")
        OBVIOUS
      <4>1. p = o
        BY <3>1 DEF Present
      <4>2. IsVariable(var)
        BY UnsetIs
      <4>3. AddedMissing(e, o, other)
        BY <2>1, <3>1, <4>2, AddMissing
      <4>. QED
        BY <4>1, <4>3 DEF AddedMissing
    <3>2. CASE get(e.s, other) # 0
      <4>1. p = e
        BY <3>2 DEF Present
      <4>. QED
        BY <1>3, <3>2, <4>1
    <3>. QED
      BY <3>1, <3>2
  <2>. HIDE DEF p
  <2>4. found.e = p /\ found.at = get(p.s, other) /\ found.name = other
    BY <2>2 DEF MutFound, MutAt
  <2>5. Safe(e, found.e) /\ GlobalsOnly(e.s, found.e.s)
    BY <2>3, <2>4
  <2>6. found.at = get(found.e.s, found.name) /\ found.at # 0
    BY <2>3, <2>4
  <2>. QED
    BY <2>5, <2>6 DEF Found, NoVariable, found
<1>. QED
  BY <1>4, <1>5, <1>6 DEF found

LEMMA NewlyAssignedIs ==
  ASSUME NEW a, a.literal.array \in BOOLEAN
  PROVE  IsVariable(NewlyAssigned(a)) /\ ~NewlyAssigned(a).readonly
<1>. DEFINE items == IF a.index # NoKey THEN <<<<a.index, a.literal.value>>>> ELSE a.literal.items
            elems == update_indexed_array_from_literals(<< >>, items)
            text == Only(0, a.literal.value)
<1>1. IsVariable(Unset("untyped")) /\ ~Unset("untyped").readonly
  BY UnsetIs
<1>2. DOMAIN text = {0}
  BY OnlyIs
<1>3. NewlyAssigned(a) \in {Holding(Unset("untyped"), "indexed", elems),
                            Holding(Unset("untyped"), "string", text)}
  BY DEF NewlyAssigned
<1>. HIDE DEF elems, text
<1>4. /\ Held(Holding(Unset("untyped"), "indexed", elems), Unset("untyped"), "indexed", elems)
      /\ Held(Holding(Unset("untyped"), "string", text), Unset("untyped"), "string", text)
  BY <1>1, <1>2, HoldingIs
<1>. QED
  BY <1>1, <1>3, <1>4 DEF Held

IsAssignment(a) ==
  a.name \in Names /\ a.literal.array \in BOOLEAN /\ a.append \in BOOLEAN

LEMMA AssignedToFits ==
  ASSUME NEW a, IsAssignment(a), NEW old, IsVariable(old)
  PROVE  Fits(old, AssignedTo(a, old).var)
<1>1. CASE a.index # NoKey
  <2>1. AssignedTo(a, old) = assign_at_index(old, a.index, a.literal.value, a.append)
    BY <1>1 DEF AssignedTo
  <2>. QED
    BY <2>1, AssignAtIndexFits
<1>2. CASE a.index = NoKey
  <2>1. AssignedTo(a, old) = assign(old, a.literal, a.append)
    BY <1>2 DEF AssignedTo
  <2>2. a.literal.array \in BOOLEAN /\ a.append \in BOOLEAN
    BY DEF IsAssignment
  <2>. QED
    BY <2>1, <2>2, AssignFits
<1>. QED
  BY <1>1, <1>2

(* An assignment by what get_mut found; a new variable goes where it hides  *)
(* what it is to hide and replaces none.                                    *)
LEMMA ThroughIs ==
  ASSUME NEW e, Right(e), NEW a, IsAssignment(a), NEW found, Found(e, a.name, found),
         NEW export, NEW required, NEW creation,
         \E i \in 1 .. Len(e.s) : e.s[i].type = creation,
         found.at = NoVariable \/ ~(required = "any" \/ found.type = required) =>
           /\ Reaches(found.e.s, InnermostScope(found.e.s, creation), a.name)
           /\ a.name \notin DOMAIN found.e.s[InnermostScope(found.e.s, creation)].map
  PROVE  Safe(e, AssignThrough(found, a, export, required, creation))
<1>. DEFINE o == AssignThrough(found, a, export, required, creation)
<1>1. Safe(e, found.e) /\ Right(found.e) /\ SameStack(e.s, found.e.s)
  BY DEF Found, Safe, Settled
<1>2. Safe(e, Failed(found.e))
  BY <1>1, FailedIs, SafeAgain
<1>3. CASE found.at # NoVariable /\ (required = "any" \/ found.type = required)
  <2>. DEFINE made == AssignedTo(a, Get(found.e.s, found.at, found.name))
              more == [var |-> Exported(made.var, export /\ made.ok), ok |-> made.ok]
  <2>1. CASE found.at = FailedNameref \/ (a.index # NoKey /\ a.literal.array)
    <3>1. o = Failed(found.e)
      BY <1>3, <2>1 DEF AssignThrough
    <3>. QED
      BY <1>2, <3>1 DEF o
  <2>2. CASE ~(found.at = FailedNameref \/ (a.index # NoKey /\ a.literal.array))
    <3>1. o = Stored(found.e, found.at, found.name, more)
      BY <1>3, <2>2 DEF AssignThrough, StoredAssigned
    <3>2. found.at = get(found.e.s, found.name) /\ get(found.e.s, found.name) # 0
      BY <1>3, <2>2 DEF Found
    <3>3. IsVariable(Get(found.e.s, found.at, found.name))
      BY <1>1, <3>2, GotIs
    <3>4. Fits(Get(found.e.s, found.at, found.name), made.var)
      BY <3>3, AssignedToFits
    <3>. HIDE DEF made
    <3>5. Fits(Get(found.e.s, found.at, found.name), more.var)
      <4>1. Fits(made.var, Exported(made.var, export /\ made.ok))
        BY <3>4, ExportedFits DEF Fits
      <4>. QED
        BY <3>4, <4>1, FitsAgain
    <3>. HIDE DEF more
    <3>6. IsVariable(more.var)
      BY <3>5 DEF Fits
    <3>7. Safe(found.e, Stored(found.e, found.at, found.name, more))
      BY <1>1, <3>2, <3>5, <3>6, StoredWhereGot
    <3>. QED
      BY <1>1, <3>1, <3>7, SafeAgain DEF o
  <2>. QED
    BY <2>1, <2>2
<1>4. CASE found.at = NoVariable \/ ~(required = "any" \/ found.type = required)
  <2>1. CASE a.index # NoKey /\ a.literal.array
    <3>1. o = Failed(found.e)
      BY <1>4, <2>1 DEF AssignThrough
    <3>. QED
      BY <1>2, <3>1 DEF o
  <2>2. CASE ~(a.index # NoKey /\ a.literal.array)
    <3>. PICK var : var = Exported(NewlyAssigned(a), export)
      OBVIOUS
    <3>1. o = add(found.e, a.name, var, creation)
      BY <1>4, <2>2 DEF AssignThrough
    <3>2. IsVariable(var) /\ a.name \in Names
      BY NewlyAssignedIs, ExportedFits DEF Fits, IsAssignment
    <3>3. \E i \in 1 .. Len(found.e.s) : found.e.s[i].type = creation
      BY <1>1 DEF SameStack
    <3>. PICK i : i = InnermostScope(found.e.s, creation)
      OBVIOUS
    <3>4. Reaches(found.e.s, i, a.name) /\ a.name \notin DOMAIN found.e.s[i].map
      BY <1>4
    <3>. HIDE DEF o
    <3>5. /\ Right(o) /\ SameStack(found.e.s, o.s)
          /\ Reaches(found.e.s, i, a.name) => LocalsStay(found.e.s, o.s)
          /\ a.name \notin DOMAIN found.e.s[i].map => ReadonlyStay(found.e.s, o.s)
      BY <1>1, <3>1, <3>2, <3>3, AddIs
    <3>6. Safe(found.e, o)
      BY <3>4, <3>5 DEF Safe, Settled
    <3>. QED
      BY <1>1, <3>6, SafeAgain DEF o
  <2>. QED
    BY <2>1, <2>2
<1>. QED
  BY <1>3, <1>4

(* An assignment that stands alone.                                         *)
LEMMA AssignmentIs ==
  ASSUME NEW e, Right(e), NEW a, IsAssignment(a), NEW export
  PROVE  Safe(e, apply_assignment(e, a, export, "any", "global"))
<1>. DEFINE found == get_mut(e, a.name)
<1>1. Found(e, a.name, found)
  BY MutIs DEF IsAssignment
<1>2. IsScopes(e.s)
  BY DEF Right
<1>3. \E i \in 1 .. Len(e.s) : e.s[i].type = "global"
  BY <1>2, ScopesAre
<1>. HIDE DEF found
<1>4. ASSUME found.at = NoVariable
      PROVE  /\ Reaches(found.e.s, InnermostScope(found.e.s, "global"), a.name)
             /\ a.name \notin DOMAIN found.e.s[InnermostScope(found.e.s, "global")].map
  <2>1. found.e = e /\ get(e.s, a.name) = 0
    BY <1>1, <1>4 DEF Found
  <2>2. InnermostScope(e.s, "global") \in 1 .. Len(e.s)
    BY <1>2, <1>3, InnermostIs
  <2>. QED
    BY <1>2, <2>1, <2>2, GetIs, GetReaches
<1>5. Safe(e, AssignThrough(found, a, export, "any", "global"))
  BY <1>1, <1>3, <1>4, ThroughIs
<1>. QED
  BY <1>5 DEF apply_assignment, found

(* An assignment before a command, whose scope is the innermost one.        *)
LEMMA CommandAssignmentIs ==
  ASSUME NEW e, Right(e), NEW a, IsAssignment(a), NEW export,
         e.s[Len(e.s)].type = "command", e.s[Len(e.s)].map = << >>
  PROVE  Safe(e, apply_assignment(e, a, export, "command", "command"))
<1>. DEFINE found == get_mut(e, a.name)
            n == Len(e.s)
<1>1. Found(e, a.name, found)
  BY MutIs DEF IsAssignment
<1>2. IsScopes(e.s) /\ Len(e.s) \in Nat /\ Len(e.s) >= 1 /\ n \in 1 .. n
  BY ScopesAre DEF Right
<1>. HIDE DEF found, n
<1>3. \E i \in 1 .. Len(e.s) : e.s[i].type = "command"
  BY <1>2 DEF n
<1>4. found.e.s[n] = e.s[n] /\ IsScopes(found.e.s) /\ Len(found.e.s) = n
  BY <1>1, <1>2 DEF Found, GlobalsOnly, Safe, Settled, Right, SameStack, n
<1>5. /\ InnermostScope(found.e.s, "command") \in 1 .. n
      /\ n <= InnermostScope(found.e.s, "command")
  <2>1. found.e.s[n].type = "command"
    BY <1>4 DEF n
  <2>. QED
    BY <1>2, <1>4, <2>1, InnermostIs
<1>6. InnermostScope(found.e.s, "command") = n
  BY <1>2, <1>5 DEF n
<1>7. /\ Reaches(found.e.s, n, a.name)
      /\ a.name \notin DOMAIN found.e.s[n].map
  <2>1. TopLocal(found.e.s) \in 0 .. n
    BY <1>4, TopLocalIs
  <2>2. n >= TopLocal(found.e.s)
    BY <1>2, <2>1 DEF n
  <2>3. DOMAIN << >> = {}
    OBVIOUS
  <2>. QED
    BY <1>4, <2>2, <2>3 DEF Reaches, n
<1>8. Safe(e, AssignThrough(found, a, export, "command", "command"))
  BY <1>1, <1>3, <1>6, <1>7, ThroughIs
<1>. QED
  BY <1>8 DEF apply_assignment, found

-----------------------------------------------------------------------------
(* read, for, getopts, `${x=y}` and their like.                             *)
LEMMA UpdatedIs ==
  ASSUME NEW e, Right(e), NEW name \in Names, NEW made, NEW export, IsVariable(made.var),
         get(e.s, name) # 0 => Fits(Get(e.s, get(e.s, name), name), made.var)
  PROVE  Safe(e, Updated(e, get(e.s, name), name, made, export))
<1>. PICK i : i = get(e.s, name)
  OBVIOUS
<1>. DEFINE o == Updated(e, i, name, made, export)
<1>. PICK more : more = Exported(made.var, export)
  OBVIOUS
<1>1. Fits(made.var, more) /\ IsVariable(more)
  BY ExportedFits DEF Fits
<1>2. CASE i = 0 /\ ~made.ok
  <2>1. o = Failed(e)
    BY <1>2 DEF Updated
  <2>. QED
    BY <2>1, FailedIs
<1>3. CASE i = 0 /\ made.ok
  <2>1. o = add(e, name, more, "global")
    BY <1>3 DEF Updated
  <2>2. AddedMissing(e, add(e, name, more, "global"), name)
    BY <1>1, <1>3, AddMissing
  <2>. QED
    BY <2>1, <2>2 DEF AddedMissing
<1>4. CASE i # 0 /\ ~made.ok
  <2>1. o = Stored(e, i, name, made)
    BY <1>4 DEF Updated
  <2>2. Safe(e, Stored(e, i, name, made))
    BY <1>4, StoredWhereGot
  <2>. QED
    BY <2>1, <2>2
<1>5. CASE i # 0 /\ made.ok
  <2>. PICK ok : ok = Ok(more)
    OBVIOUS
  <2>1. o = Stored(e, i, name, ok)
    BY <1>5 DEF Updated
  <2>2. ok.var = more
    BY OkErr
  <2>3. Fits(Get(e.s, i, name), ok.var) /\ IsVariable(ok.var)
    BY <1>1, <1>5, <2>2, FitsAgain
  <2>4. Safe(e, Stored(e, i, name, ok))
    BY <1>5, <2>3, StoredWhereGot
  <2>. QED
    BY <2>1, <2>4
<1>. QED
  BY <1>2, <1>3, <1>4, <1>5

IsLiteral(literal) == literal.array \in BOOLEAN

LEMMA UpdateRawIs ==
  ASSUME NEW e, Right(e), NEW name \in Names, NEW literal, IsLiteral(literal), NEW export,
         NEW i, i = get(e.s, name)
  PROVE  Safe(e, update_or_add_raw(e, i, name, literal, export))
<1>. PICK var : var = IF i = 0 THEN Unset("untyped") ELSE Get(e.s, i, name)
  OBVIOUS
<1>1. IsVariable(var)
  BY UnsetIs, GotIs
<1>. PICK append \in BOOLEAN : append = FALSE
  OBVIOUS
<1>. PICK made : made = assign(var, literal, append)
  OBVIOUS
<1>2. Fits(var, made.var) /\ IsVariable(made.var)
  BY <1>1, AssignFits DEF Fits, IsLiteral
<1>3. i # 0 => Fits(Get(e.s, i, name), made.var)
  BY <1>2
<1>4. Safe(e, Updated(e, i, name, made, export))
  BY <1>2, <1>3, UpdatedIs
<1>5. update_or_add_raw(e, i, name, literal, export) = Updated(e, i, name, made, export)
  BY DEF update_or_add_raw
<1>. QED
  BY <1>4, <1>5

LEMMA ElementRawIs ==
  ASSUME NEW e, Right(e), NEW name \in Names, NEW index, NEW value
  PROVE  Safe(e, update_or_add_array_element_raw(e, name, index, value))
<1>. DEFINE o == update_or_add_array_element_raw(e, name, index, value)
<1>. PICK i : i = get(e.s, name)
  OBVIOUS
<1>1. CASE i # 0
  <2>. PICK made : made = assign_at_index(Get(e.s, i, name), index, value, FALSE)
    OBVIOUS
  <2>1. o = Stored(e, i, name, made)
    BY <1>1 DEF update_or_add_array_element_raw
  <2>2. Fits(Get(e.s, i, name), made.var) /\ IsVariable(made.var)
    BY <1>1, GotIs, AssignAtIndexFits DEF Fits
  <2>3. Safe(e, Stored(e, i, name, made))
    BY <1>1, <2>2, StoredWhereGot
  <2>. QED
    BY <2>1, <2>3
<1>2. CASE i = 0
  <2>. PICK items : items = <<<<index, value>>>>
    OBVIOUS
  <2>. PICK literal : literal = Array(items)
    OBVIOUS
  <2>. PICK empty : empty = Unset("untyped")
    OBVIOUS
  <2>. PICK append \in BOOLEAN : append = FALSE
    OBVIOUS
  <2>. PICK var : var = assign(empty, literal, append).var
    OBVIOUS
  <2>1. o = add(e, name, var, "global")
    BY <1>2 DEF update_or_add_array_element_raw
  <2>2. literal.array \in BOOLEAN /\ IsVariable(empty)
    BY UnsetIs DEF Array
  <2>3. IsVariable(var)
    BY <2>2, AssignFits DEF Fits
  <2>4. AddedMissing(e, add(e, name, var, "global"), name)
    BY <1>2, <2>3, AddMissing
  <2>. QED
    BY <2>1, <2>4 DEF AddedMissing
<1>. QED
  BY <1>1, <1>2

LEMMA UpdateIs ==
  ASSUME NEW e, Right(e), NEW name \in Names, NEW literal, IsLiteral(literal), NEW export
  PROVE  Safe(e, update_or_add(e, name, literal, export))
<1>. PICK target : target = resolve_target(e.s, name)
  OBVIOUS
<1>. PICK to : to = target[1]
  OBVIOUS
<1>1. target \in Targets
  BY ResolvedIs
<1>2. target # << >> => to \in Names
  BY <1>1, TargetIs
<1>3. update_or_add(e, name, literal, export) = UpdateThrough(e, target, literal, export)
  BY DEF update_or_add
<1>4. CASE target = << >>
  <2>1. UpdateThrough(e, target, literal, export) = Failed(e)
    BY <1>4 DEF UpdateThrough
  <2>. QED
    BY <1>3, <2>1, FailedIs
<1>5. CASE target # << >> /\ target[2] # NoKey
  <2>1. UpdateThrough(e, target, literal, export) =
          IF literal.array THEN Failed(e)
          ELSE update_or_add_array_element_raw(e, to, target[2], literal.value)
    BY <1>5 DEF UpdateThrough
  <2>2. Safe(e, update_or_add_array_element_raw(e, to, target[2], literal.value))
    BY <1>2, <1>5, ElementRawIs
  <2>. QED
    BY <1>3, <2>1, <2>2, FailedIs
<1>6. CASE target # << >> /\ target[2] = NoKey
  <2>. PICK i : i = get(e.s, to)
    OBVIOUS
  <2>1. UpdateThrough(e, target, literal, export) =
          update_or_add_raw(e, i, to, literal, export)
    BY <1>6 DEF UpdateThrough
  <2>2. Safe(e, update_or_add_raw(e, i, to, literal, export))
    BY <1>2, <1>6, UpdateRawIs
  <2>. QED
    BY <1>3, <2>1, <2>2
<1>. QED
  BY <1>4, <1>5, <1>6

LEMMA UpdateElementIs ==
  ASSUME NEW e, Right(e), NEW name \in Names, NEW index, NEW value
  PROVE  Safe(e, update_or_add_array_element(e, name, index, value))
<1>. DEFINE o == update_or_add_array_element(e, name, index, value)
<1>. PICK target : target = resolve_target(e.s, name)
  OBVIOUS
<1>. PICK to : to = target[1]
  OBVIOUS
<1>1. target \in Targets
  BY ResolvedIs
<1>2. target # << >> => to \in Names
  BY <1>1, TargetIs
<1>3. o = IF target = <<>> THEN Failed(e)
          ELSE IF target[2] # NoKey THEN Failed(e)
          ELSE update_or_add_array_element_raw(e, to, index, value)
  BY DEF update_or_add_array_element
<1>4. target # << >> => Safe(e, update_or_add_array_element_raw(e, to, index, value))
  BY <1>2, ElementRawIs
<1>. QED
  BY <1>3, <1>4, FailedIs

-----------------------------------------------------------------------------
(* unset.                                                                   *)
LEMMA UnsetRawIs ==
  ASSUME NEW e, Right(e), NEW name
  PROVE  Safe(e, unset_raw(e, name))
<1>. DEFINE o == unset_raw(e, name)
<1>. PICK i : i = get(e.s, name)
  OBVIOUS
<1>1. CASE i = 0
  <2>1. o = e
    BY <1>1 DEF unset_raw
  <2>. QED
    BY <2>1, FailedIs
<1>2. CASE i # 0 /\ Get(e.s, i, name).readonly
  <2>1. o = Failed(e)
    BY <1>2 DEF unset_raw
  <2>. QED
    BY <2>1, FailedIs
<1>3. CASE i # 0 /\ ~Get(e.s, i, name).readonly
  <2>1. /\ i \in 1 .. Len(e.s) /\ name \in DOMAIN e.s[i].map /\ name \in Names
        /\ Reaches(e.s, i, name)
    BY <1>3, GotIs
  <2>2. IsScopes(e.s) /\ DOMAIN e = {"s", "n", "ok"} /\ e.n = Cardinality(EntriesIn(e.s))
    BY DEF Right
  <2>3. CASE i = TopLocal(e.s)
    <3>. PICK var : var = Unset("untyped")
      OBVIOUS
    <3>. DEFINE t == Put(e.s, i, name, var)
    <3>1. o = [e EXCEPT !.s = t]
      BY <1>3, <2>3 DEF unset_raw
    <3>. PICK made : made = [var |-> var, ok |-> e.ok]
      OBVIOUS
    <3>2. made.var = var /\ made.ok = e.ok
      OBVIOUS
    <3>. HIDE DEF t
    <3>. DEFINE u == Stored(e, i, name, made)
    <3>3. u = [e EXCEPT !.s = t, !.ok = e.ok]
      BY <3>2 DEF Stored, t
    <3>4. o.s = u.s /\ o.n = u.n /\ DOMAIN o = DOMAIN e
      BY <2>2, <3>1, <3>3
    <3>. HIDE DEF u, o
    <3>5. IsVariable(made.var) /\ Fits(Get(e.s, i, name), made.var)
      BY <1>3, <3>2, UnsetIs, FitsFree
    <3>6. Safe(e, u)
      BY <1>3, <3>5, StoredWhereGot DEF u
    <3>7. Right(o)
      BY <2>2, <3>4, <3>6 DEF Safe, Settled, Right
    <3>. QED
      BY <3>4, <3>6, <3>7 DEF Safe, Settled, o
  <2>4. CASE i # TopLocal(e.s)
    <3>. PICK t : t = Without(e.s, i, name)
      OBVIOUS
    <3>1. o.s = t /\ o.n = e.n - 1 /\ DOMAIN o = DOMAIN e
      <4>1. o = [e EXCEPT !.n = @ - 1, !.s = t]
        BY <1>3, <2>4 DEF unset_raw
      <4>. QED
        BY <2>2, <4>1
    <3>. HIDE DEF o
    <3>3. /\ IsScopes(t)
          /\ Touches(e.s, t, i, name)
          /\ DOMAIN t = DOMAIN e.s
          /\ DOMAIN t[i].map = DOMAIN e.s[i].map \ {name}
      BY <2>1, <2>2, RemovedIs
    <3>4. <<i, name>> \in EntriesIn(e.s)
      BY <2>1, <2>2, ScopesAre DEF EntriesIn
    <3>5. EntriesIn(t) = EntriesIn(e.s) \ {<<i, name>>}
      BY <2>1, <2>2, <3>3, EntriesElsewhere
    <3>6. Cardinality(EntriesIn(t)) = Cardinality(EntriesIn(e.s)) - 1
      <4>1. IsFiniteSet(EntriesIn(e.s))
        BY <2>2, EntriesAreFinite
      <4>. QED
        BY <3>4, <3>5, <4>1, FS_RemoveElement
    <3>7. Right(o) /\ SameStack(e.s, o.s)
      BY <2>2, <3>1, <3>3, <3>6 DEF Right, Touches
    <3>8. LocalsStay(e.s, t)
      <4>1. TopLocal(e.s) # 0 /\ name \in DOMAIN e.s[TopLocal(e.s)].map =>
              i >= TopLocal(e.s) /\ name \in DOMAIN t[TopLocal(e.s)].map
        <5>. SUFFICES ASSUME TopLocal(e.s) # 0, name \in DOMAIN e.s[TopLocal(e.s)].map
                      PROVE  i >= TopLocal(e.s) /\ name \in DOMAIN t[TopLocal(e.s)].map
          OBVIOUS
        <5>1. i >= TopLocal(e.s)
          BY <2>1 DEF Reaches
        <5>2. TopLocal(e.s) \in 1 .. Len(e.s)
          BY <2>2, TopLocalIs
        <5>3. \A j \in 1 .. Len(e.s) : j # i => t[j] = e.s[j]
          BY <3>3 DEF Touches
        <5>4. name \in DOMAIN t[TopLocal(e.s)].map
          BY <2>4, <5>2, <5>3
        <5>. QED
          BY <5>1, <5>4
      <4>. QED
        BY <2>1, <2>2, <3>3, <4>1, TouchesLocals
    <3>9. ReadonlyStay(e.s, t)
      BY <1>3, <2>1, <2>2, <3>3, TouchesReadonly DEF Get
    <3>. QED
      BY <3>1, <3>7, <3>8, <3>9 DEF Safe, Settled, o
  <2>. QED
    BY <2>3, <2>4
<1>. QED
  BY <1>1, <1>2, <1>3

LEMMA UnsetIndexRawIs ==
  ASSUME NEW e, Right(e), NEW name, NEW index
  PROVE  Settled(e, unset_index_raw(e, name, index))
<1>. PICK i : i = get(e.s, name)
  OBVIOUS
<1>1. CASE i = 0
  <2>1. unset_index_raw(e, name, index) = e
    BY <1>1 DEF unset_index_raw
  <2>. QED
    BY <2>1, FailedIs DEF Safe
<1>2. CASE i # 0
  <2>. PICK made : made = unset_index(Get(e.s, i, name), index)
    OBVIOUS
  <2>1. unset_index_raw(e, name, index) = Stored(e, i, name, made)
    BY <1>2 DEF unset_index_raw
  <2>2. IsVariable(made.var)
    BY <1>2, GotIs, UnsetIndexIs
  <2>3. Settled(e, Stored(e, i, name, made))
    BY <1>2, <2>2, StoredWhereGot
  <2>. QED
    BY <2>1, <2>3
<1>. QED
  BY <1>1, <1>2

LEMMA UnsetNameIs ==
  ASSUME NEW e, Right(e), NEW name
  PROVE  LET target == resolve_target(e.s, name)
         IN /\ Settled(e, unset(e, name))
            /\ ~(target # << >> /\ target[2] # NoKey) => Safe(e, unset(e, name))
<1>. PICK target : target = resolve_target(e.s, name)
  OBVIOUS
<1>1. CASE target = << >>
  <2>1. unset(e, name) = Failed(e)
    BY <1>1 DEF unset
  <2>. QED
    BY <2>1, FailedIs DEF Safe
<1>2. CASE target # << >> /\ target[2] # NoKey
  <2>1. unset(e, name) = unset_index_raw(e, target[1], target[2])
    BY <1>2 DEF unset
  <2>. QED
    BY <1>2, <2>1, UnsetIndexRawIs
<1>3. CASE target # << >> /\ target[2] = NoKey
  <2>1. unset(e, name) = unset_raw(e, target[1])
    BY <1>3 DEF unset
  <2>. QED
    BY <2>1, UnsetRawIs DEF Safe
<1>. QED
  BY <1>1, <1>2, <1>3

LEMMA UnsetElementIs ==
  ASSUME NEW e, Right(e), NEW name, NEW index
  PROVE  Settled(e, UnsetElement(e, name, index))
<1>. PICK target : target = resolve_target(e.s, name)
  OBVIOUS
<1>1. UnsetElement(e, name, index) \in {Failed(e), unset_index_raw(e, target[1], index)}
  BY DEF UnsetElement
<1>. QED
  BY <1>1, FailedIs, UnsetIndexRawIs DEF Safe

-----------------------------------------------------------------------------
(* declare, local, readonly and export.                                     *)
IsDeclaration(d) ==
  /\ d.name \in Names
  /\ d.verb \in {"declare", "local", "readonly"}
  /\ d.global \in BOOLEAN /\ (d.verb # "declare" => ~d.global)
  /\ d.type \in {"keep", "indexed", "assoc"}
  /\ d.append \in BOOLEAN
  /\ d.assigns => IsLiteral(d.literal)

LEMMA MadeFits ==
  ASSUME NEW d, IsDeclaration(d), NEW var, NEW made, Fits(var, made.var), IsVariable(made.var),
         NEW append \in BOOLEAN
  PROVE  Fits(var, Finished(d, Initialised(d, made, append)).var)
<1>. PICK then : then = Initialised(d, made, append)
  OBVIOUS
<1>1. Fits(var, then.var)
  <2>1. CASE ~made.ok \/ ~d.assigns
    <3>1. then = made
      BY <2>1 DEF Initialised
    <3>. QED
      BY <3>1
  <2>2. CASE made.ok /\ d.assigns
    <3>1. then = assign(made.var, d.literal, append)
      BY <2>2 DEF Initialised
    <3>2. d.literal.array \in BOOLEAN
      BY <2>2 DEF IsDeclaration, IsLiteral
    <3>3. Fits(made.var, then.var)
      BY <3>1, <3>2, AssignFits
    <3>. QED
      BY <3>3, FitsAgain
  <2>. QED
    BY <2>1, <2>2
<1>. PICK old : old = then.var
  OBVIOUS
<1>. DEFINE readonly == [old EXCEPT !.readonly = TRUE]
<1>2. IsVariable(old)
  BY <1>1 DEF Fits
<1>3. Fits(old, readonly)
  <2>1. /\ DOMAIN old = {"kind", "set", "elems", "readonly", "exported", "nameref"}
        /\ {old.set, old.readonly, old.exported, old.nameref} \subseteq BOOLEAN
    BY <1>2 DEF IsVariable
  <2>2. /\ DOMAIN readonly = DOMAIN old
        /\ readonly.kind = old.kind /\ readonly.set = old.set /\ readonly.elems = old.elems
        /\ readonly.readonly = TRUE /\ readonly.exported = old.exported /\ readonly.nameref = old.nameref
    BY <2>1
  <2>. HIDE DEF readonly
  <2>. QED
    BY <1>2, <2>1, <2>2, AttributesFit
<1>4. Fits(var, readonly)
  BY <1>1, <1>3, FitsAgain
<1>. HIDE DEF readonly
<1>5. After(d, old).var \in {old, readonly}
  <2>. USE DEF readonly
  <2>1. CASE d.verb = "readonly" \/ d.readonly = "on"
    BY <2>1 DEF After, Ok
  <2>2. CASE d.verb # "readonly" /\ d.readonly = "off"
    BY <2>2 DEF After, Ok, Err
  <2>3. CASE d.verb # "readonly" /\ d.readonly \notin {"on", "off"}
    BY <2>3 DEF After, Ok
  <2>. QED
    BY <2>1, <2>2, <2>3
<1>6. Finished(d, then).var \in {old, After(d, old).var}
  BY DEF Finished
<1>. QED
  BY <1>1, <1>4, <1>5, <1>6

LEMMA BeforeFits ==
  ASSUME NEW d, NEW var, IsVariable(var)
  PROVE  Fits(var, Before(d, var))
<1>. DEFINE new == Before(d, var)
<1>1. /\ DOMAIN var = {"kind", "set", "elems", "readonly", "exported", "nameref"}
      /\ {var.set, var.readonly, var.exported, var.nameref} \subseteq BOOLEAN
  BY DEF IsVariable
<1>2. /\ DOMAIN new = DOMAIN var
      /\ new.kind = var.kind /\ new.set = var.set /\ new.elems = var.elems
      /\ new.readonly = var.readonly
      /\ new.exported = (var.exported \/ d.export)
      /\ new.nameref = IF d.nameref = "keep" THEN var.nameref ELSE d.nameref = "on"
  BY <1>1 DEF Before
<1>. HIDE DEF new
<1>3. new.exported \in BOOLEAN /\ new.nameref \in BOOLEAN
  BY <1>1, <1>2
<1>4. Fits(var, new)
  BY <1>1, <1>2, <1>3, AttributesFit
<1>. QED
  BY <1>4 DEF new

LEMMA DeclaredFits ==
  ASSUME NEW d, IsDeclaration(d), NEW var, IsVariable(var)
  PROVE  Fits(var, Declared(d, Converted(d, var)).var)
<1>. PICK conv : conv = Converted(d, var)
  OBVIOUS
<1>1. Fits(var, conv.var)
  <2>1. CASE d.type = "assoc"
    BY <2>1, ConvertedFits DEF Converted
  <2>2. CASE d.type = "indexed"
    BY <2>2, ConvertedFits DEF Converted
  <2>3. CASE d.type \notin {"assoc", "indexed"}
    BY <2>3, OkErr, FitsItself DEF Converted
  <2>. QED
    BY <2>1, <2>2, <2>3
<1>. PICK made : made = IF conv.ok THEN Ok(Before(d, conv.var)) ELSE conv
  OBVIOUS
<1>2. Fits(var, made.var)
  <2>1. CASE conv.ok
    <3>1. Fits(conv.var, Before(d, conv.var))
      BY <1>1, BeforeFits DEF Fits
    <3>2. made.var = Before(d, conv.var)
      BY <2>1, OkErr
    <3>. QED
      BY <1>1, <3>1, <3>2, FitsAgain
  <2>2. CASE ~conv.ok
    BY <1>1, <2>2
  <2>. QED
    BY <2>1, <2>2
<1>. PICK append \in BOOLEAN : append = d.append
  BY DEF IsDeclaration
<1>3. Declared(d, conv) = Finished(d, Initialised(d, made, append))
  BY DEF Declared
<1>4. IsVariable(made.var)
  BY <1>2 DEF Fits
<1>. QED
  BY <1>2, <1>3, <1>4, MadeFits

LEMMA NewlyDeclaredIs ==
  ASSUME NEW d, IsDeclaration(d)
  PROVE  IsVariable(NewlyDeclared(d).var)
<1>. PICK kind : kind = IF d.type # "keep" THEN d.type
                        ELSE IF d.assigns /\ d.literal.array THEN "indexed" ELSE "untyped"
  OBVIOUS
<1>1. kind \in {"untyped", "indexed", "assoc"}
  BY DEF IsDeclaration
<1>. PICK var : var = Before(d, Unset(kind))
  OBVIOUS
<1>2. IsVariable(var)
  BY <1>1, UnsetIs, BeforeFits DEF Fits
<1>. PICK made : made = Ok(var)
  OBVIOUS
<1>. PICK append \in BOOLEAN : append = FALSE
  OBVIOUS
<1>3. made.var = var /\ Fits(var, made.var)
  BY <1>2, OkErr, FitsItself
<1>4. NewlyDeclared(d) = Finished(d, Initialised(d, made, append))
  BY DEF NewlyDeclared
<1>5. Fits(var, Finished(d, Initialised(d, made, append)).var)
  BY <1>2, <1>3, MadeFits
<1>. QED
  BY <1>4, <1>5 DEF Fits

(* A declaration keeps the readonly variables; one that is not of a global  *)
(* reaches no variable behind a local.                                      *)
DeclaresWell(e, o, d) ==
  /\ Right(o)
  /\ SameStack(e.s, o.s)
  /\ ~d.global => LocalsStay(e.s, o.s)
  /\ ReadonlyStay(e.s, o.s)

LEMMA DeclarationIs ==
  ASSUME NEW e, Right(e), e.s = environment,
         NEW d, IsDeclaration(d), d.verb = "local" => InFunction
  PROVE  DeclaresWell(e, process_declaration(e, d), d)
<1>. DEFINE o == process_declaration(e, d)
<1>. PICK policy : policy = declaration_lookup(d)
  OBVIOUS
<1>. PICK name : name = d.name
  OBVIOUS
<1>. PICK i : i = At(e.s, name, policy)
  OBVIOUS
<1>. PICK top : top = TopLocal(e.s)
  OBVIOUS
<1>0. /\ IsScopes(e.s) /\ name \in Names /\ Len(e.s) \in Nat /\ Len(e.s) >= 1
      /\ DOMAIN e.s = 1 .. Len(e.s) /\ e.s[1].type = "global"
  BY ScopesAre DEF Right, IsDeclaration
<1>1. /\ top \in 0 .. Len(e.s)
      /\ top # 0 => e.s[top].type = "local"
      /\ \A j \in 1 .. Len(e.s) : e.s[j].type = "local" => j <= top
  BY <1>0, TopLocalIs
<1>2. CreatesLocal(d) => top # 0 /\ ~d.global
  BY DEF CreatesLocal, InFunction, IsDeclaration
<1>3. /\ d.global => policy = "global" /\ Visible(e.s, policy) = {j \in 1 .. Len(e.s) : e.s[j].type = "global"}
      /\ CreatesLocal(d) => policy = "current local" /\ Visible(e.s, policy) = {top}
      /\ ~d.global /\ ~CreatesLocal(d) => policy = "anywhere" /\ Visible(e.s, policy) = 1 .. Len(e.s)
  BY <1>0, <1>2 DEF declaration_lookup, Visible
<1>4. Visible(e.s, policy) \subseteq 1 .. Len(e.s)
  <2>1. CASE d.global
    BY <1>3, <2>1
  <2>2. CASE CreatesLocal(d)
    <3>1. Visible(e.s, policy) = {top}
      BY <1>3, <2>2
    <3>2. top \in 1 .. Len(e.s)
      BY <1>0, <1>1, <1>2, <2>2
    <3>. QED
      BY <3>1, <3>2
  <2>3. CASE ~d.global /\ ~CreatesLocal(d)
    BY <1>3, <2>3
  <2>. QED
    BY <2>1, <2>2, <2>3
<1>5. /\ i \in 0 .. Len(e.s)
      /\ i # 0 => i \in Visible(e.s, policy) /\ name \in DOMAIN e.s[i].map
      /\ \A j \in Visible(e.s, policy) : name \in DOMAIN e.s[j].map => j <= i /\ i # 0
  BY <1>0, <1>4, AtIs
<1>6. o = DeclaredAt(e, d, i)
  BY DEF process_declaration
<1>7. ASSUME ~d.global, i # 0
      PROVE  Reaches(e.s, i, name)
  <2>1. CASE CreatesLocal(d)
    BY <1>0, <1>1, <1>3, <1>5, <1>7, <2>1 DEF Reaches
  <2>2. CASE ~CreatesLocal(d)
    <3>1. i = get(e.s, name)
      BY <1>3, <1>7, <2>2 DEF get
    <3>. QED
      BY <1>0, <3>1, GetReaches
  <2>. QED
    BY <2>1, <2>2
<1>8. CASE i # 0
  <2>. PICK made : made = Declared(d, Converted(d, Get(e.s, i, name)))
    OBVIOUS
  <2>1. o = Stored(e, i, name, made)
    BY <1>6, <1>8 DEF DeclaredAt
  <2>2. i \in 1 .. Len(e.s) /\ name \in DOMAIN e.s[i].map
    BY <1>4, <1>5, <1>8
  <2>3. IsVariable(Get(e.s, i, name))
    BY <1>0, <2>2, ScopesAre DEF Get
  <2>4. Fits(Get(e.s, i, name), made.var)
    BY <2>3, DeclaredFits
  <2>5. StoredAs(e, Stored(e, i, name, made), i, name, made.var)
    BY <2>2, <2>4, StoredIs DEF Fits
  <2>. QED
    BY <1>7, <1>8, <2>1, <2>4, <2>5 DEF StoredAs, DeclaresWell, Fits, Get
<1>9. CASE i = 0
  <2>. PICK new : new = NewlyDeclared(d)
    OBVIOUS
  <2>. PICK type : type = IF CreatesLocal(d) THEN "local" ELSE "global"
    OBVIOUS
  <2>1. o = AddedDeclared(e, d, new)
    BY <1>6, <1>9 DEF DeclaredAt
  <2>2. CASE ~new.ok
    <3>1. o = Failed(e)
      BY <2>1, <2>2 DEF AddedDeclared
    <3>. QED
      BY <3>1, FailedIs DEF DeclaresWell, Safe, Settled
  <2>3. CASE new.ok
    <3>. PICK var : var = new.var
      OBVIOUS
    <3>. PICK p : p = add(e, name, var, type)
      OBVIOUS
    <3>. PICK j : j = InnermostScope(e.s, type)
      OBVIOUS
    <3>1. o = p
      BY <2>1, <2>3 DEF AddedDeclared
    <3>2. \E k \in 1 .. Len(e.s) : e.s[k].type = type
      <4>1. CASE CreatesLocal(d)
        BY <1>1, <1>2, <4>1
      <4>2. CASE ~CreatesLocal(d)
        BY <1>0, <4>2
      <4>. QED
        BY <4>1, <4>2
    <3>3. IsVariable(var)
      BY NewlyDeclaredIs
    <3>4. /\ Right(p) /\ SameStack(e.s, p.s)
          /\ Reaches(e.s, j, name) => LocalsStay(e.s, p.s)
          /\ name \notin DOMAIN e.s[j].map => ReadonlyStay(e.s, p.s)
      BY <1>0, <3>2, <3>3, AddIs
    <3>5. /\ j \in 1 .. Len(e.s) /\ e.s[j].type = type
          /\ \A k \in 1 .. Len(e.s) : e.s[k].type = type => k <= j
      BY <1>0, <3>2, InnermostIs
    <3>6. j \in Visible(e.s, policy)
      <4>1. CASE CreatesLocal(d)
        <5>1. j <= top /\ top <= j
          BY <1>1, <1>2, <3>5, <4>1
        <5>2. j \in Nat /\ top \in Nat
          BY <1>0, <1>1, <3>5
        <5>3. j = top
          BY <5>1, <5>2
        <5>. QED
          BY <1>3, <4>1, <5>3
      <4>2. CASE ~CreatesLocal(d)
        BY <1>3, <3>5, <4>2
      <4>. QED
        BY <4>1, <4>2
    <3>7. name \notin DOMAIN e.s[j].map
      BY <1>5, <1>9, <3>6
    <3>8. ASSUME ~d.global
          PROVE  Reaches(e.s, j, name)
      <4>1. CASE CreatesLocal(d)
        BY <1>5, <1>9, <1>3, <4>1 DEF Reaches
      <4>2. CASE ~CreatesLocal(d)
        <5>1. get(e.s, name) = 0
          BY <1>3, <1>9, <3>8, <4>2 DEF get
        <5>. QED
          BY <1>0, <5>1, GetReaches
      <4>. QED
        BY <4>1, <4>2
    <3>. QED
      BY <3>1, <3>4, <3>7, <3>8 DEF DeclaresWell
  <2>. QED
    BY <2>2, <2>3
<1>. QED
  BY <1>8, <1>9

LEMMA ExportIs ==
  ASSUME NEW e, Right(e), NEW name \in Names, NEW on \in BOOLEAN
  PROVE  Safe(e, ExportName(e, name, on))
<1>. DEFINE o == ExportName(e, name, on)
<1>. PICK found : found = get_mut(e, name)
  OBVIOUS
<1>0. Found(e, name, found)
  BY MutIs
<1>1. Safe(e, found.e) /\ Right(found.e)
  BY <1>0 DEF Found, Safe, Settled
<1>2. NoVariable # FailedNameref
  BY DEF NoVariable, FailedNameref
<1>3. CASE found.at = NoVariable /\ on
  <2>. PICK var : var = Exported(Unset("untyped"), TRUE)
    OBVIOUS
  <2>1. o = add(e, name, var, "global")
    BY <1>2, <1>3 DEF ExportName
  <2>2. IsVariable(var)
    BY UnsetIs, ExportedFits DEF Fits
  <2>3. get(e.s, name) = 0
    BY <1>0, <1>3 DEF Found
  <2>4. AddedMissing(e, add(e, name, var, "global"), name)
    BY <2>2, <2>3, AddMissing
  <2>. QED
    BY <2>1, <2>4 DEF AddedMissing
<1>4. CASE found.at = NoVariable /\ ~on
  <2>1. o = e
    BY <1>2, <1>4 DEF ExportName
  <2>. QED
    BY <2>1, FailedIs
<1>5. CASE found.at = FailedNameref
  <2>1. o = found.e
    BY <1>2, <1>5 DEF ExportName
  <2>. QED
    BY <1>1, <2>1
<1>6. CASE found.at \notin {NoVariable, FailedNameref}
  <2>. PICK old : old = Get(found.e.s, found.at, found.name)
    OBVIOUS
  <2>. DEFINE new == [old EXCEPT !.exported = on]
  <2>. PICK made : made = Ok(new)
    OBVIOUS
  <2>1. o = Stored(found.e, found.at, found.name, made)
    BY <1>6 DEF ExportName
  <2>2. found.at = get(found.e.s, found.name) /\ get(found.e.s, found.name) # 0
    BY <1>0, <1>6 DEF Found
  <2>3. IsVariable(old)
    BY <1>1, <2>2, GotIs
  <2>4. Fits(old, new)
    <3>1. /\ DOMAIN old = {"kind", "set", "elems", "readonly", "exported", "nameref"}
          /\ {old.set, old.readonly, old.exported, old.nameref} \subseteq BOOLEAN
      BY <2>3 DEF IsVariable
    <3>2. /\ DOMAIN new = DOMAIN old
          /\ new.kind = old.kind /\ new.set = old.set /\ new.elems = old.elems
          /\ new.readonly = old.readonly /\ new.exported = on /\ new.nameref = old.nameref
      BY <3>1
    <3>. HIDE DEF new
    <3>. QED
      BY <2>3, <3>1, <3>2, AttributesFit
  <2>5. made.var = new
    BY OkErr
  <2>. HIDE DEF new
  <2>6. Fits(old, made.var) /\ IsVariable(made.var)
    BY <2>4, <2>5 DEF Fits
  <2>7. Safe(found.e, Stored(found.e, found.at, found.name, made))
    BY <1>1, <2>2, <2>6, StoredWhereGot
  <2>. QED
    BY <1>1, <2>1, <2>7, SafeAgain
<1>. QED
  BY <1>3, <1>4, <1>5, <1>6

-----------------------------------------------------------------------------
(* Scopes pushed and popped.                                                *)
Agree(s, t, n) == \A i \in 1 .. n : t[i] = s[i]

LEMMA AgreeLocals ==
  ASSUME NEW s, NEW t, NEW u, IsScopes(s), LocalsStay(s, t), Agree(t, u, Len(s))
  PROVE  LocalsStay(s, u)
<1>1. PICK top : top = TopLocal(s)
  OBVIOUS
<1>2. top \in 0 .. Len(s) /\ Len(s) \in Nat
  BY <1>1, TopLocalIs, ScopesAre
<1>3. ASSUME NEW x \in Names, NEW j \in 1 .. top - 1, x \in DOMAIN s[top].map
      PROVE  /\ x \in DOMAIN u[top].map
             /\ x \in DOMAIN s[j].map <=> x \in DOMAIN u[j].map
             /\ x \in DOMAIN s[j].map => u[j].map[x] = s[j].map[x]
  <2>1. /\ x \in DOMAIN t[top].map
        /\ x \in DOMAIN s[j].map <=> x \in DOMAIN t[j].map
        /\ x \in DOMAIN s[j].map => t[j].map[x] = s[j].map[x]
    BY <1>1, <1>3 DEF LocalsStay
  <2>2. j \in 1 .. Len(s) /\ top \in 1 .. Len(s)
    BY <1>2
  <2>3. u[j] = t[j] /\ u[top] = t[top]
    BY <2>2 DEF Agree
  <2>. QED
    BY <2>1, <2>3
<1>. QED
  BY <1>1, <1>3 DEF LocalsStay

LEMMA AgreeReadonly ==
  ASSUME NEW s, NEW t, NEW u, IsScopes(s), DOMAIN s \subseteq DOMAIN t,
         ReadonlyStay(s, t),
         Agree(t, u, Len(s)) \/ (Agree(t, u, Len(s) - 1) /\ DOMAIN u = 1 .. Len(s) - 1)
  PROVE  ReadonlyStay(s, u)
<1>1. DOMAIN s = 1 .. Len(s) /\ Len(s) \in Nat
  BY ScopesAre
<1>2. ASSUME NEW i \in DOMAIN s \intersect DOMAIN u
      PROVE  u[i] = t[i] /\ i \in DOMAIN s \intersect DOMAIN t
  <2>1. CASE Agree(t, u, Len(s))
    BY <1>1, <2>1 DEF Agree
  <2>2. CASE Agree(t, u, Len(s) - 1) /\ DOMAIN u = 1 .. Len(s) - 1
    BY <1>1, <2>2 DEF Agree
  <2>. QED
    BY <2>1, <2>2
<1>3. ASSUME NEW i \in DOMAIN s \intersect DOMAIN u, NEW x \in DOMAIN s[i].map, s[i].map[x].readonly
      PROVE  x \in DOMAIN u[i].map /\ Keeps(s[i].map[x], u[i].map[x])
  <2>1. x \in DOMAIN t[i].map /\ Keeps(s[i].map[x], t[i].map[x])
    BY <1>2, <1>3 DEF ReadonlyStay
  <2>. QED
    BY <1>2, <2>1
<1>. QED
  BY <1>3 DEF ReadonlyStay

LEMMA MapIsFinite ==
  ASSUME NEW map, IsMap(map)
  PROVE  IsFiniteSet(DOMAIN map) /\ DOMAIN map \subseteq Names
<1>1. DOMAIN map \in SUBSET Names
  BY DEF IsMap
<1>. QED
  BY <1>1, FS_Subset, EnvironmentAssumption

LEMMA PushedIs ==
  ASSUME NEW e, Right(e), NEW type \in {"local", "command"}
  PROVE  LET o == PushedScope(e, type)
             n == Len(e.s)
         IN /\ Right(o)
            /\ Len(o.s) = n + 1
            /\ Agree(e.s, o.s, n)
            /\ o.s[n + 1].type = type /\ o.s[n + 1].map = << >>
<1>. DEFINE o == PushedScope(e, type)
            t == Append(e.s, [type |-> type, map |-> << >>])
<1>. PICK n : n = Len(e.s)
  OBVIOUS
<1>1. /\ IsScopes(e.s) /\ DOMAIN e = {"s", "n", "ok"} /\ e.n = Cardinality(EntriesIn(e.s))
      /\ n \in Nat /\ n >= 1 /\ DOMAIN e.s = 1 .. n
  BY ScopesAre DEF Right
<1>. PICK scope : scope = [type |-> type, map |-> << >>]
  OBVIOUS
<1>2. IsScope(scope) /\ scope.type = type /\ scope.map = << >>
  <2>1. scope.type = type /\ scope.map = << >> /\ scope = [type |-> scope.type, map |-> scope.map]
    OBVIOUS
  <2>2. IsMap(<< >>)
    BY DEF IsMap
  <2>. QED
    BY <2>1, <2>2 DEF IsScope
<1>3. /\ t = [i \in 1 .. n + 1 |-> t[i]]
      /\ Len(t) = n + 1
      /\ \A i \in 1 .. n : t[i] = e.s[i]
      /\ t[n + 1] = scope
  <2>1. PICK T : e.s \in Seq(T)
    <3>1. e.s = [i \in 1 .. n |-> e.s[i]]
      BY <1>1 DEF IsScopes
    <3>. QED
      BY <1>1, <3>1, SequenceIs
  <2>2. e.s \in Seq(T \union {scope}) /\ scope \in T \union {scope}
    BY <2>1
  <2>. QED
    BY <1>1, <2>2
<1>. HIDE DEF t
<1>4. \A i \in 1 .. Len(e.s) : IsScope(e.s[i])
  BY <1>1 DEF IsScopes
<1>5. ASSUME NEW i \in 1 .. n + 1
      PROVE  IsScope(t[i])
  <2>1. CASE i = n + 1
    BY <1>2, <1>3, <2>1
  <2>2. CASE i # n + 1
    <3>1. i \in 1 .. n
      BY <1>1, <2>2
    <3>. QED
      BY <1>3, <1>4, <3>1
  <2>. QED
    BY <2>1, <2>2
<1>6. IsScopes(t)
  <2>1. t[1].type = "global"
    <3>1. 1 \in 1 .. n /\ e.s[1].type = "global"
      BY <1>1, ScopesAre
    <3>. QED
      BY <1>3, <3>1
  <2>2. n + 1 \in Nat \ {0}
    BY <1>1
  <2>. QED
    BY <1>3, <1>5, <2>1, <2>2 DEF IsScopes
<1>7. EntriesIn(t) = EntriesIn(e.s)
  <2>1. DOMAIN t = 1 .. n + 1 /\ DOMAIN t[n + 1].map = {}
    BY <1>2, <1>3
  <2>2. ASSUME NEW p \in (1 .. n + 1) \X Names
        PROVE  p[2] \in DOMAIN t[p[1]].map <=> p[1] \in 1 .. n /\ p[2] \in DOMAIN e.s[p[1]].map
    <3>1. CASE p[1] = n + 1
      BY <1>1, <2>1, <3>1
    <3>2. CASE p[1] # n + 1
      <4>1. p[1] \in 1 .. n
        BY <1>1, <3>2
      <4>. QED
        BY <1>3, <4>1
    <3>. QED
      BY <3>1, <3>2
  <2>. QED
    BY <1>1, <2>1, <2>2 DEF EntriesIn
<1>8. o.s = t /\ o.n = e.n /\ DOMAIN o = DOMAIN e
  BY <1>1 DEF PushedScope, t
<1>. HIDE DEF o
<1>9. Right(o)
  BY <1>1, <1>6, <1>7, <1>8 DEF Right
<1>10. Agree(e.s, o.s, n)
  BY <1>3, <1>8 DEF Agree
<1>. QED
  BY <1>2, <1>3, <1>8, <1>9, <1>10 DEF o

LEMMA PoppedIs ==
  ASSUME NEW e, Right(e), Len(e.s) > 1
  PROVE  LET o == PoppedScope(e)
             n == Len(e.s)
         IN /\ Right(o)
            /\ Len(o.s) = n - 1 /\ DOMAIN o.s = 1 .. n - 1
            /\ Agree(e.s, o.s, n - 1)
<1>. DEFINE o == PoppedScope(e)
            t == Front(e.s)
<1>. PICK n : n = Len(e.s)
  OBVIOUS
<1>1. /\ IsScopes(e.s) /\ DOMAIN e = {"s", "n", "ok"} /\ e.n = Cardinality(EntriesIn(e.s))
      /\ n \in Nat /\ n > 1 /\ DOMAIN e.s = 1 .. n
  BY ScopesAre DEF Right
<1>2. /\ t = [i \in 1 .. n - 1 |-> t[i]]
      /\ Len(t) = n - 1
      /\ \A i \in 1 .. n - 1 : t[i] = e.s[i]
  <2>1. PICK T : e.s \in Seq(T)
    <3>1. e.s = [i \in 1 .. n |-> e.s[i]]
      BY <1>1 DEF IsScopes
    <3>. QED
      BY <1>1, <3>1, SequenceIs
  <2>2. t = SubSeq(e.s, 1, n - 1)
    BY DEF Front
  <2>3. \A i \in 1 .. n - 1 : e.s[i] \in T
    BY <1>1, <2>1
  <2>. HIDE DEF t
  <2>. PICK m \in Nat : m = n - 1
    BY <1>1
  <2>4. t = [i \in 1 .. m |-> e.s[i]]
    BY <1>1, <2>1, <2>2, <2>3
  <2>5. t = [i \in 1 .. m |-> t[i]] /\ \A i \in 1 .. m : t[i] = e.s[i]
    BY <2>4
  <2>6. Len(t) = m
    BY <2>5, SequenceIs
  <2>. QED
    BY <2>5, <2>6
<1>3. Last(e.s) = e.s[n]
  BY DEF Last
<1>. HIDE DEF t
<1>. DEFINE D == DOMAIN e.s[n].map
<1>4. n \in 1 .. n /\ IsMap(e.s[n].map)
  BY <1>1, ScopesAre
<1>5. IsFiniteSet(D) /\ D \subseteq Names
  BY <1>4, MapIsFinite
<1>6. \A i \in 1 .. n - 1 : IsScope(t[i])
  BY <1>1, <1>2 DEF IsScopes
<1>7. IsScopes(t)
  <2>1. t[1].type = "global"
    <3>1. 1 \in 1 .. n - 1 /\ e.s[1].type = "global"
      BY <1>1, ScopesAre
    <3>. QED
      BY <1>2, <3>1
  <2>2. n - 1 \in Nat \ {0}
    <3>1. \A k \in Nat : k > 1 => k - 1 \in Nat \ {0}
      OBVIOUS
    <3>. QED
      BY <1>1, <3>1
  <2>. QED
    BY <1>2, <1>6, <2>1, <2>2 DEF IsScopes
<1>8. EntriesIn(e.s) = EntriesIn(t) \union ({n} \X D) /\ EntriesIn(t) \intersect ({n} \X D) = {}
  <2>1. DOMAIN t = 1 .. n - 1
    BY <1>2
  <2>2. ASSUME NEW p \in (1 .. n) \X Names
        PROVE  p[2] \in DOMAIN e.s[p[1]].map <=>
                 \/ p[1] \in 1 .. n - 1 /\ p[2] \in DOMAIN t[p[1]].map
                 \/ p[1] = n /\ p[2] \in D
    <3>1. CASE p[1] = n
      BY <1>1, <3>1
    <3>2. CASE p[1] # n
      <4>1. p[1] \in 1 .. n - 1
        BY <1>1, <3>2
      <4>. QED
        BY <1>1, <1>2, <3>2, <4>1
    <3>. QED
      BY <3>1, <3>2
  <2>3. ASSUME NEW p
        PROVE  p \in EntriesIn(e.s) <=> p \in EntriesIn(t) \/ p \in {n} \X D
    <3>1. p \in EntriesIn(e.s) <=> p \in (1 .. n) \X Names /\ p[2] \in DOMAIN e.s[p[1]].map
      BY <1>1 DEF EntriesIn
    <3>2. p \in EntriesIn(t) <=> p \in (1 .. n - 1) \X Names /\ p[2] \in DOMAIN t[p[1]].map
      BY <2>1 DEF EntriesIn
    <3>3. p \in {n} \X D <=> p \in (1 .. n) \X Names /\ p[1] = n /\ p[2] \in D
      BY <1>4, <1>5
    <3>4. p \in (1 .. n - 1) \X Names <=> p \in (1 .. n) \X Names /\ p[1] \in 1 .. n - 1
      BY <1>1
    <3>. HIDE DEF D
    <3>. QED
      BY <2>2, <3>1, <3>2, <3>3, <3>4
  <2>4. ASSUME NEW p \in EntriesIn(t)
        PROVE  p \notin {n} \X D
    BY <1>1, <2>1 DEF EntriesIn
  <2>. QED
    BY <2>3, <2>4
<1>. HIDE DEF D
<1>9. Cardinality(EntriesIn(t)) = Cardinality(EntriesIn(e.s)) - Cardinality(D)
  <2>1. IsFiniteSet({n}) /\ Cardinality({n}) = 1
    BY FS_Singleton
  <2>2. IsFiniteSet({n} \X D) /\ Cardinality({n} \X D) = Cardinality({n}) * Cardinality(D)
    BY <1>5, <2>1, FS_Product
  <2>3. PICK d \in Nat : d = Cardinality(D)
    BY <1>5, FS_CardinalityType
  <2>4. Cardinality({n} \X D) = d
    BY <2>1, <2>2, <2>3
  <2>5. IsFiniteSet(EntriesIn(t)) /\ Cardinality(EntriesIn(t)) \in Nat
    BY <1>7, EntriesAreFinite
  <2>6. Cardinality(EntriesIn(e.s)) =
          Cardinality(EntriesIn(t)) + Cardinality({n} \X D) - Cardinality(EntriesIn(t) \intersect ({n} \X D))
    BY <1>8, <2>2, <2>5, FS_Union
  <2>7. Cardinality(EntriesIn(t) \intersect ({n} \X D)) = 0
    BY <1>8, FS_EmptySet
  <2>. QED
    BY <2>3, <2>4, <2>5, <2>6, <2>7
<1>10. o.s = t /\ o.n = e.n - Cardinality(D) /\ DOMAIN o = DOMAIN e
  BY <1>1, <1>3 DEF PoppedScope, t, D
<1>. HIDE DEF o
<1>11. Right(o)
  BY <1>1, <1>7, <1>9, <1>10 DEF Right
<1>12. Agree(e.s, o.s, n - 1)
  BY <1>2, <1>10 DEF Agree
<1>13. Len(o.s) = n - 1 /\ DOMAIN o.s = 1 .. n - 1
  BY <1>2, <1>10
<1>. QED
  BY <1>11, <1>12, <1>13 DEF o
-----------------------------------------------------------------------------
(* Steps.                                                                   *)
StepKeeps ==
  /\ Len(environment') >= Len(environment) /\ last' \notin {"shell", "global"}
       => LocalsStay(environment, environment')
  /\ last' \notin {"shell", "element"} => ReadonlyStay(environment, environment')

LEMMA NowIsRight ==
  ASSUME EnvironmentInv
  PROVE  Right(Now) /\ Now.s = environment /\ Now.n = entry_count
<1>1. DOMAIN Now = {"s", "n", "ok"} /\ Now.s = environment /\ Now.n = entry_count
  BY DEF Now
<1>2. IsScopes(environment) /\ entry_count = Cardinality(EntriesIn(environment))
  BY DEF EnvironmentInv, EnvironmentTypes, CountsEntries
<1>. HIDE DEF Now
<1>. QED
  BY <1>1, <1>2 DEF Right

LEMMA NextCounts ==
  ASSUME EnvironmentInv, NEW o, Right(o), environment' = o.s, entry_count' = o.n,
         variable_changes' \in {variable_changes, variable_changes + 1}
  PROVE  EnvironmentInv'
<1>1. IsScopes(o.s) /\ o.n = Cardinality(EntriesIn(o.s))
  BY DEF Right
<1>2. o.n \in Nat
  BY <1>1, EntriesAreFinite
<1>3. variable_changes' \in Nat
  BY DEF EnvironmentInv, EnvironmentTypes
<1>4. EnvironmentTypes'
  BY <1>1, <1>2, <1>3 DEF EnvironmentTypes
<1>5. CountsEntries'
  BY <1>1 DEF CountsEntries
<1>. QED
  BY <1>4, <1>5 DEF EnvironmentInv

LEMMA SafeStep ==
  ASSUME EnvironmentInv, NEW o, Safe(Now, o), NEW op, Step(o, op)
  PROVE  EnvironmentInv' /\ StepKeeps
<1>1. Right(o) /\ LocalsStay(Now.s, o.s) /\ ReadonlyStay(Now.s, o.s)
  BY DEF Safe, Settled
<1>2. Now.s = environment
  BY NowIsRight
<1>3. environment' = o.s /\ entry_count' = o.n /\ variable_changes' = variable_changes + 1
  BY DEF Step
<1>4. EnvironmentInv'
  BY <1>1, <1>3, NextCounts
<1>. QED
  BY <1>1, <1>2, <1>3, <1>4 DEF StepKeeps

LEMMA ElementStep ==
  ASSUME EnvironmentInv, NEW o, Settled(Now, o), Step(o, "element")
  PROVE  EnvironmentInv' /\ StepKeeps
<1>1. Right(o) /\ LocalsStay(Now.s, o.s)
  BY DEF Settled
<1>2. Now.s = environment
  BY NowIsRight
<1>3. environment' = o.s /\ entry_count' = o.n /\ variable_changes' = variable_changes + 1
      /\ last' = "element"
  BY DEF Step
<1>4. EnvironmentInv'
  BY <1>1, <1>3, NextCounts
<1>. QED
  BY <1>1, <1>2, <1>3, <1>4 DEF StepKeeps

LEMMA AssignSteps ==
  ASSUME EnvironmentInv, Assign
  PROVE  EnvironmentInv' /\ StepKeeps
<1>1. PICK a \in Assignments : Step(apply_assignment(Now, a, FALSE, "any", "global"), "script")
  BY DEF Assign
<1>2. IsAssignment(a)
  BY EnvironmentAssumption DEF Assignments, IsAssignment
<1>3. Safe(Now, apply_assignment(Now, a, FALSE, "any", "global"))
  BY <1>2, NowIsRight, AssignmentIs
<1>. QED
  BY <1>1, <1>3, SafeStep

LEMMA PushedSteps ==
  ASSUME EnvironmentInv, NEW type \in {"local", "command"}, Pushed(type)
  PROVE  EnvironmentInv' /\ StepKeeps
<1>. PICK o : o = PushedScope(Now, type)
  OBVIOUS
<1>1. Right(Now) /\ Now.s = environment /\ Now.n = entry_count
  BY NowIsRight
<1>2. Right(o) /\ Agree(environment, o.s, Len(environment))
  BY <1>1, PushedIs
<1>3. o.n = entry_count
  <2>1. DOMAIN Now = {"s", "n", "ok"}
    BY DEF Now
  <2>. QED
    BY <1>1, <2>1 DEF PushedScope
<1>4. environment' = o.s /\ entry_count' = o.n /\ variable_changes' = variable_changes
  BY <1>3 DEF Pushed
<1>5. IsScopes(environment)
  BY DEF EnvironmentInv, EnvironmentTypes
<1>6. LocalsStay(environment, o.s) /\ ReadonlyStay(environment, o.s)
  BY <1>2, <1>5, NothingTouched, AgreeLocals, AgreeReadonly
<1>7. EnvironmentInv'
  BY <1>2, <1>4, NextCounts
<1>. QED
  BY <1>4, <1>6, <1>7 DEF StepKeeps

LEMMA LeaveSteps ==
  ASSUME EnvironmentInv, Leave
  PROVE  EnvironmentInv' /\ StepKeeps
<1>. PICK o : o = PoppedScope(Now)
  OBVIOUS
<1>1. Right(Now) /\ Now.s = environment
  BY NowIsRight
<1>2. IsScopes(environment) /\ Len(environment) \in Nat /\ Len(environment) > 1
  BY ScopesAre DEF EnvironmentInv, EnvironmentTypes, Leave
<1>3. /\ Right(o) /\ Len(o.s) = Len(environment) - 1
      /\ DOMAIN o.s = 1 .. Len(environment) - 1
      /\ Agree(environment, o.s, Len(environment) - 1)
  BY <1>1, <1>2, PoppedIs
<1>4. environment' = o.s /\ entry_count' = o.n /\ variable_changes' = variable_changes
  BY DEF Leave
<1>5. ReadonlyStay(environment, o.s)
  BY <1>2, <1>3, NothingTouched, AgreeReadonly
<1>6. EnvironmentInv'
  BY <1>3, <1>4, NextCounts
<1>7. ~(Len(environment') >= Len(environment))
  BY <1>2, <1>3, <1>4
<1>. QED
  BY <1>4, <1>5, <1>6, <1>7 DEF StepKeeps

(* A command scope on top does not change which local scope is innermost.   *)
LEMMA CommandAbove ==
  ASSUME NEW s, NEW t, IsScopes(s), IsScopes(t), Len(t) = Len(s) + 1, Agree(s, t, Len(s)),
         t[Len(s) + 1].type = "command"
  PROVE  TopLocal(t) = TopLocal(s)
<1>. PICK n : n = Len(s)
  OBVIOUS
<1>1. n \in Nat
  BY ScopesAre
<1>. PICK top : top = TopLocal(s)
  OBVIOUS
<1>. PICK new : new = TopLocal(t)
  OBVIOUS
<1>2. /\ top \in 0 .. n /\ (top # 0 => s[top].type = "local")
      /\ \A i \in 1 .. n : s[i].type = "local" => i <= top
  BY TopLocalIs
<1>3. /\ new \in 0 .. n + 1 /\ (new # 0 => t[new].type = "local")
      /\ \A i \in 1 .. n + 1 : t[i].type = "local" => i <= new
  BY TopLocalIs
<1>4. \A i \in 1 .. n : t[i] = s[i]
  BY DEF Agree
<1>5. new # n + 1
  BY <1>1, <1>3
<1>6. new <= top
  <2>1. CASE new = 0
    BY <1>1, <1>2, <2>1
  <2>2. CASE new # 0
    <3>1. new \in 1 .. n
      BY <1>1, <1>3, <1>5, <2>2
    <3>. QED
      BY <1>2, <1>3, <1>4, <2>2, <3>1
  <2>. QED
    BY <2>1, <2>2
<1>7. top <= new
  <2>1. CASE top = 0
    BY <1>1, <1>3, <2>1
  <2>2. CASE top # 0
    <3>1. top \in 1 .. n /\ top \in 1 .. n + 1
      BY <1>1, <1>2, <2>2
    <3>. QED
      BY <1>2, <1>3, <1>4, <2>2, <3>1
  <2>. QED
    BY <2>1, <2>2
<1>. QED
  BY <1>1, <1>2, <1>3, <1>6, <1>7

(* The assignments of a command happen in its scope; one that fails takes   *)
(* the scope with it.                                                       *)
LEMMA BegunIs ==
  ASSUME EnvironmentInv, NEW a, IsAssignment(a),
         NEW p, p = PushedScope(Now, "command"),
         NEW o, o = apply_assignment(p, a, TRUE, "command", "command"),
         BegunWith(o)
  PROVE  EnvironmentInv' /\ StepKeeps
<1>. PICK s : s = environment
  OBVIOUS
<1>. PICK n : n = Len(s)
  OBVIOUS
<1>1. IsScopes(s) /\ n \in Nat /\ n >= 1 /\ DOMAIN s = 1 .. n
  BY ScopesAre DEF EnvironmentInv, EnvironmentTypes
<1>2. /\ Right(p) /\ Len(p.s) = n + 1 /\ Agree(s, p.s, n)
      /\ p.s[n + 1].type = "command" /\ p.s[n + 1].map = << >>
  BY NowIsRight, PushedIs
<1>3. IsScopes(p.s) /\ DOMAIN p.s = 1 .. n + 1
  BY <1>2, ScopesAre DEF Right
<1>4. Safe(p, o)
  <2>. PICK export \in BOOLEAN : export = TRUE
    OBVIOUS
  <2>1. Safe(p, apply_assignment(p, a, export, "command", "command"))
    BY <1>2, CommandAssignmentIs
  <2>. QED
    BY <2>1
<1>5. Right(o) /\ SameStack(p.s, o.s) /\ LocalsStay(p.s, o.s) /\ ReadonlyStay(p.s, o.s)
  BY <1>4 DEF Safe, Settled
<1>6. Len(o.s) = n + 1 /\ DOMAIN o.s = 1 .. n + 1
  <2>1. Len(o.s) = Len(p.s)
    BY <1>5 DEF SameStack
  <2>2. DOMAIN o.s = 1 .. Len(o.s)
    BY <1>5, ScopesAre DEF Right
  <2>. QED
    BY <1>2, <2>1, <2>2
<1>7. LocalsStay(s, o.s)
  <2>1. LocalsStay(s, p.s)
    BY <1>1, <1>2, NothingTouched, AgreeLocals
  <2>2. TopLocal(p.s) = TopLocal(s)
    BY <1>1, <1>2, <1>3, CommandAbove
  <2>. QED
    BY <1>5, <2>1, <2>2, LocalsAgain
<1>8. ReadonlyStay(s, o.s)
  <2>1. ReadonlyStay(s, p.s)
    BY <1>1, <1>2, NothingTouched, AgreeReadonly
  <2>2. DOMAIN s \intersect DOMAIN o.s \subseteq DOMAIN p.s
    BY <1>3, <1>6
  <2>. QED
    BY <1>5, <2>1, <2>2, ReadonlyAgain
<1>9. CASE o.ok
  <2>1. /\ environment' = o.s /\ entry_count' = o.n
        /\ variable_changes' = variable_changes + 1
    BY <1>9 DEF BegunWith, Step
  <2>2. EnvironmentInv'
    BY <1>5, <2>1, NextCounts
  <2>. QED
    BY <1>7, <1>8, <2>1, <2>2 DEF StepKeeps
<1>10. CASE ~o.ok
  <2>. PICK q : q = PoppedScope(o)
    OBVIOUS
  <2>. PICK r : r = [q EXCEPT !.ok = FALSE]
    OBVIOUS
  <2>1. Right(q) /\ Agree(o.s, q.s, n)
    <3>1. \A k \in Nat : k >= 1 => k + 1 > 1 /\ (k + 1) - 1 = k
      OBVIOUS
    <3>2. Len(o.s) > 1 /\ Len(o.s) - 1 = n
      BY <1>1, <1>6, <3>1
    <3>. QED
      BY <1>5, <3>2, PoppedIs
  <2>2. Right(r) /\ r.s = q.s
    <3>1. DOMAIN q = {"s", "n", "ok"}
      BY <2>1 DEF Right
    <3>2. DOMAIN r = DOMAIN q /\ r.s = q.s /\ r.n = q.n
      BY <3>1
    <3>. QED
      BY <2>1, <3>2 DEF Right
  <2>3. /\ environment' = r.s /\ entry_count' = r.n
        /\ variable_changes' = variable_changes + 1
    BY <1>10 DEF BegunWith, Step
  <2>4. EnvironmentInv'
    BY <2>2, <2>3, NextCounts
  <2>5. LocalsStay(s, q.s)
    BY <1>1, <1>7, <2>1, AgreeLocals
  <2>6. ReadonlyStay(s, q.s)
    <3>1. \A k \in Nat : 1 .. k \subseteq 1 .. k + 1
      OBVIOUS
    <3>2. DOMAIN s \subseteq DOMAIN o.s
      BY <1>1, <1>6, <3>1
    <3>. QED
      BY <1>1, <1>8, <2>1, <3>2, AgreeReadonly
  <2>. QED
    BY <2>2, <2>3, <2>4, <2>5, <2>6 DEF StepKeeps
<1>. QED
  BY <1>9, <1>10

LEMMA BeginWithSteps ==
  ASSUME EnvironmentInv, BeginWith
  PROVE  EnvironmentInv' /\ StepKeeps
<1>1. PICK a \in Assignments :
        BegunWith(apply_assignment(PushedScope(Now, "command"), a, TRUE, "command", "command"))
  BY DEF BeginWith
<1>2. IsAssignment(a)
  BY EnvironmentAssumption DEF Assignments, IsAssignment
<1>. PICK p : p = PushedScope(Now, "command")
  OBVIOUS
<1>. PICK o : o = apply_assignment(p, a, TRUE, "command", "command")
  OBVIOUS
<1>3. BegunWith(o)
  BY <1>1
<1>. QED
  BY <1>2, <1>3, BegunIs

(* What declare and the others are given.                                   *)
Flags == {"verb", "name", "global", "type", "nameref", "readonly", "export", "assigns", "literal",
          "append"}

LEMMA DeclarationsAre ==
  ASSUME NEW d \in Declarations
  PROVE  IsDeclaration(d)
<1>. DEFINE Described(c) == DOMAIN c = Flags /\ IsDeclaration(c)
<1>1. ASSUME NEW verb \in {"declare", "local", "readonly"}, NEW name \in Names
      PROVE  Described(Plain(verb, name)) /\ Plain(verb, name).verb = verb
  BY DEF Plain, IsDeclaration, Flags
<1>2. ASSUME NEW c, Described(c), c.verb = "declare", NEW f \in Flagged(c)
      PROVE  Described(f)
  <2>1. CASE f \in {c, [c EXCEPT !.global = TRUE], [c EXCEPT !.export = TRUE]}
    BY <1>2, <2>1 DEF IsDeclaration, Flags
  <2>2. CASE \E t \in {"indexed", "assoc"} : f = [c EXCEPT !.type = t]
    BY <1>2, <2>2 DEF IsDeclaration, Flags
  <2>3. CASE \E t \in {"on", "off"} : f = [c EXCEPT !.nameref = t]
    BY <1>2, <2>3 DEF IsDeclaration, Flags
  <2>4. CASE \E t \in {"on", "off"} : f = [c EXCEPT !.readonly = t]
    BY <1>2, <2>4 DEF IsDeclaration, Flags
  <2>. QED
    BY <1>2, <2>1, <2>2, <2>3, <2>4 DEF Flagged
<1>3. ASSUME NEW c, Described(c), NEW f \in Assigning(c)
      PROVE  Described(f)
  <2>1. CASE f = c
    BY <1>3, <2>1
  <2>2. CASE f # c
    <3>1. PICK l \in Literals : f = [c EXCEPT !.assigns = TRUE, !.literal = l]
      BY <1>3, <2>2 DEF Assigning
    <3>2. IsLiteral(l)
      BY EnvironmentAssumption DEF IsLiteral
    <3>3. /\ DOMAIN f = DOMAIN c /\ f.literal = l
          /\ f.name = c.name /\ f.verb = c.verb /\ f.global = c.global
          /\ f.type = c.type /\ f.append = c.append
      BY <1>3, <3>1 DEF Flags
    <3>. QED
      BY <1>3, <3>2, <3>3 DEF IsDeclaration
  <2>. QED
    BY <2>1, <2>2
<1>4. ASSUME NEW c, Described(c), NEW f \in Appending(c)
      PROVE  Described(f)
  <2>1. f \in {c, [c EXCEPT !.append = TRUE]}
    BY <1>4 DEF Appending
  <2>. QED
    BY <1>4, <2>1 DEF IsDeclaration, Flags
<1>5. PICK name \in Names : \E c \in Flagged(Plain("declare", name))
                                  \union {Plain("local", name), Plain("readonly", name)} :
        \E f \in Assigning(c) : d \in Appending(f)
  BY DEF Declarations
<1>. PICK c \in Flagged(Plain("declare", name))
               \union {Plain("local", name), Plain("readonly", name)} :
       \E f \in Assigning(c) : d \in Appending(f)
  BY <1>5
<1>6. Described(c)
  BY <1>1, <1>2
<1>. HIDE DEF Described
<1>7. Described(d)
  BY <1>3, <1>4, <1>6
<1>. QED
  BY <1>7 DEF Described

LEMMA DeclareSteps ==
  ASSUME EnvironmentInv, Declare
  PROVE  EnvironmentInv' /\ StepKeeps
<1>1. PICK d \in Declarations :
        /\ d.verb = "local" => InFunction
        /\ Step(process_declaration(Now, d), IF d.global THEN "global" ELSE "script")
  BY DEF Declare
<1>. PICK o : o = process_declaration(Now, d)
  OBVIOUS
<1>2. Now.s = environment /\ Right(Now)
  BY NowIsRight
<1>3. DeclaresWell(Now, o, d)
  BY <1>1, <1>2, DeclarationsAre, DeclarationIs
<1>4. /\ Right(o) /\ ReadonlyStay(environment, o.s)
      /\ ~d.global => LocalsStay(environment, o.s)
  BY <1>2, <1>3 DEF DeclaresWell
<1>5. /\ environment' = o.s /\ entry_count' = o.n
      /\ variable_changes' = variable_changes + 1
      /\ d.global => last' = "global"
  BY <1>1 DEF Step
<1>6. EnvironmentInv'
  BY <1>4, <1>5, NextCounts
<1>. QED
  BY <1>4, <1>5, <1>6 DEF StepKeeps

LEMMA ExportSteps ==
  ASSUME EnvironmentInv, Export
  PROVE  EnvironmentInv' /\ StepKeeps
<1>1. PICK name \in Names, on \in BOOLEAN :
        \/ Step(ExportName(Now, name, on), "script")
        \/ on /\ \E l \in Literals : Step(update_or_add(Now, name, l, TRUE), "script")
  BY DEF Export
<1>2. Right(Now)
  BY NowIsRight
<1>3. CASE Step(ExportName(Now, name, on), "script")
  BY <1>2, <1>3, ExportIs, SafeStep
<1>4. CASE \E l \in Literals : Step(update_or_add(Now, name, l, TRUE), "script")
  <2>1. PICK l \in Literals : Step(update_or_add(Now, name, l, TRUE), "script")
    BY <1>4
  <2>2. IsLiteral(l)
    BY EnvironmentAssumption DEF IsLiteral
  <2>. PICK export \in BOOLEAN : export = TRUE
    OBVIOUS
  <2>3. Safe(Now, update_or_add(Now, name, l, export))
    BY <1>2, <2>2, UpdateIs
  <2>. QED
    BY <2>1, <2>3, SafeStep
<1>. QED
  BY <1>1, <1>3, <1>4

LEMMA UnsetSteps ==
  ASSUME EnvironmentInv, UnsetName
  PROVE  EnvironmentInv' /\ StepKeeps
<1>1. PICK name \in Names :
        \/ LET target == resolve_target(environment, name)
           IN Step(unset(Now, name),
                   IF target # <<>> /\ target[2] # NoKey THEN "element" ELSE "script")
        \/ Step(unset_raw(Now, name), "script")
        \/ \E index \in Subscripts : Step(UnsetElement(Now, name, index), "element")
  BY DEF UnsetName
<1>2. Right(Now) /\ Now.s = environment
  BY NowIsRight
<1>. PICK target : target = resolve_target(environment, name)
  OBVIOUS
<1>3. CASE Step(unset(Now, name),
                IF target # <<>> /\ target[2] # NoKey THEN "element" ELSE "script")
  <2>1. /\ Settled(Now, unset(Now, name))
        /\ ~(target # << >> /\ target[2] # NoKey) => Safe(Now, unset(Now, name))
    BY <1>2, UnsetNameIs
  <2>2. CASE target # << >> /\ target[2] # NoKey
    BY <1>3, <2>1, <2>2, ElementStep
  <2>3. CASE ~(target # << >> /\ target[2] # NoKey)
    BY <1>3, <2>1, <2>3, SafeStep
  <2>. QED
    BY <2>2, <2>3
<1>4. CASE Step(unset_raw(Now, name), "script")
  BY <1>2, <1>4, UnsetRawIs, SafeStep
<1>5. CASE \E index \in Subscripts : Step(UnsetElement(Now, name, index), "element")
  BY <1>2, <1>5, UnsetElementIs, ElementStep
<1>. QED
  BY <1>1, <1>3, <1>4, <1>5

LEMMA UpdateSteps ==
  ASSUME EnvironmentInv, Update
  PROVE  EnvironmentInv' /\ StepKeeps
<1>1. PICK name \in Names, l \in Literals :
        \/ Step(update_or_add(Now, name, l, FALSE), "script")
        \/ \E index \in Subscripts :
             ~l.array /\ Step(update_or_add_array_element(Now, name, index, l.value), "script")
  BY DEF Update
<1>2. Right(Now)
  BY NowIsRight
<1>3. IsLiteral(l)
  BY EnvironmentAssumption DEF IsLiteral
<1>4. CASE Step(update_or_add(Now, name, l, FALSE), "script")
  <2>. PICK export \in BOOLEAN : export = FALSE
    OBVIOUS
  <2>1. Safe(Now, update_or_add(Now, name, l, export))
    BY <1>2, <1>3, UpdateIs
  <2>. QED
    BY <1>4, <2>1, SafeStep
<1>5. CASE \E index \in Subscripts :
             ~l.array /\ Step(update_or_add_array_element(Now, name, index, l.value), "script")
  <2>1. PICK index \in Subscripts :
          Step(update_or_add_array_element(Now, name, index, l.value), "script")
    BY <1>5
  <2>. PICK value : value = l.value
    OBVIOUS
  <2>2. Safe(Now, update_or_add_array_element(Now, name, index, value))
    BY <1>2, UpdateElementIs
  <2>. QED
    BY <2>1, <2>2, SafeStep
<1>. QED
  BY <1>1, <1>4, <1>5

LEMMA SetGlobalSteps ==
  ASSUME EnvironmentInv, set_global
  PROVE  EnvironmentInv' /\ StepKeeps
<1>1. PICK name \in Names, l \in Literals :
        Step(add(Now, name, Holding(Unset("untyped"), "string", Only(0, l.value)), "global"),
             "shell")
  BY DEF set_global
<1>. PICK text : text = Only(0, l.value)
  OBVIOUS
<1>. PICK var : var = Holding(Unset("untyped"), "string", text)
  OBVIOUS
<1>. PICK o : o = add(Now, name, var, "global")
  OBVIOUS
<1>2. IsVariable(var)
  <2>1. DOMAIN text = {0}
    BY DEF Only
  <2>. QED
    BY <2>1 DEF Holding, Unset, Variable, IsVariable
<1>3. Right(Now) /\ Now.s = environment
  BY NowIsRight
<1>4. \E i \in 1 .. Len(Now.s) : Now.s[i].type = "global"
  BY <1>3, ScopesAre DEF Right
<1>5. Right(o)
  BY <1>2, <1>3, <1>4, AddIs
<1>6. /\ environment' = o.s /\ entry_count' = o.n
      /\ variable_changes' = variable_changes + 1 /\ last' = "shell"
  BY <1>1 DEF Step
<1>7. EnvironmentInv'
  BY <1>5, <1>6, NextCounts
<1>. QED
  BY <1>6, <1>7 DEF StepKeeps

LEMMA InitCounts ==
  ASSUME EnvironmentInit
  PROVE  EnvironmentInv
<1>1. PICK map \in Started :
        /\ environment = <<[type |-> "global", map |-> map]>>
        /\ entry_count = Cardinality(DOMAIN map)
  BY DEF EnvironmentInit
<1>. PICK scope : scope = [type |-> "global", map |-> map]
  OBVIOUS
<1>2. IsMap(map)
  BY EnvironmentAssumption
<1>3. scope.type = "global" /\ scope.map = map /\ scope = [type |-> scope.type, map |-> scope.map]
  OBVIOUS
<1>4. IsScope(scope)
  BY <1>2, <1>3 DEF IsScope
<1>5. environment = <<scope>>
  BY <1>1
<1>6. IsScopes(environment)
  <2>1. Len(environment) = 1 /\ environment[1] = scope /\ environment = [i \in 1 .. 1 |-> environment[i]]
    BY <1>5
  <2>. QED
    BY <1>3, <1>4, <2>1 DEF IsScopes
<1>7. EntriesIn(environment) = {1} \X DOMAIN map
  <2>1. DOMAIN environment = {1} /\ environment[1] = scope
    BY <1>5
  <2>2. DOMAIN map \subseteq Names
    BY <1>2, MapIsFinite
  <2>. QED
    BY <1>3, <2>1, <2>2 DEF EntriesIn
<1>8. Cardinality({1} \X DOMAIN map) = Cardinality(DOMAIN map)
  <2>1. IsFiniteSet(DOMAIN map)
    BY <1>2, MapIsFinite
  <2>2. IsFiniteSet({1}) /\ Cardinality({1}) = 1
    BY FS_Singleton
  <2>3. Cardinality({1} \X DOMAIN map) = Cardinality({1}) * Cardinality(DOMAIN map)
    BY <2>1, <2>2, FS_Product
  <2>. PICK d \in Nat : d = Cardinality(DOMAIN map)
    BY <2>1, FS_CardinalityType
  <2>. QED
    BY <2>2, <2>3
<1>9. EnvironmentTypes
  <2>1. entry_count \in Nat
    BY <1>1, <1>2, MapIsFinite, FS_CardinalityType
  <2>2. variable_changes \in Nat
    BY DEF EnvironmentInit
  <2>. QED
    BY <1>6, <2>1, <2>2 DEF EnvironmentTypes
<1>10. CountsEntries
  BY <1>1, <1>7, <1>8 DEF CountsEntries
<1>. QED
  BY <1>9, <1>10 DEF EnvironmentInv

LEMMA StutteringKeeps ==
  ASSUME EnvironmentInv, UNCHANGED environment_vars
  PROVE  EnvironmentInv' /\ StepKeeps
<1>1. /\ environment' = environment /\ entry_count' = entry_count
      /\ variable_changes' = variable_changes
  BY DEF environment_vars
<1>2. EnvironmentInv'
  BY <1>1, NowIsRight, NextCounts
<1>. QED
  BY <1>1, <1>2, NothingTouched DEF StepKeeps

LEMMA EnvironmentSteps ==
  ASSUME EnvironmentInv, EnvironmentNext
  PROVE  EnvironmentInv' /\ StepKeeps
<1>1. CASE BeginCommand
  BY <1>1, PushedSteps DEF BeginCommand
<1>2. CASE EnterFunction
  BY <1>2, PushedSteps DEF EnterFunction
<1>3. CASE Leave
  BY <1>3, LeaveSteps
<1>4. CASE Assign
  BY <1>4, AssignSteps
<1>5. CASE BeginWith
  BY <1>5, BeginWithSteps
<1>6. CASE Declare
  BY <1>6, DeclareSteps
<1>7. CASE Export
  BY <1>7, ExportSteps
<1>8. CASE UnsetName
  BY <1>8, UnsetSteps
<1>9. CASE Update
  BY <1>9, UpdateSteps
<1>10. CASE set_global
  BY <1>10, SetGlobalSteps
<1>. QED
  BY <1>1, <1>2, <1>3, <1>4, <1>5, <1>6, <1>7, <1>8, <1>9, <1>10 DEF EnvironmentNext

-----------------------------------------------------------------------------
(* The scopes are always a global one with function and command scopes on   *)
(* it, each a map from names to variables that are well formed: whatever    *)
(* assignments, declarations, exports and unsets the script makes, through  *)
(* whatever namerefs.                                                       *)
THEOREM EnvironmentIsWellFormed == EnvironmentSpec => []EnvironmentInv
<1>1. EnvironmentInit => EnvironmentInv
  BY InitCounts
<1>2. EnvironmentInv /\ [EnvironmentNext]_environment_vars => EnvironmentInv'
  BY EnvironmentSteps, StutteringKeeps
<1>. QED
  BY <1>1, <1>2, PTL DEF EnvironmentSpec

(* The count the environment keeps beside its scopes is that of the entries *)
(* they have, so that the end of a function or command never takes it below *)
(* zero and leaves the scope where it is.                                   *)
THEOREM EntriesAreCounted == EnvironmentSpec => []CountsEntries
<1>1. EnvironmentInv => CountsEntries
  BY DEF EnvironmentInv
<1>. QED
  BY <1>1, EnvironmentIsWellFormed, PTL

(* While a function runs, no assignment, append, export, unset, `read` or   *)
(* declaration without -g, nor any nameref, takes one of its locals away or *)
(* reaches what that local hides.                                           *)
THEOREM LocalsAlwaysHide == EnvironmentSpec => LocalsHide
<1>1. EnvironmentInv /\ [EnvironmentNext]_environment_vars =>
        [Len(environment') >= Len(environment) /\ last' \notin {"shell", "global"}
           => LocalsStay(environment, environment')]_environment_vars
  BY EnvironmentSteps, StutteringKeeps DEF StepKeeps
<1>. QED
  BY <1>1, EnvironmentIsWellFormed, PTL DEF EnvironmentSpec, LocalsHide

(* A readonly variable has its value, and is readonly, until the scope it   *)
(* is in is gone: only the shell's own settings and the removal of single   *)
(* elements do not look at the attribute.                                   *)
THEOREM ReadonlyIsKept == EnvironmentSpec => ReadonlyKept
<1>1. EnvironmentInv /\ [EnvironmentNext]_environment_vars =>
        [last' \notin {"shell", "element"}
           => ReadonlyStay(environment, environment')]_environment_vars
  BY EnvironmentSteps, StutteringKeeps DEF StepKeeps
<1>. QED
  BY <1>1, EnvironmentIsWellFormed, PTL DEF EnvironmentSpec, ReadonlyKept

-----------------------------------------------------------------------------
(***************************************************************************)
(* The stacks of a call: CallsInv is inductive, hence the type invariant   *)
(* and CallsAccounted hold.                                                *)
(***************************************************************************)
USE CallStackAssumption

(* From lo to hi the stack s holds just t. *)
Piece(s, lo, hi, t) ==
  /\ hi = lo + Len(t)
  /\ \A k \in 1 .. Len(t) : s[lo + k] = t[k]

(***************************************************************************)
(* The stack s is made of n layers over its base: layer i begins at height *)
(* h[i], ends where the next one begins, or s, and holds p[i].             *)
(***************************************************************************)
Layers(s, base, n, h, p) ==
  /\ base = IF n = 0 THEN Len(s) ELSE h[1]
  /\ \A i \in 1 .. n : Piece(s, h[i], IF i = n THEN Len(s) ELSE h[i + 1], p[i])
  /\ \A i, j \in 1 .. n : i <= j => h[i] <= h[j]

(* s2 is s with t on top; s2 is s cut to n elements. *)
Extends(s, t, s2) ==
  /\ Len(s2) = Len(s) + Len(t)
  /\ \A k \in 1 .. Len(s) : s2[k] = s[k]
  /\ \A k \in 1 .. Len(t) : s2[Len(s) + k] = t[k]

Cut(s, n, s2) == Len(s2) = n /\ \A k \in 1 .. n : s2[k] = s[k]

(* The same heights and pieces, up to layer n. *)
SameLayers(n, h, p, h2, p2) ==
  \A i \in 1 .. n : h2[i] = h[i] /\ p2[i] = p[i] /\ Len(p[i]) \in Nat

ScopeHeights(act) == [i \in 1 .. Len(act) |-> act[i].under.scopes]
FrameHeights(act) == [i \in 1 .. Len(act) |-> act[i].under.frames]
ScopePieces(act) == [i \in 1 .. Len(act) |-> ScopesOf(act[i])]
FramePieces(act) == [i \in 1 .. Len(act) |-> FramesOf(act[i])]

ScopeLayers(ss, act, base) ==
  Layers(ss, base, Len(act), ScopeHeights(act), ScopePieces(act))

FrameLayers(fs, act, base) ==
  Layers(fs, base, Len(act), FrameHeights(act), FramePieces(act))

Handling(act) == {i \in 1 .. Len(act) : act[i].call = "trap"}

(* Each signal of sigs is being handled by just one call of act. *)
HandledBy(act, sigs) ==
  /\ \A i \in Handling(act) : act[i].signal \in sigs
  /\ \A signal \in sigs : \E i \in Handling(act) : act[i].signal = signal
  /\ \A i, j \in Handling(act) : act[i].signal = act[j].signal => i = j

(* The calls in progress account for both stacks and the active signals. *)
Accounted ==
  /\ program.under.scopes >= 1
  /\ ScopeLayers(scopes, activity, program.under.scopes)
  /\ FrameLayers(frames, activity, program.under.frames)
  /\ HandledBy(activity, active_trap_signals)

(***************************************************************************)
(* StacksBalanced alone is not inductive: that a call finds on top what it *)
(* pushed needs the layers below it to end where it begins, and that it    *)
(* may pop it at all needs a scope under them.  The depths are kept in all *)
(* states, those after a refused command included.                         *)
(***************************************************************************)
CallsInv == TypeOK /\ DepthsCountFrames /\ (~program.refused => Accounted)

-----------------------------------------------------------------------------
(* Stacks. *)

LEMMA PoppedStack ==
  ASSUME NEW S, NEW s \in Seq(S), s # <<>>
  PROVE  /\ Len(s) \in Nat /\ Len(s) >= 1
         /\ Top(s) \in S
         /\ Popped(s) \in Seq(S)
         /\ Len(Popped(s)) = Len(s) - 1
         /\ \A k \in 1 .. Len(s) - 1 : Popped(s)[k] = s[k]
<1>1. Len(s) \in Nat /\ Len(s) >= 1
  BY EmptySeq
<1>2. \A k \in 1 .. Len(s) : s[k] \in S
  BY ElementOfSeq
<1>. DEFINE n == Len(s) - 1
<1>3. 1 \in Int /\ n \in Int /\ \A k \in 1 .. n : s[k] \in S
  BY <1>1, <1>2
<1>4. /\ SubSeq(s, 1, n) \in Seq(S)
      /\ Len(SubSeq(s, 1, n)) = IF 1 <= n THEN n - 1 + 1 ELSE 0
      /\ \A k \in 1 .. n - 1 + 1 : SubSeq(s, 1, n)[k] = s[1 + k - 1]
  <2>. HIDE DEF n
  <2>. QED
    BY <1>3, SubSeqProperties
<1>5. Top(s) \in S
  BY <1>1, <1>2 DEF Top
<1>6. Popped(s) = SubSeq(s, 1, n)
  BY DEF Popped
<1>7. \A k \in 1 .. Len(s) - 1 : Popped(s)[k] = s[k]
  BY <1>4, <1>6, <1>1
<1>8. Len(Popped(s)) = Len(s) - 1
  <2>1. Len(SubSeq(s, 1, n)) = n
    <3>. HIDE DEF n
    <3>1. n \in Nat
      BY <1>1 DEF n
    <3>. QED
      BY <3>1, <1>4
  <2>. QED
    BY <2>1, <1>6
<1>9. Popped(s) \in Seq(S)
  BY <1>4, <1>6
<1>. QED
  BY <1>1, <1>5, <1>7, <1>8, <1>9

(* A new layer on top of the others. *)
LEMMA LayerPushed ==
  ASSUME NEW S, NEW s \in Seq(S), NEW s2 \in Seq(S), NEW base \in Nat, NEW n \in Nat,
         NEW h \in [1 .. n -> Nat], NEW p,
         NEW h2 \in [1 .. n + 1 -> Nat], NEW p2, NEW t \in Seq(S),
         Layers(s, base, n, h, p),
         SameLayers(n, h, p, h2, p2),
         h2[n + 1] = Len(s), p2[n + 1] = t,
         Extends(s, t, s2)
  PROVE  Layers(s2, base, n + 1, h2, p2)
<1>0. /\ \A i \in 1 .. n : h2[i] = h[i] /\ p2[i] = p[i] /\ Len(p[i]) \in Nat
      /\ Len(s2) = Len(s) + Len(t)
      /\ \A k \in 1 .. Len(s) : s2[k] = s[k]
      /\ \A k \in 1 .. Len(t) : s2[Len(s) + k] = t[k]
  BY DEF SameLayers, Extends
<1>1. Len(s) \in Nat /\ Len(t) \in Nat
  BY LenProperties
<1>2. \A i \in 1 .. n : h[i] <= h[n]
  BY DEF Layers
<1>3. n >= 1 => h[n] + Len(p[n]) = Len(s)
  BY DEF Layers, Piece
<1>4. \A i \in 1 .. n : h[i] \in Nat /\ h[i] <= Len(s)
  <2>. SUFFICES ASSUME NEW i \in 1 .. n
                PROVE  h[i] \in Nat /\ h[i] <= Len(s)
    OBVIOUS
  <2>1. n >= 1 /\ n \in 1 .. n
    OBVIOUS
  <2>2. h[n] \in Nat /\ h[i] \in Nat /\ Len(p[n]) \in Nat
    BY <2>1, <1>0
  <2>3. h[i] <= h[n] /\ h[n] + Len(p[n]) = Len(s)
    BY <2>1, <1>2, <1>3
  <2>. DEFINE hi == h[i]  hn == h[n]  size == Len(p[n])  top == Len(s)
  <2>4. hi \in Nat /\ hn \in Nat /\ size \in Nat /\ hi <= hn /\ hn + size = top
    BY <2>2, <2>3
  <2>. HIDE DEF hi, hn, size, top
  <2>5. hi \in Nat /\ hi <= top
    BY <2>4
  <2>. QED
    BY <2>5 DEF hi, top
<1>5. base = h2[1]
  <2>1. CASE n = 0
    BY <2>1 DEF Layers
  <2>2. CASE n >= 1
    BY <2>2, <1>0 DEF Layers
  <2>. QED
    BY <2>1, <2>2
<1>6. ASSUME NEW i \in 1 .. n
      PROVE  Piece(s2, h2[i], h2[i + 1], p2[i])
  <2>1. /\ h2[i] = h[i] /\ p2[i] = p[i] /\ h[i] \in Nat /\ Len(p[i]) \in Nat
        /\ h2[i + 1] = IF i = n THEN Len(s) ELSE h[i + 1]
    BY <1>0
  <2>2. Piece(s, h[i], h2[i + 1], p[i])
    BY <2>1 DEF Layers
  <2>3. h2[i + 1] \in Nat /\ h2[i + 1] <= Len(s)
    <3>1. CASE i = n
      BY <2>1, <3>1, <1>1
    <3>2. CASE i # n
      <4>1. i + 1 \in 1 .. n
        BY <3>2
      <4>. QED
        BY <2>1, <3>2, <4>1, <1>4
    <3>. QED
      BY <3>1, <3>2
  <2>. DEFINE lo == h[i]  hi == h2[i + 1]  size == Len(p[i])
  <2>4. lo \in Nat /\ size \in Nat /\ hi = lo + size /\ hi <= Len(s)
    BY <2>1, <2>2, <2>3 DEF Piece
  <2>5. \A k \in 1 .. size : s[lo + k] = p[i][k]
    BY <2>2 DEF Piece
  <2>6. h2[i] = lo /\ p2[i] = p[i]
    BY <2>1
  <2>. HIDE DEF lo, hi, size
  <2>7. ASSUME NEW k \in 1 .. size
        PROVE  s2[lo + k] = p[i][k]
    <3>1. lo + k \in 1 .. Len(s)
      BY <2>4, <1>1
    <3>2. s2[lo + k] = s[lo + k]
      BY <3>1, <1>0
    <3>. QED
      BY <3>2, <2>5
  <2>8. Piece(s2, lo, hi, p[i])
    BY <2>4, <2>7 DEF Piece, size
  <2>. QED
    BY <2>6, <2>8 DEF hi
<1>7. Piece(s2, h2[n + 1], Len(s2), p2[n + 1])
  BY <1>0 DEF Piece
<1>8. \A i, j \in 1 .. n + 1 : i <= j => h2[i] <= h2[j]
  <2>. SUFFICES ASSUME NEW i \in 1 .. n + 1, NEW j \in 1 .. n + 1, i <= j
                PROVE  h2[i] <= h2[j]
    OBVIOUS
  <2>1. CASE j \in 1 .. n
    BY <2>1, <1>0 DEF Layers
  <2>2. CASE j = n + 1 /\ i \in 1 .. n
    BY <2>2, <1>0, <1>4
  <2>3. CASE j = n + 1 /\ i = n + 1
    BY <2>3, <1>1
  <2>. QED
    BY <2>1, <2>2, <2>3
<1>9. \A i \in 1 .. n + 1 : Piece(s2, h2[i], IF i = n + 1 THEN Len(s2) ELSE h2[i + 1], p2[i])
  <2>1. \A i \in 1 .. n + 1 : i = n + 1 \/ (i # n + 1 /\ i \in 1 .. n)
    OBVIOUS
  <2>. QED
    BY <2>1, <1>6, <1>7
<1>. QED
  BY <1>5, <1>8, <1>9 DEF Layers

(* The top layer taken off. *)
LEMMA LayerPopped ==
  ASSUME NEW S, NEW s \in Seq(S), NEW s2 \in Seq(S), NEW base \in Nat, NEW n \in Nat, n >= 1,
         NEW h \in [1 .. n -> Nat], NEW p,
         NEW h2 \in [1 .. n - 1 -> Nat], NEW p2,
         Layers(s, base, n, h, p),
         SameLayers(n - 1, h, p, h2, p2),
         Cut(s, h[n], s2)
  PROVE  Layers(s2, base, n - 1, h2, p2)
<1>0. /\ \A i \in 1 .. n - 1 : h2[i] = h[i] /\ p2[i] = p[i] /\ Len(p[i]) \in Nat
      /\ Len(s2) = h[n]
      /\ \A k \in 1 .. Len(s2) : s2[k] = s[k]
  BY DEF SameLayers, Cut
<1>. USE <1>0
<1>1. base = IF n - 1 = 0 THEN Len(s2) ELSE h2[1]
  BY DEF Layers
<1>2. ASSUME NEW i \in 1 .. n - 1
      PROVE  Piece(s2, h2[i], IF i = n - 1 THEN Len(s2) ELSE h2[i + 1], p2[i])
  <2>0. i \in 1 .. n /\ i # n /\ i + 1 \in 1 .. n /\ n \in 1 .. n /\ i + 1 <= n
    OBVIOUS
  <2>1. Piece(s, h[i], h[i + 1], p[i]) /\ h[i + 1] <= h[n]
    BY <2>0 DEF Layers
  <2>2. \A k \in 1 .. Len(p[i]) : s2[h[i] + k] = s[h[i] + k]
    <3>. SUFFICES ASSUME NEW k \in 1 .. Len(p[i])
                  PROVE  s2[h[i] + k] = s[h[i] + k]
      OBVIOUS
    <3>. DEFINE lo == h[i]  hi == h[i + 1]  size == Len(p[i])  top == Len(s2)
    <3>1. h[i] + k \in 1 .. Len(s2)
      <4>1. hi = lo + size
        BY <2>1 DEF Piece
      <4>2. lo \in Nat /\ size \in Nat /\ hi <= top /\ top \in Nat /\ k \in 1 .. size
        BY <2>1, LenProperties
      <4>. HIDE DEF lo, hi, size, top
      <4>3. lo + k \in 1 .. top
        BY <4>1, <4>2
      <4>. QED
        BY <4>3 DEF lo, top
    <3>. QED
      BY <3>1
  <2>3. h[i + 1] = IF i = n - 1 THEN Len(s2) ELSE h2[i + 1]
    OBVIOUS
  <2>. QED
    BY <2>1, <2>2, <2>3 DEF Piece
<1>3. \A i, j \in 1 .. n - 1 : i <= j => h2[i] <= h2[j]
  BY DEF Layers
<1>. QED
  BY <1>1, <1>2, <1>3 DEF Layers

(* The top layer grows with the stack. *)
LEMMA LayerGrown ==
  ASSUME NEW S, NEW s \in Seq(S), NEW s2 \in Seq(S), NEW base \in Nat, NEW n \in Nat, n >= 1,
         NEW h \in [1 .. n -> Nat], NEW p,
         NEW h2 \in [1 .. n -> Nat], NEW p2, NEW t \in Seq(S),
         Layers(s, base, n, h, p),
         SameLayers(n - 1, h, p, h2, p2),
         h2[n] = h[n], Len(p[n]) \in Nat,
         Extends(p[n], t, p2[n]),
         Extends(s, t, s2)
  PROVE  Layers(s2, base, n, h2, p2)
<1>0. /\ \A i \in 1 .. n : h2[i] = h[i] /\ Len(p[i]) \in Nat
      /\ \A i \in 1 .. n - 1 : p2[i] = p[i]
      /\ Len(p2[n]) = Len(p[n]) + Len(t)
      /\ \A k \in 1 .. Len(p[n]) : p2[n][k] = p[n][k]
      /\ \A k \in 1 .. Len(t) : p2[n][Len(p[n]) + k] = t[k]
      /\ Len(s2) = Len(s) + Len(t)
      /\ \A k \in 1 .. Len(s) : s2[k] = s[k]
      /\ \A k \in 1 .. Len(t) : s2[Len(s) + k] = t[k]
  <2>1. \A i \in 1 .. n : i = n \/ i \in 1 .. n - 1
    OBVIOUS
  <2>. QED
    BY <2>1 DEF SameLayers, Extends
<1>1. /\ Len(s) \in Nat /\ Len(t) \in Nat
      /\ n \in 1 .. n /\ h[n] \in Nat /\ Len(p[n]) \in Nat
  BY LenProperties
<1>2. \A i \in 1 .. n : h[i] <= h[n]
  BY <1>1 DEF Layers
<1>3. Piece(s, h[n], Len(s), p[n])
  BY <1>1 DEF Layers
<1>4. base = h2[1]
  BY <1>0 DEF Layers
<1>5. Len(s) = h[n] + Len(p[n])
  BY <1>3 DEF Piece
<1>6. ASSUME NEW i \in 1 .. n - 1
      PROVE  Piece(s2, h2[i], h2[i + 1], p2[i])
  <2>1. /\ i \in 1 .. n /\ i + 1 \in 1 .. n /\ i # n
        /\ h[i] \in Nat /\ h[i + 1] \in Nat /\ Len(p[i]) \in Nat
    BY <1>0
  <2>2. Piece(s, h[i], h[i + 1], p[i])
    BY <2>1 DEF Layers
  <2>3. h[i + 1] <= Len(s)
    <3>1. h[i + 1] <= h[n]
      BY <1>2, <2>1
    <3>2. h[n] <= Len(s)
      BY <1>1, <1>5
    <3>. QED
      BY <3>1, <3>2, <2>1, <1>1
  <2>4. h[i + 1] = h[i] + Len(p[i])
    BY <2>2 DEF Piece
  <2>5. ASSUME NEW k \in 1 .. Len(p[i])
        PROVE  s2[h[i] + k] = p[i][k]
    <3>. DEFINE lo == h[i]  size == Len(p[i])
    <3>1. h[i] + k \in 1 .. Len(s)
      <4>1. lo \in Nat /\ size \in Nat /\ lo + size <= Len(s) /\ k \in 1 .. size
        BY <2>1, <2>3, <2>4
      <4>. HIDE DEF lo, size
      <4>2. lo + k \in 1 .. Len(s)
        BY <4>1, <1>1
      <4>. QED
        BY <4>2 DEF lo
    <3>2. s2[h[i] + k] = s[h[i] + k]
      BY <3>1, <1>0
    <3>. QED
      BY <3>2, <2>2 DEF Piece
  <2>6. h2[i] = h[i] /\ h2[i + 1] = h[i + 1] /\ p2[i] = p[i]
    BY <2>1, <1>0
  <2>. QED
    BY <2>4, <2>5, <2>6 DEF Piece
<1>8. Piece(s2, h2[n], Len(s2), p2[n])
  <2>. DEFINE lo == h[n]  size == Len(p[n])
  <2>1. lo \in Nat /\ size \in Nat /\ Len(s) = lo + size
    BY <1>1, <1>5
  <2>2. /\ h2[n] = lo /\ Len(p2[n]) = size + Len(t)
        /\ \A k \in 1 .. size : p2[n][k] = p[n][k] /\ s[lo + k] = p[n][k]
        /\ \A k \in 1 .. Len(t) : p2[n][size + k] = t[k]
    BY <1>0, <1>1, <1>3 DEF Piece
  <2>. HIDE DEF lo, size
  <2>3. Len(s2) = h2[n] + Len(p2[n])
    BY <2>1, <2>2, <1>0, <1>1
  <2>4. ASSUME NEW k \in 1 .. Len(p2[n])
        PROVE  s2[h2[n] + k] = p2[n][k]
    <3>1. CASE k \in 1 .. size
      <4>1. lo + k \in 1 .. Len(s)
        BY <3>1, <2>1
      <4>2. s2[lo + k] = s[lo + k]
        BY <4>1, <1>0
      <4>. QED
        BY <4>2, <3>1, <2>2
    <3>2. CASE k \notin 1 .. size
      <4>. DEFINE r == k - size
      <4>1. r \in 1 .. Len(t) /\ k = size + r /\ lo + k = Len(s) + r
        BY <3>2, <2>1, <2>2, <1>1
      <4>. HIDE DEF r
      <4>2. s2[Len(s) + r] = t[r] /\ p2[n][size + r] = t[r]
        BY <4>1, <2>2, <1>0
      <4>. QED
        BY <4>1, <4>2, <2>2
    <3>. QED
      BY <3>1, <3>2
  <2>. QED
    BY <2>3, <2>4 DEF Piece
<1>7. \A i, j \in 1 .. n : i <= j => h2[i] <= h2[j]
  BY <1>0 DEF Layers
<1>9. \A i \in 1 .. n : Piece(s2, h2[i], IF i = n THEN Len(s2) ELSE h2[i + 1], p2[i])
  <2>1. \A i \in 1 .. n : i = n \/ (i # n /\ i \in 1 .. n - 1)
    OBVIOUS
  <2>. QED
    BY <2>1, <1>6, <1>8
<1>. QED
  BY <1>4, <1>7, <1>9 DEF Layers

-----------------------------------------------------------------------------
(* What the calls in progress hold on the two stacks. *)

ScopeKinds == {"Global", "Command", "Local"}

LEMMA PieceTypes ==
  ASSUME NEW a \in Activity
  PROVE  /\ ScopesOf(a) \in Seq(ScopeKinds) /\ Len(ScopesOf(a)) \in Nat
         /\ FramesOf(a) \in Seq(Frames) /\ Len(FramesOf(a)) \in Nat
<1>1. a.call \in Calls /\ a.signal \in Signals \union {NoSignal}
  BY DEF Activity
<1>2. ScopesOf(a) \in Seq(ScopeKinds)
  <2>1. /\ <<>> \in Seq(ScopeKinds) /\ <<"Command">> \in Seq(ScopeKinds)
        /\ <<"Local">> \in Seq(ScopeKinds) /\ <<"Command", "Local">> \in Seq(ScopeKinds)
    BY DEF ScopeKinds
  <2>2. \/ ScopesOf(a) = <<>> \/ ScopesOf(a) = <<"Command">>
        \/ ScopesOf(a) = <<"Local">> \/ ScopesOf(a) = <<"Command", "Local">>
    BY <1>1 DEF ScopesOf, Calls
  <2>. QED
    BY <2>1, <2>2
<1>3. /\ Frame("source", NoSignal) \in Frames
      /\ Frame("function", NoSignal) \in Frames
      /\ Frame("trap", a.signal) \in Frames
  BY <1>1 DEF Frame, Frames, FrameKinds
<1>4. FramesOf(a) \in Seq(Frames)
  BY <1>1, <1>3 DEF FramesOf, Calls
<1>. QED
  BY <1>2, <1>4, LenProperties

LEMMA HeightTypes ==
  ASSUME NEW act \in Seq(Activity)
  PROVE  /\ Len(act) \in Nat
         /\ \A i \in 1 .. Len(act) : act[i] \in Activity
         /\ ScopeHeights(act) \in [1 .. Len(act) -> Nat]
         /\ FrameHeights(act) \in [1 .. Len(act) -> Nat]
         /\ \A i \in 1 .. Len(act) :
              /\ ScopeHeights(act)[i] = act[i].under.scopes
              /\ FrameHeights(act)[i] = act[i].under.frames
              /\ ScopePieces(act)[i] = ScopesOf(act[i])
              /\ FramePieces(act)[i] = FramesOf(act[i])
              /\ Len(ScopePieces(act)[i]) \in Nat
              /\ Len(FramePieces(act)[i]) \in Nat
<1>1. Len(act) \in Nat /\ \A i \in 1 .. Len(act) : act[i] \in Activity
  BY ElementOfSeq, LenProperties
<1>2. \A i \in 1 .. Len(act) : act[i].under.scopes \in Nat /\ act[i].under.frames \in Nat
  BY <1>1 DEF Activity, Heights
<1>3. ScopeHeights(act) \in [1 .. Len(act) -> Nat] /\ FrameHeights(act) \in [1 .. Len(act) -> Nat]
  BY <1>2 DEF ScopeHeights, FrameHeights
<1>4. \A i \in 1 .. Len(act) :
        /\ ScopeHeights(act)[i] = act[i].under.scopes
        /\ FrameHeights(act)[i] = act[i].under.frames
        /\ ScopePieces(act)[i] = ScopesOf(act[i])
        /\ FramePieces(act)[i] = FramesOf(act[i])
  BY DEF ScopeHeights, FrameHeights, ScopePieces, FramePieces
<1>5. \A i \in 1 .. Len(act) :
        Len(ScopePieces(act)[i]) \in Nat /\ Len(FramePieces(act)[i]) \in Nat
  BY <1>1, <1>4, PieceTypes
<1>. QED
  BY <1>1, <1>3, <1>4, <1>5

(* A call is entered: its layers lie on top of those of the calls around it. *)
LEMMA LayersBegin ==
  ASSUME NEW act \in Seq(Activity), NEW a \in Activity,
         NEW ss \in Seq(ScopeKinds), NEW ss2 \in Seq(ScopeKinds),
         NEW fs \in Seq(Frames), NEW fs2 \in Seq(Frames),
         NEW base \in Heights,
         ScopeLayers(ss, act, base.scopes), FrameLayers(fs, act, base.frames),
         a.under = [scopes |-> Len(ss), frames |-> Len(fs)],
         Extends(ss, ScopesOf(a), ss2), Extends(fs, FramesOf(a), fs2)
  PROVE  /\ ScopeLayers(ss2, Append(act, a), base.scopes)
         /\ FrameLayers(fs2, Append(act, a), base.frames)
<1>. DEFINE n == Len(act)
            act2 == Append(act, a)
<1>1. /\ act2 \in Seq(Activity) /\ Len(act2) = n + 1 /\ act2[n + 1] = a
      /\ \A i \in 1 .. n : act2[i] = act[i]
  BY AppendProperties
<1>2. n \in Nat /\ base.scopes \in Nat /\ base.frames \in Nat
  BY LenProperties DEF Heights
<1>. HIDE DEF n, act2
<1>3. /\ ScopeHeights(act) \in [1 .. n -> Nat] /\ ScopeHeights(act2) \in [1 .. n + 1 -> Nat]
      /\ FrameHeights(act) \in [1 .. n -> Nat] /\ FrameHeights(act2) \in [1 .. n + 1 -> Nat]
  BY <1>1, HeightTypes DEF n
<1>4. \A i \in 1 .. n :
        /\ ScopeHeights(act)[i] = act[i].under.scopes
        /\ FrameHeights(act)[i] = act[i].under.frames
        /\ ScopePieces(act)[i] = ScopesOf(act[i]) /\ Len(ScopePieces(act)[i]) \in Nat
        /\ FramePieces(act)[i] = FramesOf(act[i]) /\ Len(FramePieces(act)[i]) \in Nat
  BY HeightTypes DEF n
<1>10. \A i \in 1 .. n + 1 :
        /\ ScopeHeights(act2)[i] = act2[i].under.scopes
        /\ FrameHeights(act2)[i] = act2[i].under.frames
        /\ ScopePieces(act2)[i] = ScopesOf(act2[i])
        /\ FramePieces(act2)[i] = FramesOf(act2[i])
  BY <1>1, HeightTypes
<1>11. /\ SameLayers(n, ScopeHeights(act), ScopePieces(act), ScopeHeights(act2), ScopePieces(act2))
       /\ SameLayers(n, FrameHeights(act), FramePieces(act), FrameHeights(act2), FramePieces(act2))
  <2>1. ASSUME NEW i \in 1 .. n
        PROVE  /\ i \in 1 .. n /\ i \in 1 .. n + 1 /\ act2[i] = act[i]
    BY <1>1, <1>2
  <2>2. ASSUME NEW i \in 1 .. n
        PROVE  /\ ScopeHeights(act2)[i] = ScopeHeights(act)[i]
               /\ ScopePieces(act2)[i] = ScopePieces(act)[i]
               /\ Len(ScopePieces(act)[i]) \in Nat
               /\ FrameHeights(act2)[i] = FrameHeights(act)[i]
               /\ FramePieces(act2)[i] = FramePieces(act)[i]
               /\ Len(FramePieces(act)[i]) \in Nat
    BY <2>1, <2>2, <1>4, <1>10, Zenon
  <2>. QED
    BY <2>2 DEF SameLayers
<1>5. /\ ScopeHeights(act2)[n + 1] = Len(ss) /\ ScopePieces(act2)[n + 1] = ScopesOf(a)
      /\ FrameHeights(act2)[n + 1] = Len(fs) /\ FramePieces(act2)[n + 1] = FramesOf(a)
  <2>1. n + 1 \in 1 .. n + 1
    BY <1>2
  <2>. QED
    BY <2>1, <1>1, <1>10
<1>6. ScopesOf(a) \in Seq(ScopeKinds) /\ FramesOf(a) \in Seq(Frames)
  BY PieceTypes
<1>7. /\ Layers(ss, base.scopes, n, ScopeHeights(act), ScopePieces(act))
      /\ Layers(fs, base.frames, n, FrameHeights(act), FramePieces(act))
  BY DEF ScopeLayers, FrameLayers, n
<1>8. Layers(ss2, base.scopes, n + 1, ScopeHeights(act2), ScopePieces(act2))
  BY <1>2, <1>3, <1>5, <1>6, <1>7, <1>11, LayerPushed
<1>9. Layers(fs2, base.frames, n + 1, FrameHeights(act2), FramePieces(act2))
  BY <1>2, <1>3, <1>5, <1>6, <1>7, <1>11, LayerPushed
<1>. QED
  BY <1>1, <1>8, <1>9 DEF ScopeLayers, FrameLayers, act2

(* A call is left: both stacks are cut where it began. *)
LEMMA LayersEnd ==
  ASSUME NEW act \in Seq(Activity), act # <<>>,
         NEW ss \in Seq(ScopeKinds), NEW ss2 \in Seq(ScopeKinds),
         NEW fs \in Seq(Frames), NEW fs2 \in Seq(Frames),
         NEW base \in Heights,
         ScopeLayers(ss, act, base.scopes), FrameLayers(fs, act, base.frames),
         Cut(ss, Top(act).under.scopes, ss2), Cut(fs, Top(act).under.frames, fs2)
  PROVE  /\ ScopeLayers(ss2, Popped(act), base.scopes)
         /\ FrameLayers(fs2, Popped(act), base.frames)
<1>. DEFINE n == Len(act)
            act2 == Popped(act)
<1>1. /\ act2 \in Seq(Activity) /\ Len(act2) = n - 1 /\ n \in Nat /\ n >= 1
      /\ \A i \in 1 .. n - 1 : act2[i] = act[i]
  BY PoppedStack
<1>2. base.scopes \in Nat /\ base.frames \in Nat
  BY DEF Heights
<1>. HIDE DEF n, act2
<1>3. /\ ScopeHeights(act) \in [1 .. n -> Nat] /\ ScopeHeights(act2) \in [1 .. n - 1 -> Nat]
      /\ FrameHeights(act) \in [1 .. n -> Nat] /\ FrameHeights(act2) \in [1 .. n - 1 -> Nat]
  BY <1>1, HeightTypes DEF n
<1>4. \A i \in 1 .. n :
        /\ ScopeHeights(act)[i] = act[i].under.scopes
        /\ FrameHeights(act)[i] = act[i].under.frames
        /\ ScopePieces(act)[i] = ScopesOf(act[i]) /\ Len(ScopePieces(act)[i]) \in Nat
        /\ FramePieces(act)[i] = FramesOf(act[i]) /\ Len(FramePieces(act)[i]) \in Nat
  BY HeightTypes DEF n
<1>10. \A i \in 1 .. n - 1 :
        /\ ScopeHeights(act2)[i] = act2[i].under.scopes
        /\ FrameHeights(act2)[i] = act2[i].under.frames
        /\ ScopePieces(act2)[i] = ScopesOf(act2[i])
        /\ FramePieces(act2)[i] = FramesOf(act2[i])
  BY <1>1, HeightTypes
<1>11. /\ SameLayers(n - 1, ScopeHeights(act), ScopePieces(act), ScopeHeights(act2), ScopePieces(act2))
       /\ SameLayers(n - 1, FrameHeights(act), FramePieces(act), FrameHeights(act2), FramePieces(act2))
  <2>1. ASSUME NEW i \in 1 .. n - 1
        PROVE  i \in 1 .. n /\ i \in 1 .. n - 1 /\ act2[i] = act[i]
    <3>1. n \in Nat /\ act2[i] = act[i]
      BY <1>1
    <3>. QED
      BY <3>1
  <2>2. ASSUME NEW i \in 1 .. n - 1
        PROVE  /\ ScopeHeights(act2)[i] = ScopeHeights(act)[i]
               /\ ScopePieces(act2)[i] = ScopePieces(act)[i]
               /\ Len(ScopePieces(act)[i]) \in Nat
               /\ FrameHeights(act2)[i] = FrameHeights(act)[i]
               /\ FramePieces(act2)[i] = FramePieces(act)[i]
               /\ Len(FramePieces(act)[i]) \in Nat
    BY <2>1, <2>2, <1>4, <1>10, Zenon
  <2>. QED
    BY <2>2 DEF SameLayers
<1>5. Cut(ss, ScopeHeights(act)[n], ss2) /\ Cut(fs, FrameHeights(act)[n], fs2)
  <2>1. n \in 1 .. n /\ Top(act) = act[n]
    BY <1>1 DEF n, Top
  <2>. QED
    BY <2>1, <1>4
<1>7. /\ Layers(ss, base.scopes, n, ScopeHeights(act), ScopePieces(act))
      /\ Layers(fs, base.frames, n, FrameHeights(act), FramePieces(act))
  BY DEF ScopeLayers, FrameLayers, n
<1>8. Layers(ss2, base.scopes, n - 1, ScopeHeights(act2), ScopePieces(act2))
  BY <1>1, <1>2, <1>3, <1>5, <1>7, <1>11, LayerPopped
<1>9. Layers(fs2, base.frames, n - 1, FrameHeights(act2), FramePieces(act2))
  BY <1>1, <1>2, <1>3, <1>5, <1>7, <1>11, LayerPopped
<1>. QED
  BY <1>1, <1>8, <1>9 DEF ScopeLayers, FrameLayers, act2

(* The same calls, but for the kind of the last one. *)
Relabelled(act, act2) ==
  /\ act2 \in Seq(Activity) /\ Len(act2) = Len(act)
  /\ \A i \in 1 .. Len(act) - 1 : act2[i] = act[i]
  /\ act2[Len(act)].under = act[Len(act)].under

(* Becomes changes nothing of the activity but the kind of the last call. *)
LEMMA CallBecomes ==
  ASSUME NEW act \in Seq(Activity), act # <<>>, NEW call \in Calls
  PROVE  LET n == Len(act)
             act2 == [act EXCEPT ![Len(act)].call = call]
         IN /\ n \in Nat /\ n >= 1
            /\ act2 \in Seq(Activity) /\ act2 # <<>> /\ Len(act2) = n
            /\ \A i \in 1 .. n - 1 : act2[i] = act[i]
            /\ act2[n] \in Activity
            /\ act2[n].call = call
            /\ act2[n].signal = act[n].signal
            /\ act2[n].under = act[n].under
<1>. DEFINE n == Len(act)
            a2 == [act[n] EXCEPT !.call = call]
            act2 == [act EXCEPT ![n] = a2]
<1>1. n \in Nat /\ n >= 1 /\ n \in 1 .. Len(act)
  BY PoppedStack
<1>2. act[n] \in Activity
  BY <1>1, ElementOfSeq
<1>3. /\ a2 \in Activity /\ a2.call = call
      /\ a2.signal = act[n].signal /\ a2.under = act[n].under
  BY <1>2 DEF Activity
<1>. HIDE DEF a2
<1>4. /\ act2 \in Seq(Activity) /\ Len(act2) = n
      /\ \A i \in 1 .. n : act2[i] = IF i = n THEN a2 ELSE act[i]
  BY <1>1, <1>3, ExceptSeq
<1>5. act2 = [act EXCEPT ![Len(act)].call = call]
  BY DEF a2
<1>6. act2 # <<>>
  BY <1>4, <1>1, EmptySeq
<1>. HIDE DEF act2
<1>7. \A i \in 1 .. n - 1 : act2[i] = act[i]
  BY <1>1, <1>4
<1>8. act2[n] = a2
  BY <1>1, <1>4
<1>. QED
  BY <1>1, <1>3, <1>4, <1>5, <1>6, <1>7, <1>8 DEF n

(* The innermost call goes on as another, with more on the stacks. *)
LEMMA LayersGrow ==
  ASSUME NEW act \in Seq(Activity), act # <<>>,
         NEW ss \in Seq(ScopeKinds), NEW ss2 \in Seq(ScopeKinds), NEW t \in Seq(ScopeKinds),
         NEW fs \in Seq(Frames), NEW fs2 \in Seq(Frames), NEW u \in Seq(Frames),
         NEW base \in Heights, NEW act2, Relabelled(act, act2),
         ScopeLayers(ss, act, base.scopes), FrameLayers(fs, act, base.frames),
         Extends(ScopesOf(Top(act)), t, ScopesOf(Top(act2))), Extends(ss, t, ss2),
         Extends(FramesOf(Top(act)), u, FramesOf(Top(act2))), Extends(fs, u, fs2)
  PROVE  /\ ScopeLayers(ss2, act2, base.scopes)
         /\ FrameLayers(fs2, act2, base.frames)
<1>. DEFINE n == Len(act)
<1>1. /\ act2 \in Seq(Activity) /\ Len(act2) = n /\ n \in Nat /\ n >= 1
      /\ \A i \in 1 .. n - 1 : act2[i] = act[i]
      /\ act2[n].under = act[n].under
      /\ Top(act) = act[n] /\ Top(act2) = act2[n]
  BY PoppedStack DEF Relabelled, Top
<1>2. base.scopes \in Nat /\ base.frames \in Nat
  BY DEF Heights
<1>. HIDE DEF n
<1>3. /\ ScopeHeights(act) \in [1 .. n -> Nat] /\ ScopeHeights(act2) \in [1 .. n -> Nat]
      /\ FrameHeights(act) \in [1 .. n -> Nat] /\ FrameHeights(act2) \in [1 .. n -> Nat]
  BY <1>1, HeightTypes DEF n
<1>4. \A i \in 1 .. n :
        /\ ScopeHeights(act)[i] = act[i].under.scopes
        /\ FrameHeights(act)[i] = act[i].under.frames
        /\ ScopePieces(act)[i] = ScopesOf(act[i]) /\ Len(ScopePieces(act)[i]) \in Nat
        /\ FramePieces(act)[i] = FramesOf(act[i]) /\ Len(FramePieces(act)[i]) \in Nat
  BY HeightTypes DEF n
<1>5. \A i \in 1 .. n :
        /\ ScopeHeights(act2)[i] = act2[i].under.scopes
        /\ FrameHeights(act2)[i] = act2[i].under.frames
        /\ ScopePieces(act2)[i] = ScopesOf(act2[i])
        /\ FramePieces(act2)[i] = FramesOf(act2[i])
  BY <1>1, HeightTypes
<1>6. /\ SameLayers(n - 1, ScopeHeights(act), ScopePieces(act), ScopeHeights(act2), ScopePieces(act2))
      /\ SameLayers(n - 1, FrameHeights(act), FramePieces(act), FrameHeights(act2), FramePieces(act2))
  <2>1. ASSUME NEW i \in 1 .. n - 1
        PROVE  i \in 1 .. n /\ act2[i] = act[i]
    <3>1. n \in Nat /\ act2[i] = act[i]
      BY <1>1
    <3>. QED
      BY <3>1
  <2>2. ASSUME NEW i \in 1 .. n - 1
        PROVE  /\ ScopeHeights(act2)[i] = ScopeHeights(act)[i]
               /\ ScopePieces(act2)[i] = ScopePieces(act)[i]
               /\ Len(ScopePieces(act)[i]) \in Nat
               /\ FrameHeights(act2)[i] = FrameHeights(act)[i]
               /\ FramePieces(act2)[i] = FramePieces(act)[i]
               /\ Len(FramePieces(act)[i]) \in Nat
    <3>1. i \in 1 .. n /\ act2[i] = act[i]
      BY <2>1
    <3>. QED
      BY <3>1, <1>4, <1>5, Zenon
  <2>. QED
    BY <2>2 DEF SameLayers
<1>7. n \in 1 .. n
  BY <1>1
<1>8. /\ ScopeHeights(act2)[n] = ScopeHeights(act)[n] /\ Len(ScopePieces(act)[n]) \in Nat
      /\ FrameHeights(act2)[n] = FrameHeights(act)[n] /\ Len(FramePieces(act)[n]) \in Nat
  <2>1. act2[n].under = act[n].under
    BY <1>1
  <2>. QED
    BY <2>1, <1>4, <1>5, <1>7, Zenon
<1>9. /\ Extends(ScopePieces(act)[n], t, ScopePieces(act2)[n])
      /\ Extends(FramePieces(act)[n], u, FramePieces(act2)[n])
  BY <1>1, <1>4, <1>5, <1>7
<1>10. /\ Layers(ss, base.scopes, n, ScopeHeights(act), ScopePieces(act))
       /\ Layers(fs, base.frames, n, FrameHeights(act), FramePieces(act))
  BY DEF ScopeLayers, FrameLayers, n
<1>11. Layers(ss2, base.scopes, n, ScopeHeights(act2), ScopePieces(act2))
  BY <1>1, <1>2, <1>3, <1>6, <1>8, <1>9, <1>10, LayerGrown
<1>12. Layers(fs2, base.frames, n, FrameHeights(act2), FramePieces(act2))
  BY <1>1, <1>2, <1>3, <1>6, <1>8, <1>9, <1>10, LayerGrown
<1>. QED
  BY <1>1, <1>11, <1>12 DEF ScopeLayers, FrameLayers

-----------------------------------------------------------------------------
(* Handlers. *)

LEMMA HandledBegin ==
  ASSUME NEW act \in Seq(Activity), NEW a \in Activity, NEW sigs, HandledBy(act, sigs)
  PROVE  /\ a.call # "trap" => HandledBy(Append(act, a), sigs)
         /\ a.call = "trap" /\ a.signal \notin sigs
              => HandledBy(Append(act, a), sigs \union {a.signal})
<1>. DEFINE n == Len(act)
            act2 == Append(act, a)
<1>1. /\ n \in Nat /\ Len(act2) = n + 1 /\ act2[n + 1] = a
      /\ \A i \in 1 .. n : act2[i] = act[i]
  BY AppendProperties, LenProperties
<1>. HIDE DEF act2
<1>2. CASE a.call # "trap"
  <2>1. Handling(act2) = Handling(act)
    BY <1>1, <1>2 DEF Handling
  <2>2. \A i \in Handling(act) : act2[i] = act[i]
    BY <1>1 DEF Handling
  <2>. QED
    BY <2>1, <2>2, <1>2 DEF HandledBy, act2
<1>3. CASE a.call = "trap"
  <2>1. Handling(act2) = Handling(act) \union {n + 1} /\ n + 1 \notin Handling(act)
    BY <1>1, <1>3 DEF Handling
  <2>2. \A i \in Handling(act) : act2[i] = act[i]
    BY <1>1 DEF Handling
  <2>3. act2[n + 1].signal = a.signal
    BY <1>1
  <2>4. ASSUME a.signal \notin sigs
        PROVE  HandledBy(act2, sigs \union {a.signal})
    <3>1. \A i \in Handling(act2) : act2[i].signal \in sigs \union {a.signal}
      BY <2>1, <2>2, <2>3 DEF HandledBy
    <3>2. \A g \in sigs \union {a.signal} : \E i \in Handling(act2) : act2[i].signal = g
      <4>. SUFFICES ASSUME NEW g \in sigs \union {a.signal}
                    PROVE  \E i \in Handling(act2) : act2[i].signal = g
        OBVIOUS
      <4>1. CASE g \in sigs
        <5>1. PICK i \in Handling(act) : act[i].signal = g
          BY <4>1 DEF HandledBy
        <5>2. i \in Handling(act2) /\ act2[i].signal = g
          BY <2>1, <2>2, <5>1
        <5>. QED
          BY <5>2
      <4>2. CASE g = a.signal
        BY <2>1, <2>3, <4>2
      <4>. QED
        BY <4>1, <4>2
    <3>3. \A i, j \in Handling(act2) : act2[i].signal = act2[j].signal => i = j
      BY <2>1, <2>2, <2>3, <2>4 DEF HandledBy
    <3>. QED
      BY <3>1, <3>2, <3>3 DEF HandledBy
  <2>. QED
    BY <2>4, <1>3 DEF act2
<1>. QED
  BY <1>2, <1>3

LEMMA HandledEnd ==
  ASSUME NEW act \in Seq(Activity), act # <<>>, NEW sigs, HandledBy(act, sigs)
  PROVE  /\ Top(act).call # "trap" => HandledBy(Popped(act), sigs)
         /\ Top(act).call = "trap" => HandledBy(Popped(act), sigs \ {Top(act).signal})
<1>. DEFINE n == Len(act)
            act2 == Popped(act)
<1>1. /\ n \in Nat /\ n >= 1 /\ Len(act2) = n - 1 /\ Top(act) = act[n]
      /\ \A i \in 1 .. n - 1 : act2[i] = act[i]
  BY PoppedStack DEF Top
<1>. HIDE DEF act2
<1>2. CASE Top(act).call # "trap"
  <2>1. Handling(act2) = Handling(act)
    BY <1>1, <1>2 DEF Handling
  <2>2. \A i \in Handling(act2) : act2[i] = act[i]
    BY <1>1 DEF Handling
  <2>. QED
    BY <2>1, <2>2, <1>2 DEF HandledBy, act2
<1>3. CASE Top(act).call = "trap"
  <2>1. Handling(act) = Handling(act2) \union {n} /\ n \notin Handling(act2)
    BY <1>1, <1>3 DEF Handling
  <2>2. \A i \in Handling(act2) : act2[i] = act[i]
    BY <1>1 DEF Handling
  <2>. QED
    BY <2>1, <2>2, <1>1, <1>3 DEF HandledBy, act2
<1>. QED
  BY <1>2, <1>3

LEMMA HandledBecomes ==
  ASSUME NEW act \in Seq(Activity), act # <<>>, NEW call \in Calls, call # "trap",
         Top(act).call # "trap", NEW sigs, HandledBy(act, sigs)
  PROVE  HandledBy([act EXCEPT ![Len(act)].call = call], sigs)
<1>. DEFINE n == Len(act)
            act2 == [act EXCEPT ![Len(act)].call = call]
<1>1. /\ n \in Nat /\ n >= 1 /\ Len(act2) = n /\ Top(act) = act[n]
      /\ \A i \in 1 .. n - 1 : act2[i] = act[i]
      /\ act2[n].call = call
  BY CallBecomes DEF Top
<1>. HIDE DEF act2
<1>2. Handling(act2) = Handling(act)
  BY <1>1 DEF Handling
<1>3. \A i \in Handling(act) : act2[i] = act[i]
  BY <1>1 DEF Handling
<1>. QED
  BY <1>2, <1>3 DEF HandledBy, act2

LEMMA HandledNone == HandledBy(<<>>, {})
BY DEF HandledBy, Handling

-----------------------------------------------------------------------------
(* The depths. *)

OfKind(fs, kind) == {i \in DOMAIN fs : fs[i].kind = kind}

LEMMA OfKindFinite ==
  ASSUME NEW fs \in Seq(Frames), NEW kind
  PROVE  /\ OfKind(fs, kind) = {i \in 1 .. Len(fs) : fs[i].kind = kind}
         /\ IsFiniteSet(OfKind(fs, kind))
         /\ Cardinality(OfKind(fs, kind)) \in Nat
<1>1. OfKind(fs, kind) = {i \in 1 .. Len(fs) : fs[i].kind = kind} /\ Len(fs) \in Nat
  BY LenProperties DEF OfKind
<1>2. OfKind(fs, kind) \in SUBSET (1 .. Len(fs))
  BY <1>1
<1>3. IsFiniteSet(1 .. Len(fs))
  BY <1>1, FS_Interval
<1>4. IsFiniteSet(OfKind(fs, kind))
  BY <1>2, <1>3, FS_Subset
<1>. QED
  BY <1>1, <1>4, FS_CardinalityType

LEMMA CountPushed ==
  ASSUME NEW fs \in Seq(Frames), NEW f \in Frames, NEW kind
  PROVE  /\ Cardinality(OfKind(fs, kind)) \in Nat
         /\ Cardinality(OfKind(Append(fs, f), kind)) =
              IF f.kind = kind THEN Cardinality(OfKind(fs, kind)) + 1
              ELSE Cardinality(OfKind(fs, kind))
<1>. DEFINE n == Len(fs)
            fs2 == Append(fs, f)
<1>1. /\ fs2 \in Seq(Frames)
      /\ n \in Nat /\ Len(fs2) = n + 1 /\ fs2[n + 1] = f
      /\ \A i \in 1 .. n : fs2[i] = fs[i]
  BY AppendProperties, LenProperties
<1>. HIDE DEF fs2
<1>2. IsFiniteSet(OfKind(fs, kind))
  BY <1>1, OfKindFinite
<1>3. OfKind(fs2, kind) = IF f.kind = kind THEN OfKind(fs, kind) \cup {n + 1}
                          ELSE OfKind(fs, kind)
  <2>1. /\ OfKind(fs, kind) = {i \in 1 .. n : fs[i].kind = kind}
        /\ OfKind(fs2, kind) = {i \in 1 .. n + 1 : fs2[i].kind = kind}
    BY <1>1, OfKindFinite
  <2>. QED
    BY <2>1, <1>1
<1>4. n + 1 \notin OfKind(fs, kind)
  BY <1>1, OfKindFinite
<1>. QED
  BY <1>2, <1>3, <1>4, FS_AddElement, FS_CardinalityType DEF fs2

LEMMA CountPopped ==
  ASSUME NEW fs \in Seq(Frames), fs # <<>>, NEW kind
  PROVE  /\ Cardinality(OfKind(fs, kind)) \in Nat
         /\ Cardinality(OfKind(Popped(fs), kind)) \in Nat
         /\ Cardinality(OfKind(fs, kind)) =
              IF Top(fs).kind = kind THEN Cardinality(OfKind(Popped(fs), kind)) + 1
              ELSE Cardinality(OfKind(Popped(fs), kind))
<1>. DEFINE n == Len(fs)
            fs2 == Popped(fs)
<1>1. /\ fs2 \in Seq(Frames)
      /\ n \in Nat /\ n >= 1 /\ Len(fs2) = n - 1 /\ Top(fs) = fs[n]
      /\ \A i \in 1 .. n - 1 : fs2[i] = fs[i]
  BY PoppedStack DEF Top
<1>. HIDE DEF fs2
<1>2. IsFiniteSet(OfKind(fs, kind)) /\ IsFiniteSet(OfKind(fs2, kind))
  BY <1>1, OfKindFinite
<1>3. OfKind(fs, kind) = IF Top(fs).kind = kind THEN OfKind(fs2, kind) \cup {n}
                         ELSE OfKind(fs2, kind)
  <2>1. /\ OfKind(fs, kind) = {i \in 1 .. n : fs[i].kind = kind}
        /\ OfKind(fs2, kind) = {i \in 1 .. n - 1 : fs2[i].kind = kind}
    BY <1>1, OfKindFinite
  <2>. QED
    BY <2>1, <1>1
<1>4. n \notin OfKind(fs2, kind)
  BY <1>1, OfKindFinite
<1>. QED
  BY <1>2, <1>3, <1>4, FS_AddElement, FS_CardinalityType DEF fs2

DepthsOf(fs, calls, sources) ==
  /\ calls = Cardinality(OfKind(fs, "function"))
  /\ sources = Cardinality(OfKind(fs, "source"))
  /\ calls <= MaxFunctionCallDepth

FrameTypes ==
  /\ frames \in Seq(Frames)
  /\ func_call_depth \in Nat /\ script_source_depth \in Nat
  /\ active_trap_signals \subseteq Signals

LEMMA FramePushed ==
  ASSUME FrameTypes, DepthsCountFrames,
         NEW kind \in FrameKinds, NEW signal \in Signals \union {NoSignal},
         kind = "trap" => signal \in Signals,
         kind = "function" => func_call_depth < MaxFunctionCallDepth,
         push_frame(kind, signal)
  PROVE  /\ FrameTypes' /\ DepthsCountFrames'
         /\ Frame(kind, signal) \in Frames
         /\ Extends(frames, <<Frame(kind, signal)>>, frames')
<1>. DEFINE f == Frame(kind, signal)
<1>1. f \in Frames /\ f.kind = kind /\ f.signal = signal
  BY DEF Frame, Frames
<1>2. frames' = Append(frames, f)
  BY DEF push_frame
<1>. HIDE DEF f
<1>3. FrameTypes'
  BY <1>1, <1>2, AppendProperties DEF FrameTypes, push_frame
<1>4. Extends(frames, <<f>>, frames')
  <2>1. /\ Len(frames') = Len(frames) + 1 /\ frames'[Len(frames) + 1] = f
        /\ \A k \in 1 .. Len(frames) : frames'[k] = frames[k]
    BY <1>1, <1>2, AppendProperties DEF FrameTypes
  <2>2. Len(<<f>>) = 1 /\ <<f>>[1] = f
    OBVIOUS
  <2>. QED
    BY <2>1, <2>2 DEF Extends
<1>5. DepthsCountFrames'
  <2>1. DepthsOf(frames, func_call_depth, script_source_depth)
    BY DEF DepthsCountFrames, DepthsOf, FramesWith, OfKind
  <2>2. \A k : Cardinality(OfKind(frames', k)) =
                 IF kind = k THEN Cardinality(OfKind(frames, k)) + 1
                 ELSE Cardinality(OfKind(frames, k))
    BY <1>1, <1>2, CountPushed DEF FrameTypes
  <2>3. /\ func_call_depth' = IF kind = "function" THEN func_call_depth + 1 ELSE func_call_depth
        /\ script_source_depth' =
             IF kind = "source" THEN script_source_depth + 1 ELSE script_source_depth
    BY DEF push_frame
  <2>4. DepthsOf(frames', func_call_depth', script_source_depth')
    BY <2>1, <2>2, <2>3 DEF DepthsOf, FrameTypes
  <2>. QED
    BY <2>4 DEF DepthsOf, DepthsCountFrames, OfKind, FramesWith
<1>. QED
  BY <1>1, <1>3, <1>4, <1>5 DEF f

LEMMA FramePopped ==
  ASSUME FrameTypes, DepthsCountFrames, pop_frame
  PROVE  FrameTypes' /\ DepthsCountFrames'
<1>1. CASE frames = <<>>
  BY <1>1 DEF pop_frame, FrameTypes, counters, DepthsCountFrames, FramesWith
<1>2. CASE frames # <<>>
  <2>. DEFINE f == Top(frames)
  <2>1. /\ frames' = Popped(frames)
        /\ func_call_depth' =
             IF f.kind = "function" THEN Decrement(func_call_depth) ELSE func_call_depth
        /\ script_source_depth' =
             IF f.kind = "source" THEN Decrement(script_source_depth) ELSE script_source_depth
        /\ active_trap_signals' \subseteq active_trap_signals
    BY <1>2 DEF pop_frame
  <2>. HIDE DEF f
  <2>2. FrameTypes'
    BY <1>2, <2>1, PoppedStack DEF FrameTypes, Decrement
  <2>3. DepthsOf(frames, func_call_depth, script_source_depth)
    BY DEF DepthsCountFrames, DepthsOf, FramesWith, OfKind
  <2>4. \A k : /\ Cardinality(OfKind(frames', k)) \in Nat
               /\ Cardinality(OfKind(frames, k)) =
                    IF f.kind = k THEN Cardinality(OfKind(frames', k)) + 1
                    ELSE Cardinality(OfKind(frames', k))
    BY <1>2, <2>1, CountPopped DEF FrameTypes, f
  <2>5. DepthsOf(frames', func_call_depth', script_source_depth')
    BY <2>1, <2>3, <2>4 DEF DepthsOf, FrameTypes, Decrement
  <2>. QED
    BY <2>2, <2>5 DEF DepthsOf, DepthsCountFrames, OfKind, FramesWith
<1>. QED
  BY <1>1, <1>2

-----------------------------------------------------------------------------
(* Types and depths, in all states. *)

OtherTypes ==
  /\ scopes \in Seq(ScopeKinds)
  /\ suppressed \in Nat
  /\ activity \in Seq(Activity)
  /\ program \in [kind: ProgramKinds, state: {"running", "exiting", "ended"},
                  forked: BOOLEAN, refused: BOOLEAN, under: Heights]

LEMMA TypeParts == TypeOK <=> FrameTypes /\ OtherTypes
BY DEF TypeOK, FrameTypes, OtherTypes, ScopeKinds

LEMMA ScopePopped ==
  ASSUME NEW ss \in Seq(ScopeKinds), NEW kind
  PROVE  pop_scope(kind, ss) \in Seq(ScopeKinds)
<1>1. CASE ss = <<>>
  BY <1>1 DEF pop_scope
<1>2. CASE ss # <<>>
  BY <1>2, PoppedStack DEF pop_scope
<1>. QED
  BY <1>1, <1>2

LEMMA ScopePushed ==
  ASSUME NEW ss \in Seq(ScopeKinds), NEW kind \in ScopeKinds
  PROVE  /\ Append(ss, kind) \in Seq(ScopeKinds)
         /\ Extends(ss, <<kind>>, Append(ss, kind))
<1>1. /\ Append(ss, kind) \in Seq(ScopeKinds)
      /\ Len(Append(ss, kind)) = Len(ss) + 1 /\ Append(ss, kind)[Len(ss) + 1] = kind
      /\ \A k \in 1 .. Len(ss) : Append(ss, kind)[k] = ss[k]
  BY AppendProperties
<1>2. Len(<<kind>>) = 1 /\ <<kind>>[1] = kind
  OBVIOUS
<1>. QED
  BY <1>1, <1>2 DEF Extends

LEMMA NothingPushed ==
  ASSUME NEW S, NEW s \in Seq(S)
  PROVE  Extends(s, <<>>, s)
BY LenProperties DEF Extends

(* A call begun is one of Activity, and finds the stacks as they are. *)
LEMMA CallDone ==
  ASSUME OtherTypes, FrameTypes, NEW call \in Calls, NEW signal \in Signals \union {NoSignal}
  PROVE  /\ Doing(call, signal) \in Activity
         /\ Doing(call, signal).call = call /\ Doing(call, signal).signal = signal
         /\ Doing(call, signal).under = [scopes |-> Len(scopes), frames |-> Len(frames)]
         /\ Append(activity, Doing(call, signal)) \in Seq(Activity)
         /\ Here \in Heights
<1>1. Here = [scopes |-> Len(scopes), frames |-> Len(frames)] /\ Here \in Heights
  BY LenProperties DEF Here, Heights, OtherTypes, FrameTypes
<1>2. Doing(call, signal) \in Activity
  BY <1>1 DEF Doing, Activity
<1>3. Append(activity, Doing(call, signal)) \in Seq(Activity)
  BY <1>2, AppendProperties DEF OtherTypes
<1>. QED
  BY <1>1, <1>2, <1>3 DEF Doing

LEMMA CallRenamed ==
  ASSUME activity \in Seq(Activity), activity # <<>>, NEW call \in Calls
  PROVE  /\ Becomes(call) \in Seq(Activity) /\ Becomes(call) # <<>>
         /\ Relabelled(activity, Becomes(call))
         /\ Top(Becomes(call)).call = call
         /\ Top(Becomes(call)).signal = Top(activity).signal
<1>1. LET n == Len(activity)
          act2 == Becomes(call)
      IN /\ n \in Nat /\ n >= 1
         /\ act2 \in Seq(Activity) /\ act2 # <<>> /\ Len(act2) = n
         /\ \A i \in 1 .. n - 1 : act2[i] = activity[i]
         /\ act2[n].call = call
         /\ act2[n].signal = activity[n].signal
         /\ act2[n].under = activity[n].under
  BY CallBecomes DEF Becomes
<1>. QED
  BY <1>1 DEF Relabelled, Top

LEMMA SignalsNamed == "DEBUG" \in Signals /\ "ERR" \in Signals /\ "EXIT" \in Signals
OBVIOUS

(* Every step keeps the types, and the depths that sum up the frames. *)
LEMMA TypesKept ==
  ASSUME TypeOK, DepthsCountFrames, [Next]_vars
  PROVE  TypeOK' /\ DepthsCountFrames'
<1>0. FrameTypes /\ OtherTypes
  BY TypeParts
<1>1. ASSUME CommandBegins PROVE TypeOK' /\ DepthsCountFrames'
  <2>1. scopes' \in Seq(ScopeKinds)
    BY <1>0, <1>1, ScopePushed DEF CommandBegins, OtherTypes, ScopeKinds
  <2>2. activity' \in Seq(Activity)
    BY <1>0, <1>1, CallDone DEF CommandBegins, Calls
  <2>. QED
    BY <1>0, <1>1, <2>1, <2>2
    DEF CommandBegins, TypeOK, ScopeKinds, FrameTypes, OtherTypes, counters, DepthsCountFrames, FramesWith
<1>2. ASSUME activity # <<>>, activity' = Popped(activity),
             scopes' \in Seq(ScopeKinds),
             UNCHANGED <<frames, counters, suppressed>>,
             program' = program \/ program' = [program EXCEPT !.refused = TRUE]
      PROVE  TypeOK' /\ DepthsCountFrames'
  <2>1. activity' \in Seq(Activity)
    BY <1>0, <1>2, PoppedStack DEF OtherTypes
  <2>. QED
    BY <1>0, <1>2, <2>1
    DEF TypeOK, ScopeKinds, FrameTypes, OtherTypes, counters, DepthsCountFrames, FramesWith
<1>3. ASSUME CommandTraced PROVE TypeOK' /\ DepthsCountFrames'
  <2>1. activity # <<>>
    BY <1>3 DEF CommandTraced, Innermost
  <2>2. Becomes("dispatching") \in Seq(Activity)
    BY <1>0, <2>1, CallRenamed DEF OtherTypes, Calls
  <2>3. CASE activity' = Becomes("dispatching") /\ UNCHANGED <<frames, counters>>
    BY <1>0, <1>3, <2>2, <2>3
    DEF CommandTraced, TypeOK, ScopeKinds, FrameTypes, OtherTypes, counters, DepthsCountFrames, FramesWith
  <2>4. CASE /\ push_frame("trap", "DEBUG")
             /\ activity' = Append(Becomes("dispatching"), Doing("trap", "DEBUG"))
    <3>1. Doing("trap", "DEBUG") \in Activity
      BY <1>0, SignalsNamed, CallDone DEF Calls
    <3>2. activity' \in Seq(Activity)
      BY <2>2, <2>4, <3>1, AppendProperties
    <3>3. FrameTypes' /\ DepthsCountFrames'
      BY <1>0, <2>4, SignalsNamed, FramePushed DEF FrameKinds
    <3>. QED
      BY <1>0, <1>3, <3>2, <3>3 DEF CommandTraced, TypeOK, ScopeKinds, FrameTypes, OtherTypes
  <2>. QED
    BY <1>3, <2>3, <2>4 DEF CommandTraced
<1>4. ASSUME EvalBegins PROVE TypeOK' /\ DepthsCountFrames'
  <2>1. activity' \in Seq(Activity)
    BY <1>0, <1>4, CallRenamed DEF EvalBegins, Innermost, OtherTypes, Calls
  <2>. QED
    BY <1>0, <1>4, <2>1
    DEF EvalBegins, TypeOK, ScopeKinds, FrameTypes, OtherTypes, counters, DepthsCountFrames, FramesWith
<1>5. ASSUME SourceBegins PROVE TypeOK' /\ DepthsCountFrames'
  <2>1. activity' \in Seq(Activity)
    BY <1>0, <1>5, CallRenamed DEF SourceBegins, Innermost, OtherTypes, Calls
  <2>2. FrameTypes' /\ DepthsCountFrames'
    BY <1>0, <1>5, FramePushed DEF SourceBegins, FrameKinds
  <2>. QED
    BY <1>0, <1>5, <2>1, <2>2 DEF SourceBegins, TypeOK, ScopeKinds, FrameTypes, OtherTypes
<1>6. ASSUME enter_function
      PROVE  /\ FrameTypes' /\ DepthsCountFrames'
             /\ scopes' \in Seq(ScopeKinds)
  <2>1. func_call_depth < MaxFunctionCallDepth
    BY <1>0, <1>6 DEF enter_function, DepthExceeded, FrameTypes
  <2>2. FrameTypes' /\ DepthsCountFrames'
    BY <1>0, <1>6, <2>1, FramePushed DEF enter_function, FrameKinds
  <2>3. scopes' \in Seq(ScopeKinds)
    BY <1>0, <1>6, ScopePushed DEF enter_function, OtherTypes, ScopeKinds
  <2>. QED
    BY <2>2, <2>3
<1>7. ASSUME FunctionBegins PROVE TypeOK' /\ DepthsCountFrames'
  <2>1. activity' \in Seq(Activity)
    BY <1>0, <1>7, CallRenamed DEF FunctionBegins, Innermost, OtherTypes, Calls
  <2>2. FrameTypes' /\ DepthsCountFrames' /\ scopes' \in Seq(ScopeKinds)
    BY <1>7, <1>6 DEF FunctionBegins
  <2>. QED
    BY <1>0, <1>7, <2>1, <2>2 DEF FunctionBegins, TypeOK, ScopeKinds, FrameTypes, OtherTypes
<1>8. ASSUME HookBegins PROVE TypeOK' /\ DepthsCountFrames'
  <2>1. activity' = Append(activity, Doing("hook", NoSignal))
    BY <1>8 DEF HookBegins
  <2>2. activity' \in Seq(Activity)
    BY <1>0, <2>1, CallDone DEF Calls
  <2>3. FrameTypes' /\ DepthsCountFrames' /\ scopes' \in Seq(ScopeKinds)
    BY <1>8, <1>6 DEF HookBegins
  <2>. QED
    BY <1>0, <1>8, <2>2, <2>3 DEF HookBegins, TypeOK, ScopeKinds, FrameTypes, OtherTypes
<1>9. ASSUME SourceEnds PROVE TypeOK' /\ DepthsCountFrames'
  <2>1. activity' \in Seq(Activity)
    BY <1>0, <1>9, PoppedStack DEF SourceEnds, Innermost, OtherTypes
  <2>2. FrameTypes' /\ DepthsCountFrames'
    BY <1>0, <1>9, FramePopped DEF SourceEnds
  <2>3. scopes' \in Seq(ScopeKinds)
    BY <1>0, <1>9, ScopePopped DEF SourceEnds, PostExecute, OtherTypes
  <2>. QED
    BY <1>0, <1>9, <2>1, <2>2, <2>3 DEF SourceEnds, TypeOK, ScopeKinds, FrameTypes, OtherTypes
<1>10. ASSUME NEW then, leave_function(then)
       PROVE  /\ FrameTypes' /\ DepthsCountFrames'
              /\ scopes' \in Seq(ScopeKinds)
  <2>1. pop_scope("Local", scopes) \in Seq(ScopeKinds)
    BY <1>0, ScopePopped DEF OtherTypes
  <2>2. scopes' \in Seq(ScopeKinds)
    BY <1>10, <2>1, ScopePopped DEF leave_function
  <2>3. CASE UNCHANGED <<frames, counters>>
    BY <1>0, <2>2, <2>3 DEF FrameTypes, counters, DepthsCountFrames, FramesWith
  <2>4. CASE pop_frame
    BY <1>0, <2>2, <2>4, FramePopped
  <2>. QED
    BY <1>10, <2>2, <2>3, <2>4 DEF leave_function
<1>11. ASSUME FunctionEnds PROVE TypeOK' /\ DepthsCountFrames'
  <2>1. activity' \in Seq(Activity)
    BY <1>0, <1>11, PoppedStack DEF FunctionEnds, Innermost, OtherTypes
  <2>2. FrameTypes' /\ DepthsCountFrames' /\ scopes' \in Seq(ScopeKinds)
    BY <1>11, <1>10 DEF FunctionEnds
  <2>. QED
    BY <1>0, <1>11, <2>1, <2>2 DEF FunctionEnds, TypeOK, ScopeKinds, FrameTypes, OtherTypes
<1>12. ASSUME HookEnds PROVE TypeOK' /\ DepthsCountFrames'
  <2>1. activity' \in Seq(Activity)
    BY <1>0, <1>12, PoppedStack DEF HookEnds, Innermost, OtherTypes
  <2>2. FrameTypes' /\ DepthsCountFrames' /\ scopes' \in Seq(ScopeKinds)
    BY <1>12, <1>10 DEF HookEnds
  <2>. QED
    BY <1>0, <1>12, <2>1, <2>2
    DEF HookEnds, TypeOK, ScopeKinds, FrameTypes, OtherTypes, Decrement
<1>13. ASSUME NEW signal \in Signals, TrapBegins(signal) PROVE TypeOK' /\ DepthsCountFrames'
  <2>1. activity' \in Seq(Activity)
    BY <1>0, <1>13, CallDone DEF TrapBegins, Calls
  <2>2. FrameTypes' /\ DepthsCountFrames'
    BY <1>0, <1>13, FramePushed DEF TrapBegins, FrameKinds
  <2>. QED
    BY <1>0, <1>13, <2>1, <2>2 DEF TrapBegins, TypeOK, ScopeKinds, FrameTypes, OtherTypes
<1>14. ASSUME TrapEnds PROVE TypeOK' /\ DepthsCountFrames'
  <2>1. activity' \in Seq(Activity)
    BY <1>0, <1>14, PoppedStack DEF TrapEnds, Innermost, OtherTypes
  <2>2. FrameTypes' /\ DepthsCountFrames'
    BY <1>0, <1>14, FramePopped DEF TrapEnds
  <2>. QED
    BY <1>0, <1>14, <2>1, <2>2 DEF TrapEnds, TypeOK, ScopeKinds, FrameTypes, OtherTypes
<1>15. ASSUME Fork PROVE TypeOK' /\ DepthsCountFrames'
  <2>1. Here \in Heights
    BY <1>0, CallDone DEF Calls
  <2>2. program' \in [kind: ProgramKinds, state: {"running", "exiting", "ended"},
                      forked: BOOLEAN, refused: BOOLEAN, under: Heights]
    BY <1>0, <1>15, <2>1 DEF Fork, OtherTypes
  <2>3. DepthsCountFrames'
    BY <1>15 DEF Fork, DepthsCountFrames, FramesWith
  <2>4. activity' \in Seq(Activity) /\ active_trap_signals' \subseteq Signals
    BY <1>15 DEF Fork
  <2>. QED
    BY <1>0, <1>15, <2>2, <2>3, <2>4 DEF Fork, TypeOK, ScopeKinds, FrameTypes, OtherTypes
<1>16. ASSUME ProgramEnds PROVE TypeOK' /\ DepthsCountFrames'
  <2>3. FrameTypes' /\ DepthsCountFrames'
    <3>1. CASE pop_frame
      BY <1>0, <3>1, FramePopped
    <3>2. CASE UNCHANGED <<frames, counters>>
      BY <1>0, <3>2 DEF FrameTypes, counters, DepthsCountFrames, FramesWith
    <3>. QED
      BY <1>16, <3>1, <3>2 DEF ProgramEnds
  <2>4. Len(frames') \in Nat
    BY <2>3, LenProperties DEF FrameTypes
  <2>5. program' \in [kind: ProgramKinds, state: {"running", "exiting", "ended"},
                      forked: BOOLEAN, refused: BOOLEAN, under: Heights]
    BY <1>0, <1>16, <2>4 DEF ProgramEnds, OtherTypes, Heights
  <2>. QED
    BY <1>0, <1>16, <2>3, <2>5 DEF ProgramEnds, TypeOK, ScopeKinds, FrameTypes, OtherTypes
<1>17. ASSUME UNCHANGED vars PROVE TypeOK' /\ DepthsCountFrames'
  BY <1>0, <1>17 DEF vars, TypeOK, counters, DepthsCountFrames, FramesWith
<1>18. ASSUME AssignmentFails \/ CommandFinishes \/ EvalEnds \/ ExternalRefused
       PROVE  TypeOK' /\ DepthsCountFrames'
  <2>1. pop_scope("Command", scopes) \in Seq(ScopeKinds) /\ scopes \in Seq(ScopeKinds)
    BY <1>0, ScopePopped DEF OtherTypes
  <2>2. /\ activity # <<>> /\ activity' = Popped(activity)
        /\ scopes' = pop_scope("Command", scopes) \/ scopes' = scopes
        /\ UNCHANGED <<frames, counters, suppressed>>
        /\ program' = program \/ program' = [program EXCEPT !.refused = TRUE]
    BY <1>18 DEF AssignmentFails, CommandFinishes, EvalEnds, ExternalRefused, Innermost, PostExecute
  <2>. QED
    BY <1>2, <2>1, <2>2
<1>. QED
  BY <1>1, <1>3, <1>4, <1>5, <1>7, <1>8, <1>9, <1>11, <1>12, <1>13, <1>14, <1>15, <1>16, <1>17, <1>18
  DEF Next, CallBegins, CallEnds

-----------------------------------------------------------------------------
(* What the innermost call finds on top. *)

LEMMA TopLayer ==
  ASSUME NEW act \in Seq(Activity), act # <<>>,
         NEW ss \in Seq(ScopeKinds), NEW fs \in Seq(Frames), NEW base \in Heights,
         ScopeLayers(ss, act, base.scopes), FrameLayers(fs, act, base.frames)
  PROVE  /\ Top(act) \in Activity
         /\ Top(act).under.scopes \in Nat /\ Top(act).under.frames \in Nat
         /\ Piece(ss, Top(act).under.scopes, Len(ss), ScopesOf(Top(act)))
         /\ Piece(fs, Top(act).under.frames, Len(fs), FramesOf(Top(act)))
         /\ base.scopes <= Top(act).under.scopes
<1>. DEFINE n == Len(act)
<1>1. /\ n \in Nat /\ n >= 1 /\ n \in 1 .. n /\ 1 \in 1 .. n
      /\ Top(act) = act[n] /\ act[n] \in Activity
  BY PoppedStack, ElementOfSeq DEF Top
<1>2. /\ ScopeHeights(act)[n] = Top(act).under.scopes
      /\ FrameHeights(act)[n] = Top(act).under.frames
      /\ ScopePieces(act)[n] = ScopesOf(Top(act))
      /\ FramePieces(act)[n] = FramesOf(Top(act))
  BY <1>1, HeightTypes
<1>3. /\ Layers(ss, base.scopes, n, ScopeHeights(act), ScopePieces(act))
      /\ Layers(fs, base.frames, n, FrameHeights(act), FramePieces(act))
  BY DEF ScopeLayers, FrameLayers
<1>4. Top(act).under \in Heights
  BY <1>1 DEF Activity
<1>. HIDE DEF n
<1>5. /\ Piece(ss, ScopeHeights(act)[n], Len(ss), ScopePieces(act)[n])
      /\ base.scopes = ScopeHeights(act)[1]
      /\ ScopeHeights(act)[1] <= ScopeHeights(act)[n]
  BY <1>1, <1>3 DEF Layers
<1>6. Piece(fs, FrameHeights(act)[n], Len(fs), FramePieces(act)[n])
  BY <1>1, <1>3 DEF Layers
<1>. QED
  BY <1>1, <1>2, <1>4, <1>5, <1>6 DEF Heights

LEMMA OneOnTop ==
  ASSUME NEW S, NEW s \in Seq(S), NEW u \in Nat, NEW x, Piece(s, u, Len(s), <<x>>)
  PROVE  /\ s # <<>> /\ Len(s) = u + 1 /\ Top(s) = x
         /\ Popped(s) \in Seq(S) /\ Len(Popped(s)) = u /\ Cut(s, u, Popped(s))
<1>1. Len(s) = u + 1 /\ s[u + 1] = x
  <2>1. Len(<<x>>) = 1 /\ <<x>>[1] = x /\ 1 \in 1 .. 1
    OBVIOUS
  <2>. QED
    BY <2>1 DEF Piece
<1>2. s # <<>>
  BY <1>1, EmptySeq
<1>. QED
  BY <1>1, <1>2, PoppedStack DEF Cut, Top

LEMMA TwoOnTop ==
  ASSUME NEW S, NEW s \in Seq(S), NEW u \in Nat, NEW x, NEW y, Piece(s, u, Len(s), <<x, y>>)
  PROVE  /\ s # <<>> /\ Len(s) = u + 2 /\ Top(s) = y
         /\ Popped(s) \in Seq(S)
         /\ Piece(Popped(s), u, Len(Popped(s)), <<x>>)
         /\ \A k \in 1 .. u : Popped(s)[k] = s[k]
<1>1. Len(s) = u + 2 /\ s[u + 1] = x /\ s[u + 2] = y
  <2>1. /\ Len(<<x, y>>) = 2 /\ <<x, y>>[1] = x /\ <<x, y>>[2] = y
        /\ 1 \in 1 .. 2 /\ 2 \in 1 .. 2
    OBVIOUS
  <2>. QED
    BY <2>1 DEF Piece
<1>2. s # <<>>
  BY <1>1, EmptySeq
<1>3. /\ Popped(s) \in Seq(S) /\ Len(Popped(s)) = u + 1
      /\ \A k \in 1 .. u + 1 : Popped(s)[k] = s[k]
  BY <1>1, <1>2, PoppedStack
<1>4. Len(<<x>>) = 1 /\ <<x>>[1] = x
  OBVIOUS
<1>5. Piece(Popped(s), u, Len(Popped(s)), <<x>>)
  BY <1>1, <1>3, <1>4 DEF Piece
<1>. QED
  BY <1>1, <1>2, <1>3, <1>5 DEF Top

(* post_execute finds the scope of its command; leave_function its own over it. *)
LEMMA CommandScopeEnds ==
  ASSUME NEW ss \in Seq(ScopeKinds), NEW u \in Nat, u >= 1, NEW kind,
         Piece(ss, u, Len(ss), <<kind>>)
  PROVE  /\ pop_scope(kind, ss) = Popped(ss) /\ pop_scope(kind, ss) # ss
         /\ Cut(ss, u, pop_scope(kind, ss))
<1>1. /\ Len(ss) = u + 1 /\ Top(ss) = kind
      /\ Cut(ss, u, Popped(ss)) /\ Len(Popped(ss)) = u
  BY OneOnTop
<1>2. pop_scope(kind, ss) = Popped(ss)
  BY <1>1 DEF pop_scope
<1>. QED
  BY <1>1, <1>2

LEMMA FunctionScopesEnd ==
  ASSUME NEW ss \in Seq(ScopeKinds), NEW u \in Nat, u >= 1,
         Piece(ss, u, Len(ss), <<"Command", "Local">>)
  PROVE  /\ pop_scope("Local", ss) # ss
         /\ Cut(ss, u, pop_scope("Command", pop_scope("Local", ss)))
<1>1. /\ Len(ss) = u + 2 /\ Top(ss) = "Local"
      /\ Popped(ss) \in Seq(ScopeKinds)
      /\ Piece(Popped(ss), u, Len(Popped(ss)), <<"Command">>)
      /\ \A k \in 1 .. u : Popped(ss)[k] = ss[k]
  BY TwoOnTop
<1>2. pop_scope("Local", ss) = Popped(ss)
  BY <1>1 DEF pop_scope
<1>3. Cut(Popped(ss), u, pop_scope("Command", Popped(ss)))
  BY <1>1, CommandScopeEnds
<1>4. Cut(ss, u, pop_scope("Command", Popped(ss)))
  BY <1>1, <1>3 DEF Cut
<1>5. Popped(ss) # ss
  BY <1>1, OneOnTop
<1>. QED
  BY <1>2, <1>4, <1>5

(* pop_frame takes the frame that lies on top of a call. *)
LEMMA TopFrameEnds ==
  ASSUME FrameTypes, NEW u \in Nat, NEW kind, NEW signal,
         Piece(frames, u, Len(frames), <<Frame(kind, signal)>>), pop_frame
  PROVE  /\ Cut(frames, u, frames')
         /\ active_trap_signals' = IF kind = "trap" THEN active_trap_signals \ {signal}
                                   ELSE active_trap_signals
<1>1. frames # <<>> /\ Top(frames) = Frame(kind, signal) /\ Cut(frames, u, Popped(frames))
  BY OneOnTop DEF FrameTypes
<1>. QED
  BY <1>1 DEF pop_frame, Frame

LEMMA NothingOnTop ==
  ASSUME NEW S, NEW s \in Seq(S), NEW u \in Nat, Piece(s, u, Len(s), <<>>)
  PROVE  Cut(s, u, s)
BY LenProperties DEF Piece, Cut

-----------------------------------------------------------------------------
(* The calls in progress go on accounting for the stacks and the signals. *)

LEMMA Begun ==
  ASSUME FrameTypes, OtherTypes, FrameTypes', OtherTypes', Accounted, program'.under = program.under,
         NEW call \in Calls, NEW signal \in Signals \union {NoSignal},
         activity' = Append(activity, Doing(call, signal)),
         Extends(scopes, ScopesOf(Doing(call, signal)), scopes'),
         Extends(frames, FramesOf(Doing(call, signal)), frames'),
         HandledBy(activity', active_trap_signals')
  PROVE  Accounted'
<1>. DEFINE a == Doing(call, signal)
<1>1. a \in Activity /\ a.under = [scopes |-> Len(scopes), frames |-> Len(frames)]
  BY CallDone
<1>2. program.under \in Heights
  BY DEF OtherTypes
<1>. HIDE DEF a
<1>3. /\ ScopeLayers(scopes', Append(activity, a), program.under.scopes)
      /\ FrameLayers(frames', Append(activity, a), program.under.frames)
  BY <1>1, <1>2, LayersBegin DEF FrameTypes, OtherTypes, Accounted, a
<1>. QED
  BY <1>3 DEF Accounted, ScopeLayers, FrameLayers, a

LEMMA TopCallEnded ==
  ASSUME FrameTypes, OtherTypes, FrameTypes', OtherTypes', Accounted, program'.under = program.under,
         activity # <<>>, activity' = Popped(activity),
         Cut(scopes, Top(activity).under.scopes, scopes'),
         Cut(frames, Top(activity).under.frames, frames'),
         HandledBy(activity', active_trap_signals')
  PROVE  Accounted'
<1>1. program.under \in Heights
  BY DEF OtherTypes
<1>2. /\ ScopeLayers(scopes', Popped(activity), program.under.scopes)
      /\ FrameLayers(frames', Popped(activity), program.under.frames)
  BY <1>1, LayersEnd DEF FrameTypes, OtherTypes, Accounted
<1>. QED
  BY <1>2 DEF Accounted, ScopeLayers, FrameLayers

LEMMA Renamed ==
  ASSUME FrameTypes, OtherTypes, Accounted,
         activity # <<>>, NEW call \in Calls, call # "trap", Top(activity).call # "trap",
         NEW ss2 \in Seq(ScopeKinds), NEW t \in Seq(ScopeKinds),
         NEW fs2 \in Seq(Frames), NEW u \in Seq(Frames),
         Extends(ScopesOf(Top(activity)), t, ScopesOf(Top(Becomes(call)))), Extends(scopes, t, ss2),
         Extends(FramesOf(Top(activity)), u, FramesOf(Top(Becomes(call)))), Extends(frames, u, fs2)
  PROVE  /\ ScopeLayers(ss2, Becomes(call), program.under.scopes)
         /\ FrameLayers(fs2, Becomes(call), program.under.frames)
         /\ HandledBy(Becomes(call), active_trap_signals)
<1>1. program.under \in Heights /\ activity \in Seq(Activity)
  BY DEF OtherTypes
<1>2. Becomes(call) \in Seq(Activity) /\ Relabelled(activity, Becomes(call))
  BY <1>1, CallRenamed
<1>3. HandledBy(Becomes(call), active_trap_signals)
  BY <1>1, HandledBecomes DEF Accounted, Becomes
<1>4. /\ ScopeLayers(ss2, Becomes(call), program.under.scopes)
      /\ FrameLayers(fs2, Becomes(call), program.under.frames)
  BY <1>1, <1>2, LayersGrow DEF FrameTypes, OtherTypes, Accounted
<1>. QED
  BY <1>3, <1>4

(* Pieces of the calls, by kind. *)
LEMMA PieceOf ==
  ASSUME NEW a
  PROVE  /\ a.call \in {"assigning", "dispatching", "eval", "source"} => ScopesOf(a) = <<"Command">>
         /\ a.call = "function" => ScopesOf(a) = <<"Command", "Local">>
         /\ a.call = "hook" => ScopesOf(a) = <<"Local">>
         /\ a.call = "trap" => ScopesOf(a) = <<>>
         /\ a.call = "source" => FramesOf(a) = <<Frame("source", NoSignal)>>
         /\ a.call \in {"function", "hook"} => FramesOf(a) = <<Frame("function", NoSignal)>>
         /\ a.call = "trap" => FramesOf(a) = <<Frame("trap", a.signal)>>
         /\ a.call \in {"assigning", "dispatching", "eval"} => FramesOf(a) = <<>>
BY DEF ScopesOf, FramesOf

LEMMA ExtendsEmpty ==
  ASSUME NEW S, NEW t \in Seq(S)
  PROVE  Extends(<<>>, t, t)
BY LenProperties DEF Extends

LEMMA ExtendsOne == \A x, y : Extends(<<x>>, <<y>>, <<x, y>>)
<1>1. ASSUME NEW x, NEW y PROVE Extends(<<x>>, <<y>>, <<x, y>>)
  <2>. DEFINE r == <<x>>  t == <<y>>  s2 == <<x, y>>
  <2>1. /\ Len(r) = 1 /\ Len(t) = 1 /\ Len(s2) = 2
        /\ r[1] = x /\ t[1] = y /\ s2[1] = x /\ s2[2] = y
    OBVIOUS
  <2>. HIDE DEF r, t, s2
  <2>2. Extends(r, t, s2)
    BY <2>1 DEF Extends
  <2>. QED
    BY <2>2 DEF r, t, s2
<1>. QED
  BY <1>1

(* Nothing lies on the base between calls. *)
LEMMA LayersNone ==
  ASSUME NEW ss, NEW fs
  PROVE  /\ ScopeLayers(ss, <<>>, Len(ss)) /\ FrameLayers(fs, <<>>, Len(fs))
         /\ \A base : ScopeLayers(ss, <<>>, base) => base = Len(ss)
         /\ \A base : FrameLayers(fs, <<>>, base) => base = Len(fs)
BY DEF ScopeLayers, FrameLayers, Layers

LEMMA AccountsKept ==
  ASSUME TypeOK, DepthsCountFrames, Accounted, [Next]_vars, ~program'.refused
  PROVE  Accounted'
<1>0. FrameTypes /\ OtherTypes /\ FrameTypes' /\ OtherTypes'
  <2>1. TypeOK'
    BY TypesKept
  <2>. QED
    BY <2>1, TypeParts DEF TypeOK, FrameTypes, OtherTypes, ScopeKinds
<1>. DEFINE a == Top(activity)
            u == Top(activity).under.scopes
            v == Top(activity).under.frames
<1>. HIDE DEF a, u, v
<1>1. ASSUME activity # <<>>
      PROVE  /\ a \in Activity
             /\ u \in Nat /\ v \in Nat /\ u >= 1
             /\ Piece(scopes, u, Len(scopes), ScopesOf(a))
             /\ Piece(frames, v, Len(frames), FramesOf(a))
  <2>1. program.under \in Heights /\ program.under.scopes \in Nat /\ program.under.scopes >= 1
    BY <1>0 DEF OtherTypes, Heights, Accounted
  <2>2. /\ Top(activity) \in Activity
        /\ Top(activity).under.scopes \in Nat /\ Top(activity).under.frames \in Nat
        /\ Piece(scopes, Top(activity).under.scopes, Len(scopes), ScopesOf(Top(activity)))
        /\ Piece(frames, Top(activity).under.frames, Len(frames), FramesOf(Top(activity)))
        /\ program.under.scopes <= Top(activity).under.scopes
    BY <1>0, <1>1, <2>1, TopLayer DEF FrameTypes, OtherTypes, Accounted
  <2>. QED
    BY <2>1, <2>2 DEF a, u, v
<1>2. /\ \A kind \in ScopeKinds : <<kind>> \in Seq(ScopeKinds)
      /\ <<>> \in Seq(ScopeKinds) /\ <<>> \in Seq(Frames)
      /\ scopes \in Seq(ScopeKinds) /\ frames \in Seq(Frames) /\ activity \in Seq(Activity)
      /\ Extends(scopes, <<>>, scopes) /\ Extends(frames, <<>>, frames)
  BY <1>0, NothingPushed DEF FrameTypes, OtherTypes
<1>3. CASE CommandBegins
  <2>. DEFINE d == Doing("assigning", NoSignal)
  <2>1. /\ d \in Activity /\ d.call = "assigning"
        /\ ScopesOf(d) = <<"Command">> /\ FramesOf(d) = <<>>
    BY <1>0, CallDone, PieceOf DEF Calls
  <2>2. Extends(scopes, ScopesOf(d), scopes') /\ Extends(frames, FramesOf(d), frames')
    BY <1>2, <1>3, <2>1, ScopePushed DEF CommandBegins, ScopeKinds
  <2>3. HandledBy(activity', active_trap_signals')
    BY <1>2, <1>3, <2>1, HandledBegin DEF CommandBegins, counters, Accounted
  <2>. QED
    BY <1>0, <1>3, <2>2, <2>3, Begun DEF CommandBegins, Calls
<1>4. CASE AssignmentFails \/ CommandFinishes \/ EvalEnds
  <2>1. /\ activity # <<>> /\ a.call \in {"assigning", "dispatching", "eval"}
        /\ scopes' = pop_scope("Command", scopes) /\ activity' = Popped(activity)
        /\ frames' = frames /\ active_trap_signals' = active_trap_signals /\ program' = program
    BY <1>4 DEF AssignmentFails, CommandFinishes, EvalEnds, Innermost, PostExecute, counters, a
  <2>2. ScopesOf(a) = <<"Command">> /\ FramesOf(a) = <<>>
    BY <2>1, PieceOf
  <2>3. Cut(scopes, u, scopes')
    BY <1>1, <1>2, <2>1, <2>2, CommandScopeEnds
  <2>4. Cut(frames, v, frames')
    BY <1>1, <1>2, <2>1, <2>2, NothingOnTop
  <2>5. HandledBy(activity', active_trap_signals')
    BY <1>2, <2>1, HandledEnd DEF Accounted, a
  <2>. QED
    BY <1>0, <2>1, <2>3, <2>4, <2>5, TopCallEnded DEF u, v
<1>5. CASE ExternalRefused
  BY <1>0, <1>5 DEF ExternalRefused, OtherTypes
<1>6. CASE CommandTraced
  <2>1. /\ activity # <<>> /\ a.call = "assigning"
        /\ scopes' = scopes /\ program' = program
    BY <1>6 DEF CommandTraced, Innermost, a
  <2>. DEFINE b == Top(Becomes("dispatching"))
  <2>2. b.call = "dispatching" /\ Becomes("dispatching") \in Seq(Activity)
    BY <1>2, <2>1, CallRenamed DEF Calls
  <2>3. /\ ScopesOf(a) = <<"Command">> /\ ScopesOf(b) = <<"Command">>
        /\ FramesOf(a) = <<>> /\ FramesOf(b) = <<>>
    BY <2>1, <2>2, PieceOf
  <2>4. /\ Extends(ScopesOf(a), <<>>, ScopesOf(b))
        /\ Extends(FramesOf(a), <<>>, FramesOf(b))
    BY <1>2, <2>3, NothingPushed DEF ScopeKinds
  <2>5. /\ ScopeLayers(scopes, Becomes("dispatching"), program.under.scopes)
        /\ FrameLayers(frames, Becomes("dispatching"), program.under.frames)
        /\ HandledBy(Becomes("dispatching"), active_trap_signals)
    BY <1>0, <1>2, <2>1, <2>4, Renamed DEF Calls, a
  <2>6. CASE activity' = Becomes("dispatching") /\ UNCHANGED <<frames, counters>>
    BY <2>1, <2>5, <2>6 DEF Accounted, counters
  <2>7. CASE /\ TrapDelivered("DEBUG") /\ push_frame("trap", "DEBUG")
             /\ activity' = Append(Becomes("dispatching"), Doing("trap", "DEBUG"))
    <3>. DEFINE d == Doing("trap", "DEBUG")
    <3>1. /\ d \in Activity /\ d.call = "trap" /\ d.signal = "DEBUG"
          /\ d.under = [scopes |-> Len(scopes), frames |-> Len(frames)]
      BY <1>0, CallDone, SignalsNamed DEF Calls
    <3>2. ScopesOf(d) = <<>> /\ FramesOf(d) = <<Frame("trap", "DEBUG")>>
      BY <3>1, PieceOf
    <3>3. Extends(frames, FramesOf(d), frames')
      BY <1>0, <2>7, <3>2, SignalsNamed, FramePushed DEF FrameKinds
    <3>4. Extends(scopes, ScopesOf(d), scopes')
      BY <1>2, <2>1, <3>2
    <3>5. HandledBy(activity', active_trap_signals')
      <4>1. "DEBUG" \notin active_trap_signals
            /\ active_trap_signals' = active_trap_signals \union {"DEBUG"}
        BY <2>7 DEF TrapDelivered, push_frame
      <4>. QED
        BY <4>1, <2>2, <2>5, <2>7, <3>1, HandledBegin
    <3>. HIDE DEF d
    <3>6. program.under \in Heights
      BY <1>0 DEF OtherTypes
    <3>7. /\ ScopeLayers(scopes', Append(Becomes("dispatching"), d), program.under.scopes)
          /\ FrameLayers(frames', Append(Becomes("dispatching"), d), program.under.frames)
      BY <1>0, <1>2, <2>2, <2>5, <3>1, <3>3, <3>4, <3>6, LayersBegin DEF FrameTypes, OtherTypes
    <3>. QED
      BY <2>1, <2>7, <3>5, <3>7 DEF Accounted, d
  <2>. QED
    BY <1>6, <2>6, <2>7 DEF CommandTraced
<1>7. CASE EvalBegins
  <2>. DEFINE b == Top(Becomes("eval"))
  <2>1. /\ activity # <<>> /\ a.call = "dispatching" /\ activity' = Becomes("eval")
        /\ scopes' = scopes /\ frames' = frames /\ program' = program
        /\ active_trap_signals' = active_trap_signals
    BY <1>7 DEF EvalBegins, Innermost, counters, a
  <2>2. b.call = "eval"
    BY <1>2, <2>1, CallRenamed DEF Calls
  <2>3. /\ ScopesOf(a) = <<"Command">> /\ ScopesOf(b) = <<"Command">>
        /\ FramesOf(a) = <<>> /\ FramesOf(b) = <<>>
    BY <2>1, <2>2, PieceOf
  <2>4. /\ Extends(ScopesOf(a), <<>>, ScopesOf(b))
        /\ Extends(FramesOf(a), <<>>, FramesOf(b))
    BY <1>2, <2>3, NothingPushed DEF ScopeKinds
  <2>5. /\ ScopeLayers(scopes, Becomes("eval"), program.under.scopes)
        /\ FrameLayers(frames, Becomes("eval"), program.under.frames)
        /\ HandledBy(Becomes("eval"), active_trap_signals)
    BY <1>0, <1>2, <2>1, <2>4, Renamed DEF Calls, a
  <2>. QED
    BY <2>1, <2>5 DEF Accounted
<1>8. CASE SourceBegins
  <2>. DEFINE b == Top(Becomes("source"))
              f == Frame("source", NoSignal)
  <2>1. /\ activity # <<>> /\ a.call = "dispatching" /\ activity' = Becomes("source")
        /\ push_frame("source", NoSignal)
        /\ scopes' = scopes /\ program' = program
        /\ active_trap_signals' = active_trap_signals
    BY <1>8 DEF SourceBegins, Innermost, push_frame, a
  <2>2. b.call = "source"
    BY <1>2, <2>1, CallRenamed DEF Calls
  <2>3. /\ ScopesOf(a) = <<"Command">> /\ ScopesOf(b) = <<"Command">>
        /\ FramesOf(a) = <<>> /\ FramesOf(b) = <<f>>
    BY <2>1, <2>2, PieceOf
  <2>4. /\ f \in Frames /\ Extends(frames, <<f>>, frames')
    BY <1>0, <2>1, FramePushed DEF FrameKinds
  <2>. HIDE DEF f
  <2>5. /\ <<f>> \in Seq(Frames)
        /\ Extends(ScopesOf(a), <<>>, ScopesOf(b))
        /\ Extends(FramesOf(a), <<f>>, FramesOf(b))
    <3>1. <<f>> \in Seq(Frames)
      BY <2>4
    <3>2. Extends(ScopesOf(a), <<>>, ScopesOf(b))
      BY <1>2, <2>3, NothingPushed DEF ScopeKinds
    <3>3. Extends(<<>>, <<f>>, <<f>>)
      BY <3>1, ExtendsEmpty
    <3>. QED
      BY <2>3, <3>1, <3>2, <3>3
  <2>6. /\ ScopeLayers(scopes, Becomes("source"), program.under.scopes)
        /\ FrameLayers(frames', Becomes("source"), program.under.frames)
        /\ HandledBy(Becomes("source"), active_trap_signals)
    BY <1>0, <1>2, <2>1, <2>4, <2>5, Renamed DEF Calls, a, FrameTypes
  <2>. QED
    BY <2>1, <2>6 DEF Accounted
<1>9. CASE FunctionBegins
  <2>. DEFINE b == Top(Becomes("function"))
              f == Frame("function", NoSignal)
  <2>1. /\ activity # <<>> /\ a.call = "dispatching" /\ activity' = Becomes("function")
        /\ ~DepthExceeded /\ push_frame("function", NoSignal)
        /\ scopes' = Append(scopes, "Local") /\ program' = program
        /\ active_trap_signals' = active_trap_signals
    BY <1>9 DEF FunctionBegins, enter_function, Innermost, push_frame, a
  <2>2. b.call = "function"
    BY <1>2, <2>1, CallRenamed DEF Calls
  <2>3. /\ ScopesOf(a) = <<"Command">> /\ ScopesOf(b) = <<"Command", "Local">>
        /\ FramesOf(a) = <<>> /\ FramesOf(b) = <<f>>
    BY <2>1, <2>2, PieceOf
  <2>4. /\ f \in Frames /\ Extends(frames, <<f>>, frames')
    <3>1. func_call_depth < MaxFunctionCallDepth
      BY <1>0, <2>1 DEF DepthExceeded, FrameTypes
    <3>. QED
      BY <1>0, <2>1, <3>1, FramePushed DEF FrameKinds
  <2>5. /\ <<"Local">> \in Seq(ScopeKinds) /\ Extends(scopes, <<"Local">>, scopes')
    BY <1>2, <2>1, ScopePushed DEF ScopeKinds
  <2>. HIDE DEF f
  <2>6. /\ <<f>> \in Seq(Frames)
        /\ Extends(ScopesOf(a), <<"Local">>, ScopesOf(b))
        /\ Extends(FramesOf(a), <<f>>, FramesOf(b))
    <3>1. <<f>> \in Seq(Frames)
      BY <2>4
    <3>2. Extends(<<"Command">>, <<"Local">>, <<"Command", "Local">>)
      BY ExtendsOne, Zenon
    <3>3. Extends(<<>>, <<f>>, <<f>>)
      BY <3>1, ExtendsEmpty
    <3>. QED
      BY <2>3, <3>1, <3>2, <3>3
  <2>7. /\ ScopeLayers(scopes', Becomes("function"), program.under.scopes)
        /\ FrameLayers(frames', Becomes("function"), program.under.frames)
        /\ HandledBy(Becomes("function"), active_trap_signals)
    BY <1>0, <2>1, <2>4, <2>5, <2>6, Renamed DEF Calls, a, FrameTypes, OtherTypes
  <2>. QED
    BY <2>1, <2>7 DEF Accounted
<1>10. CASE HookBegins
  <2>. DEFINE d == Doing("hook", NoSignal)
  <2>1. /\ activity' = Append(activity, d)
        /\ ~DepthExceeded /\ push_frame("function", NoSignal)
        /\ scopes' = Append(scopes, "Local") /\ program' = program
        /\ active_trap_signals' = active_trap_signals
    BY <1>10 DEF HookBegins, enter_function, push_frame
  <2>2. /\ d \in Activity /\ d.call = "hook"
        /\ ScopesOf(d) = <<"Local">> /\ FramesOf(d) = <<Frame("function", NoSignal)>>
    BY <1>0, CallDone, PieceOf DEF Calls
  <2>3. Extends(frames, FramesOf(d), frames')
    <3>1. func_call_depth < MaxFunctionCallDepth
      BY <1>0, <2>1 DEF DepthExceeded, FrameTypes
    <3>. QED
      BY <1>0, <2>1, <2>2, <3>1, FramePushed DEF FrameKinds
  <2>4. Extends(scopes, ScopesOf(d), scopes')
    BY <1>2, <2>1, <2>2, ScopePushed DEF ScopeKinds
  <2>5. HandledBy(activity', active_trap_signals')
    BY <1>2, <2>1, <2>2, HandledBegin DEF Accounted
  <2>. QED
    BY <1>0, <2>1, <2>3, <2>4, <2>5, Begun DEF Calls
<1>11. CASE SourceEnds
  <2>1. /\ activity # <<>> /\ a.call = "source" /\ pop_frame
        /\ scopes' = pop_scope("Command", scopes) /\ activity' = Popped(activity)
        /\ program' = program
    BY <1>11 DEF SourceEnds, Innermost, PostExecute, a
  <2>2. ScopesOf(a) = <<"Command">> /\ FramesOf(a) = <<Frame("source", NoSignal)>>
    BY <2>1, PieceOf
  <2>3. Cut(scopes, u, scopes')
    BY <1>1, <1>2, <2>1, <2>2, CommandScopeEnds
  <2>4. Cut(frames, v, frames') /\ active_trap_signals' = active_trap_signals
    BY <1>0, <1>1, <2>1, <2>2, TopFrameEnds
  <2>5. HandledBy(activity', active_trap_signals')
    BY <1>2, <2>1, <2>4, HandledEnd DEF Accounted, a
  <2>. QED
    BY <1>0, <2>1, <2>3, <2>4, <2>5, TopCallEnded DEF u, v
<1>12. CASE FunctionEnds
  <2>1. /\ activity # <<>> /\ a.call = "function"
        /\ leave_function("post_execute") /\ activity' = Popped(activity)
        /\ program' = program
    BY <1>12 DEF FunctionEnds, Innermost, a
  <2>2. /\ ScopesOf(a) = <<"Command", "Local">>
        /\ FramesOf(a) = <<Frame("function", NoSignal)>>
    BY <2>1, PieceOf
  <2>3. /\ pop_scope("Local", scopes) # scopes
        /\ Cut(scopes, u, pop_scope("Command", pop_scope("Local", scopes)))
    BY <1>1, <1>2, <2>1, <2>2, FunctionScopesEnd
  <2>4. pop_frame /\ scopes' = pop_scope("Command", pop_scope("Local", scopes))
    BY <2>1, <2>3 DEF leave_function
  <2>5. Cut(frames, v, frames') /\ active_trap_signals' = active_trap_signals
    BY <1>0, <1>1, <2>1, <2>2, <2>4, TopFrameEnds
  <2>6. HandledBy(activity', active_trap_signals')
    BY <1>2, <2>1, <2>5, HandledEnd DEF Accounted, a
  <2>. QED
    BY <1>0, <2>1, <2>3, <2>4, <2>5, <2>6, TopCallEnded DEF u, v
<1>13. CASE HookEnds
  <2>1. /\ activity # <<>> /\ a.call = "hook"
        /\ leave_function("return") /\ activity' = Popped(activity)
        /\ program' = program
    BY <1>13 DEF HookEnds, Innermost, a
  <2>2. ScopesOf(a) = <<"Local">> /\ FramesOf(a) = <<Frame("function", NoSignal)>>
    BY <2>1, PieceOf
  <2>3. /\ pop_scope("Local", scopes) # scopes
        /\ Cut(scopes, u, pop_scope("Local", scopes))
    BY <1>1, <1>2, <2>1, <2>2, CommandScopeEnds
  <2>4. pop_frame /\ scopes' = pop_scope("Local", scopes)
    BY <2>1, <2>3 DEF leave_function
  <2>5. Cut(frames, v, frames') /\ active_trap_signals' = active_trap_signals
    BY <1>0, <1>1, <2>1, <2>2, <2>4, TopFrameEnds
  <2>6. HandledBy(activity', active_trap_signals')
    BY <1>2, <2>1, <2>5, HandledEnd DEF Accounted, a
  <2>. QED
    BY <1>0, <2>1, <2>3, <2>4, <2>5, <2>6, TopCallEnded DEF u, v
<1>14. ASSUME NEW signal \in Signals, TrapBegins(signal) PROVE Accounted'
  <2>. DEFINE d == Doing("trap", signal)
  <2>1. /\ activity' = Append(activity, d) /\ scopes' = scopes
        /\ push_frame("trap", signal) /\ signal \notin active_trap_signals
        /\ active_trap_signals' = active_trap_signals \union {signal}
    BY <1>14 DEF TrapBegins, TrapDelivered, push_frame
  <2>2. /\ d \in Activity /\ d.call = "trap" /\ d.signal = signal
        /\ ScopesOf(d) = <<>> /\ FramesOf(d) = <<Frame("trap", signal)>>
    BY <1>0, CallDone, PieceOf DEF Calls
  <2>3. program'.under = program.under
    BY <1>0, <1>14 DEF TrapBegins, OtherTypes
  <2>4. Extends(frames, FramesOf(d), frames')
    BY <1>0, <2>1, <2>2, FramePushed DEF FrameKinds
  <2>5. Extends(scopes, ScopesOf(d), scopes')
    BY <1>2, <2>1, <2>2
  <2>6. HandledBy(activity', active_trap_signals')
    BY <1>2, <2>1, <2>2, HandledBegin DEF Accounted
  <2>. QED
    BY <1>0, <2>1, <2>3, <2>4, <2>5, <2>6, Begun DEF Calls
<1>15. CASE TrapEnds
  <2>1. /\ activity # <<>> /\ a.call = "trap" /\ pop_frame
        /\ scopes' = scopes /\ activity' = Popped(activity) /\ program' = program
    BY <1>15 DEF TrapEnds, Innermost, a
  <2>2. ScopesOf(a) = <<>> /\ FramesOf(a) = <<Frame("trap", a.signal)>>
    BY <2>1, PieceOf
  <2>3. Cut(scopes, u, scopes')
    BY <1>1, <1>2, <2>1, <2>2, NothingOnTop
  <2>4. Cut(frames, v, frames') /\ active_trap_signals' = active_trap_signals \ {a.signal}
    BY <1>0, <1>1, <2>1, <2>2, TopFrameEnds
  <2>5. HandledBy(activity', active_trap_signals')
    BY <1>2, <2>1, <2>4, HandledEnd DEF Accounted, a
  <2>. QED
    BY <1>0, <2>1, <2>3, <2>4, <2>5, TopCallEnded DEF u, v
<1>16. CASE Fork
  <2>1. /\ scopes' = scopes /\ frames' = frames /\ active_trap_signals' = {} /\ activity' = <<>>
        /\ program'.under = [scopes |-> Len(scopes), frames |-> Len(frames)]
    BY <1>0, <1>16 DEF Fork, Here, OtherTypes
  <2>2. Len(scopes) >= 1
    <3>1. CASE activity = <<>>
      BY <3>1, LayersNone DEF Accounted
    <3>2. CASE activity # <<>>
      <4>1. Len(ScopesOf(a)) \in Nat /\ Len(scopes) = u + Len(ScopesOf(a)) /\ u \in Nat /\ u >= 1
        BY <1>1, <3>2, PieceTypes DEF Piece
      <4>. QED
        BY <4>1
    <3>. QED
      BY <3>1, <3>2
  <2>. QED
    BY <2>1, <2>2, LayersNone, HandledNone DEF Accounted
<1>17. CASE ProgramEnds
  <2>1. /\ activity = <<>> /\ activity' = <<>> /\ scopes' = scopes
        /\ program'.under.scopes = program.under.scopes
        /\ program'.under.frames = Len(frames')
    BY <1>0, <1>17 DEF ProgramEnds, OtherTypes, Heights
  <2>2. active_trap_signals = {}
    BY <2>1 DEF Accounted, HandledBy, Handling
  <2>3. active_trap_signals' = {}
    BY <1>17, <2>2 DEF ProgramEnds, pop_frame, counters
  <2>4. program.under.scopes = Len(scopes)
    BY <2>1, LayersNone DEF Accounted
  <2>. QED
    BY <2>1, <2>3, <2>4, LayersNone, HandledNone DEF Accounted
<1>18. CASE UNCHANGED vars
  BY <1>18 DEF vars, counters, Accounted
<1>. QED
  BY <1>3, <1>4, <1>5, <1>6, <1>7, <1>8, <1>9, <1>10, <1>11, <1>12, <1>13, <1>14, <1>15, <1>16,
     <1>17, <1>18
  DEF Next, CallBegins, CallEnds

-----------------------------------------------------------------------------
(* What CallsInv says of the stacks, as the specification states it. *)

LEMMA PieceIsSubSeq ==
  ASSUME NEW S, NEW s \in Seq(S), NEW t \in Seq(S), NEW lo \in Nat, NEW hi \in Nat,
         hi <= Len(s), Piece(s, lo, hi, t)
  PROVE  SubSeq(s, lo + 1, hi) = t
<1>. DEFINE m == lo + 1
<1>1. /\ Len(s) \in Nat /\ Len(t) \in Nat /\ hi = lo + Len(t) /\ m \in Int /\ hi \in Int
      /\ \A k \in 1 .. Len(t) : s[lo + k] = t[k]
  BY LenProperties DEF Piece
<1>2. \A k \in m .. hi : s[k] \in S
  <2>1. \A k \in m .. hi : k \in 1 .. Len(s)
    BY <1>1
  <2>. QED
    BY <2>1, ElementOfSeq
<1>3. /\ SubSeq(s, m, hi) \in Seq(S)
      /\ Len(SubSeq(s, m, hi)) = IF m <= hi THEN hi - m + 1 ELSE 0
      /\ \A k \in 1 .. hi - m + 1 : SubSeq(s, m, hi)[k] = s[m + k - 1]
  <2>. HIDE DEF m
  <2>. QED
    BY <1>1, <1>2, SubSeqProperties
<1>4. Len(SubSeq(s, m, hi)) = Len(t)
  BY <1>1, <1>3
<1>5. \A k \in 1 .. Len(t) : SubSeq(s, m, hi)[k] = t[k]
  <2>. SUFFICES ASSUME NEW k \in 1 .. Len(t)
                PROVE  SubSeq(s, m, hi)[k] = t[k]
    OBVIOUS
  <2>1. k \in 1 .. hi - m + 1 /\ m + k - 1 = lo + k
    BY <1>1
  <2>. QED
    BY <2>1, <1>1, <1>3
<1>. QED
  BY <1>3, <1>4, <1>5, SeqEqual

LEMMA AccountedMeans ==
  ASSUME TypeOK, Accounted
  PROVE  StacksBalanced /\ HandlersGuarded
<1>0. FrameTypes /\ OtherTypes
  BY TypeParts
<1>. DEFINE n == Len(activity)
<1>1. /\ scopes \in Seq(ScopeKinds) /\ frames \in Seq(Frames) /\ activity \in Seq(Activity)
      /\ Len(scopes) \in Nat /\ Len(frames) \in Nat /\ n \in Nat
      /\ DOMAIN activity = 1 .. n
      /\ program.under \in Heights
  BY <1>0, LenProperties DEF FrameTypes, OtherTypes
<1>2. /\ ScopeHeights(activity) \in [1 .. n -> Nat]
      /\ FrameHeights(activity) \in [1 .. n -> Nat]
      /\ \A i \in 1 .. n :
           /\ activity[i] \in Activity
           /\ ScopeHeights(activity)[i] = activity[i].under.scopes
           /\ FrameHeights(activity)[i] = activity[i].under.frames
           /\ ScopePieces(activity)[i] = ScopesOf(activity[i])
           /\ FramePieces(activity)[i] = FramesOf(activity[i])
  BY <1>1, HeightTypes
<1>. HIDE DEF n
<1>3. /\ Layers(scopes, program.under.scopes, n, ScopeHeights(activity), ScopePieces(activity))
      /\ Layers(frames, program.under.frames, n, FrameHeights(activity), FramePieces(activity))
  BY DEF Accounted, ScopeLayers, FrameLayers, n
<1>4. ASSUME NEW i \in 1 .. n
      PROVE  /\ SubSeq(scopes, activity[i].under.scopes + 1, Ceiling(i).scopes)
                  = ScopesOf(activity[i])
             /\ SubSeq(frames, activity[i].under.frames + 1, Ceiling(i).frames)
                  = FramesOf(activity[i])
  <2>1. /\ Piece(scopes, ScopeHeights(activity)[i],
                 IF i = n THEN Len(scopes) ELSE ScopeHeights(activity)[i + 1], ScopePieces(activity)[i])
        /\ Piece(frames, FrameHeights(activity)[i],
                 IF i = n THEN Len(frames) ELSE FrameHeights(activity)[i + 1], FramePieces(activity)[i])
    BY <1>3 DEF Layers
  <2>2. /\ ScopesOf(activity[i]) \in Seq(ScopeKinds) /\ FramesOf(activity[i]) \in Seq(Frames)
        /\ activity[i].under.scopes \in Nat /\ activity[i].under.frames \in Nat
    BY <1>2, PieceTypes DEF Activity, Heights
  <2>3. n \in 1 .. n /\ (i # n => i + 1 \in 1 .. n)
    BY <1>1
  <2>4. /\ Ceiling(i).scopes = IF i = n THEN Len(scopes) ELSE ScopeHeights(activity)[i + 1]
        /\ Ceiling(i).frames = IF i = n THEN Len(frames) ELSE FrameHeights(activity)[i + 1]
    BY <1>2, <2>3 DEF Ceiling, Here, n
  <2>5. /\ Piece(scopes, activity[i].under.scopes, Ceiling(i).scopes, ScopesOf(activity[i]))
        /\ Piece(frames, activity[i].under.frames, Ceiling(i).frames, FramesOf(activity[i]))
    BY <1>2, <2>1, <2>4
  <2>6. /\ Ceiling(i).scopes \in Nat /\ Ceiling(i).scopes <= Len(scopes)
        /\ Ceiling(i).frames \in Nat /\ Ceiling(i).frames <= Len(frames)
    <3>1. CASE i = n
      BY <1>1, <2>4, <3>1
    <3>2. CASE i # n
      <4>1. /\ ScopeHeights(activity)[i + 1] \in Nat /\ ScopeHeights(activity)[n] \in Nat
            /\ FrameHeights(activity)[i + 1] \in Nat /\ FrameHeights(activity)[n] \in Nat
            /\ ScopeHeights(activity)[i + 1] <= ScopeHeights(activity)[n]
            /\ FrameHeights(activity)[i + 1] <= FrameHeights(activity)[n]
        BY <1>1, <1>2, <1>3, <2>3, <3>2 DEF Layers
      <4>2. /\ Len(ScopePieces(activity)[n]) \in Nat /\ Len(FramePieces(activity)[n]) \in Nat
        BY <1>2, <2>3, PieceTypes
      <4>3. /\ Len(scopes) = ScopeHeights(activity)[n] + Len(ScopePieces(activity)[n])
            /\ Len(frames) = FrameHeights(activity)[n] + Len(FramePieces(activity)[n])
        BY <1>3, <2>3 DEF Layers, Piece
      <4>. DEFINE sn == ScopeHeights(activity)[n]   fn == FrameHeights(activity)[n]
                  si == ScopeHeights(activity)[i + 1]   fi == FrameHeights(activity)[i + 1]
                  sl == Len(ScopePieces(activity)[n])   fl == Len(FramePieces(activity)[n])
      <4>4. /\ si \in Nat /\ sn \in Nat /\ sl \in Nat /\ si <= sn /\ Len(scopes) = sn + sl
            /\ fi \in Nat /\ fn \in Nat /\ fl \in Nat /\ fi <= fn /\ Len(frames) = fn + fl
        BY <4>1, <4>2, <4>3
      <4>5. Ceiling(i).scopes = si /\ Ceiling(i).frames = fi
        BY <2>4, <3>2
      <4>. HIDE DEF sn, fn, si, fi, sl, fl
      <4>. QED
        BY <4>4, <4>5
    <3>. QED
      BY <3>1, <3>2
  <2>7. SubSeq(scopes, activity[i].under.scopes + 1, Ceiling(i).scopes) = ScopesOf(activity[i])
    BY <1>1, <2>2, <2>5, <2>6, PieceIsSubSeq
  <2>8. SubSeq(frames, activity[i].under.frames + 1, Ceiling(i).frames) = FramesOf(activity[i])
    BY <1>1, <2>2, <2>5, <2>6, PieceIsSubSeq
  <2>. QED
    BY <2>7, <2>8
<1>5. program.under = IF activity = <<>> THEN Here ELSE activity[1].under
  <2>1. CASE activity = <<>>
    <3>1. program.under.scopes = Len(scopes) /\ program.under.frames = Len(frames)
      BY <2>1, LayersNone DEF Accounted
    <3>. QED
      BY <1>1, <2>1, <3>1 DEF Here, Heights
  <2>2. CASE activity # <<>>
    <3>1. 1 \in 1 .. n /\ n # 0
      BY <1>1, <2>2, PoppedStack DEF n
    <3>2. activity[1].under \in Heights
      BY <1>2, <3>1 DEF Activity
    <3>3. /\ program.under.scopes = activity[1].under.scopes
          /\ program.under.frames = activity[1].under.frames
      BY <1>2, <1>3, <3>1 DEF Layers
    <3>4. /\ program.under = [scopes |-> program.under.scopes, frames |-> program.under.frames]
          /\ activity[1].under =
               [scopes |-> activity[1].under.scopes, frames |-> activity[1].under.frames]
      BY <1>1, <3>2 DEF Heights
    <3>5. program.under = activity[1].under
      BY <3>3, <3>4
    <3>. QED
      BY <2>2, <3>5
  <2>. QED
    BY <2>1, <2>2
<1>6. StacksBalanced
  BY <1>1, <1>4, <1>5 DEF StacksBalanced
<1>7. HandlersGuarded
  <2>1. {i \in DOMAIN activity : activity[i].call = "trap"} = Handling(activity)
    BY <1>1 DEF Handling, n
  <2>2. active_trap_signals = {activity[i].signal : i \in Handling(activity)}
    BY DEF Accounted, HandledBy
  <2>. QED
    BY <2>1, <2>2 DEF HandlersGuarded, Accounted, HandledBy
<1>. QED
  BY <1>6, <1>7

-----------------------------------------------------------------------------
LEMMA InitCallsInv == Init => CallsInv
<1>. SUFFICES ASSUME Init PROVE CallsInv
  OBVIOUS
<1>1. PICK kind \in ProgramKinds :
        /\ frames = IF kind = "stdin" THEN <<>> ELSE <<Frame(kind, NoSignal)>>
        /\ program = [kind |-> kind, state |-> "running", forked |-> FALSE,
                      refused |-> FALSE, under |-> [scopes |-> 1, frames |-> Len(frames)]]
  BY DEF Init
<1>2. /\ scopes = <<"Global">> /\ Len(scopes) = 1 /\ scopes \in Seq(ScopeKinds)
      /\ activity = <<>> /\ activity \in Seq(Activity)
      /\ active_trap_signals = {} /\ suppressed = 0
      /\ func_call_depth = 0 /\ script_source_depth = 0
  BY DEF Init, ScopeKinds
<1>3. /\ frames \in Seq(Frames) /\ Len(frames) \in Nat
      /\ \A i \in DOMAIN frames : frames[i].kind \notin {"function", "source"}
  <2>1. CASE kind = "stdin"
    BY <1>1, <2>1
  <2>2. CASE kind # "stdin"
    <3>. DEFINE f == Frame(kind, NoSignal)
    <3>1. f \in Frames /\ f.kind = kind /\ kind \notin {"function", "source"}
      BY <2>2 DEF Frame, Frames, FrameKinds, ProgramKinds
    <3>. HIDE DEF f
    <3>2. frames = <<f>>
      BY <1>1, <2>2 DEF f
    <3>3. frames \in Seq(Frames) /\ Len(frames) = 1 /\ DOMAIN frames = 1 .. 1 /\ frames[1] = f
      BY <3>1, <3>2
    <3>. QED
      BY <3>1, <3>3
  <2>. QED
    BY <2>1, <2>2
<1>4. TypeOK
  BY <1>1, <1>2, <1>3 DEF TypeOK, ScopeKinds, Heights
<1>5. DepthsCountFrames
  <2>1. FramesWith("function") = {} /\ FramesWith("source") = {}
    BY <1>3 DEF FramesWith
  <2>. QED
    <3>1. Cardinality({}) = 0
      BY FS_EmptySet
    <3>2. /\ Cardinality(FramesWith("function")) = 0
          /\ Cardinality(FramesWith("source")) = 0
      BY <2>1, <3>1
    <3>. QED
      BY <1>2, <3>2 DEF DepthsCountFrames
<1>6. Accounted
  <2>1. program.under.scopes = Len(scopes) /\ program.under.frames = Len(frames)
    BY <1>1, <1>2
  <2>2. /\ ScopeLayers(scopes, activity, program.under.scopes)
        /\ FrameLayers(frames, activity, program.under.frames)
    BY <1>2, <2>1, LayersNone
  <2>3. HandledBy(activity, active_trap_signals)
    BY <1>2, HandledNone
  <2>. QED
    BY <1>2, <2>1, <2>2, <2>3 DEF Accounted
<1>. QED
  BY <1>4, <1>5, <1>6 DEF CallsInv

(***************************************************************************)
(* CallsInv holds throughout: at every moment what the shell notes about   *)
(* its calls is what the calls in progress put there.                      *)
(***************************************************************************)
THEOREM CallsInvariant == Spec => []CallsInv
<1>1. CallsInv /\ [Next]_vars => CallsInv'
  <2>. SUFFICES ASSUME CallsInv, [Next]_vars PROVE CallsInv'
    OBVIOUS
  <2>1. TypeOK' /\ DepthsCountFrames'
    BY TypesKept DEF CallsInv
  <2>2. ASSUME ~program'.refused PROVE Accounted'
    <3>1. ~program.refused
      BY <2>2 DEF CallsInv, TypeOK, Next, CallBegins, CallEnds, CommandBegins, EvalBegins,
                  SourceBegins, FunctionBegins, HookBegins, TrapBegins, CommandTraced,
                  AssignmentFails, CommandFinishes, ExternalRefused, EvalEnds, SourceEnds,
                  FunctionEnds, HookEnds, TrapEnds, Fork, ProgramEnds, vars
    <3>. QED
      BY <2>2, <3>1, AccountsKept DEF CallsInv
  <2>. QED
    BY <2>1, <2>2 DEF CallsInv
<1>. QED
  BY <1>1, InitCallsInv, PTL DEF Spec

(* The stacks, counters and calls keep their types, whatever runs. *)
THEOREM CallTypes == Spec => []TypeOK
<1>1. CallsInv => TypeOK
  BY DEF CallsInv
<1>. QED
  BY <1>1, CallsInvariant, PTL

(***************************************************************************)
(* Whatever way a command, function, script or handler ends, it has undone *)
(* exactly its own pushes, no handler runs within itself, and the depths   *)
(* the shell limits are those of its frames: for every nesting, every      *)
(* depth limit and every set of signals.                                   *)
(***************************************************************************)
THEOREM CallsAlwaysAccounted == Spec => []CallsAccounted
<1>1. CallsInv => CallsAccounted
  <2>. SUFFICES ASSUME CallsInv PROVE CallsAccounted
    OBVIOUS
  <2>1. CASE program.refused
    BY <2>1 DEF CallsInv, CallsAccounted, StacksBalanced, HandlersGuarded
  <2>2. CASE ~program.refused
    BY <2>2, AccountedMeans DEF CallsInv, CallsAccounted
  <2>. QED
    BY <2>1, <2>2
<1>. QED
  BY <1>1, CallsInvariant, PTL

-----------------------------------------------------------------------------
(* The root scope is never popped, and lies under all the program's calls. *)
Rooted ==
  /\ Len(scopes) >= 1 /\ scopes[1] = "Global"
  /\ ~program.forked => program.under.scopes = 1

LEMMA RootStays ==
  ASSUME NEW ss \in Seq(ScopeKinds), Len(ss) >= 1, ss[1] = "Global", NEW kind
  PROVE  /\ Len(pop_scope(kind, ss)) >= 1 /\ pop_scope(kind, ss)[1] = "Global"
         /\ Len(Append(ss, kind)) >= 1 /\ Append(ss, kind)[1] = "Global"
<1>1. Len(ss) \in Nat /\ ss # <<>>
  BY LenProperties
<1>2. Len(pop_scope(kind, ss)) >= 1 /\ pop_scope(kind, ss)[1] = "Global"
  <2>1. CASE Len(ss) > 1
    <3>1. Len(Popped(ss)) = Len(ss) - 1 /\ \A k \in 1 .. Len(ss) - 1 : Popped(ss)[k] = ss[k]
      BY <1>1, PoppedStack
    <3>. QED
      BY <1>1, <2>1, <3>1 DEF pop_scope
  <2>2. CASE ~(Len(ss) > 1)
    BY <2>2 DEF pop_scope
  <2>. QED
    BY <2>1, <2>2
<1>3. Len(Append(ss, kind)) >= 1 /\ Append(ss, kind)[1] = "Global"
  BY <1>1
<1>. QED
  BY <1>2, <1>3

LEMMA RootKept ==
  ASSUME TypeOK, Rooted, [Next]_vars
  PROVE  Rooted'
<1>1. scopes \in Seq(ScopeKinds)
  BY DEF TypeOK, ScopeKinds
<1>2. \A kind : pop_scope(kind, scopes) \in Seq(ScopeKinds)
  BY <1>1, ScopePopped
<1>3. \/ scopes' = scopes
      \/ \E kind : scopes' = Append(scopes, kind) \/ scopes' = pop_scope(kind, scopes)
      \/ \E kind, other : scopes' = pop_scope(kind, pop_scope(other, scopes))
  BY DEF Next, CallBegins, CallEnds, CommandBegins, EvalBegins, SourceBegins, FunctionBegins,
         enter_function, HookBegins, TrapBegins, CommandTraced, AssignmentFails, CommandFinishes,
         ExternalRefused, EvalEnds, SourceEnds, FunctionEnds, HookEnds, leave_function, TrapEnds,
         Fork, ProgramEnds, PostExecute, vars
<1>4. Len(scopes') >= 1 /\ scopes'[1] = "Global"
  <2>1. Len(scopes) >= 1 /\ scopes[1] = "Global"
    BY DEF Rooted
  <2>2. \A kind : Len(pop_scope(kind, scopes)) >= 1 /\ pop_scope(kind, scopes)[1] = "Global"
    BY <1>1, <2>1, RootStays
  <2>. QED
    BY <1>1, <1>2, <1>3, <2>1, <2>2, RootStays
<1>5. ~program'.forked => ~program.forked /\ program'.under.scopes = program.under.scopes
  <2>1. program \in [kind: ProgramKinds, state: {"running", "exiting", "ended"},
                     forked: BOOLEAN, refused: BOOLEAN, under: Heights]
    BY DEF TypeOK
  <2>2. CASE program' = program \/ program' = [program EXCEPT !.refused = TRUE]
    BY <2>1, <2>2 DEF Heights
  <2>3. CASE \E signal \in Signals : TrapBegins(signal)
    BY <2>1, <2>3 DEF TrapBegins, Heights
  <2>4. CASE Fork
    BY <2>1, <2>4 DEF Fork
  <2>5. CASE ProgramEnds
    BY <2>1, <2>5 DEF ProgramEnds, Heights
  <2>. QED
    BY <2>2, <2>3, <2>4, <2>5
    DEF Next, CallBegins, CallEnds, CommandBegins, EvalBegins, SourceBegins,
        FunctionBegins, HookBegins, CommandTraced, AssignmentFails, CommandFinishes,
        ExternalRefused, EvalEnds, SourceEnds, FunctionEnds, HookEnds, TrapEnds, vars
<1>. QED
  BY <1>4, <1>5 DEF Rooted

(***************************************************************************)
(* The comment of execute_command - the scope of a command's own           *)
(* assignments is reverted before it returns - is right of every program   *)
(* in which execute_via_external refused no command: no other way out of a *)
(* command, function, script, handler or hook leaves a scope behind.       *)
(***************************************************************************)
THEOREM OnlyRefusalLeavesScopes ==
  Spec => [](~program.refused => CommandScopesReverted)
<1>1. Init => Rooted
  BY DEF Init, Rooted
<1>2. Spec => []Rooted
  <2>1. TypeOK /\ Rooted /\ [Next]_vars => Rooted'
    BY RootKept
  <2>. QED
    BY <1>1, <2>1, CallTypes, PTL DEF Spec
<1>3. CallsInv /\ Rooted => (~program.refused => CommandScopesReverted)
  <2>. SUFFICES ASSUME CallsInv, Rooted, ~program.refused, activity = <<>>, ~program.forked
                PROVE  scopes = <<"Global">>
    BY DEF CommandScopesReverted
  <2>1. Len(scopes) = 1 /\ scopes[1] = "Global"
    BY LayersNone DEF CallsInv, Accounted, Rooted
  <2>2. scopes \in Seq(ScopeKinds)
    BY DEF CallsInv, TypeOK, ScopeKinds
  <2>3. <<"Global">> \in Seq(ScopeKinds) /\ Len(<<"Global">>) = 1 /\ <<"Global">>[1] = "Global"
    BY DEF ScopeKinds
  <2>4. \A i \in 1 .. Len(scopes) : scopes[i] = <<"Global">>[i]
    BY <2>1, <2>3
  <2>. QED
    BY <2>1, <2>2, <2>3, <2>4, SeqEqual
<1>. QED
  BY <1>2, <1>3, CallsInvariant, PTL
=============================================================================
