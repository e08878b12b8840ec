----------------------- MODULE TaskCancellationProofs -----------------------
(***************************************************************************)
(* Proofs about module TaskCancellation, for any number of tasks and       *)
(* processes: its inductive invariant, from which the supervision of       *)
(* processes follows, and the refinement of module Supervision.            *)
(***************************************************************************)
EXTENDS TaskCancellation, TLAPS

(* The tree of tasks, and what a task that was not started has. *)
TreeInv ==
  /\ Shell \notin Tasks
  /\ \A t \in started :
       /\ t \in task_cancellations[t]
       /\ task_cancellations[t] \subseteq started
       /\ future[t] # "none"
  /\ \A t \in Tasks \ started :
       /\ task_cancellations[t] = {}
       /\ future[t] = "none"
       /\ ~armed[t]
  /\ cancelled \subseteq started

(* A future that runs has a handle that would cancel it. *)
HandleInv == \A t \in started : future[t] = "running" => armed[t]

(* Processes are registered with the chain of the task that spawned them:  *)
(* with all of it while they run, and with nothing else.                   *)
RegistryInv ==
  /\ \A p \in DOMAIN runner : runner[p] \in Bodies
  /\ \A p \in running : \A t \in Inherited(runner[p]) : p \in processes[t]
  /\ \A t \in Tasks : \A p \in processes[t] :
       p \in DOMAIN runner /\ t \in Inherited(runner[p])

TaskInv == TypeOK /\ TreeInv /\ HandleInv /\ RegistryInv /\ ProcessesSupervised

-----------------------------------------------------------------------------
LEMMA ShellNoTask == Shell \notin Tasks
  BY TaskCancellationAssumption DEF Shell

LEMMA InitInv == Init => TaskInv
  BY ShellNoTask
  DEF Init, TaskInv, TypeOK, TreeInv, HandleInv, RegistryInv, ProcessesSupervised,
      Nobody, Bodies

(* Where the handles are. *)
HandlesTyped ==
  /\ holder \in [Tasks -> {Shell} \union Tasks \union Lines]
  /\ registered \in SUBSET started
  /\ uses \in [{Shell} \union Tasks -> {Shell} \union Tasks \union Lines]

(* Starting a task below u, wherever its handle goes. *)
LEMMA SpawnedInv ==
  ASSUME TaskInv, NEW u \in Bodies, NEW t \in Tasks, Spawned(u, t), HandlesTyped'
  PROVE  TaskInv'
<1> USE DEF TaskInv, Bodies
<1>1. /\ started' = started \union {t} /\ t \notin started
      /\ task_cancellations' = [task_cancellations EXCEPT ![t] = Inherited(u) \union {t}]
      /\ future' = [future EXCEPT ![t] = "running"]
      /\ armed' = [armed EXCEPT ![t] = TRUE]
      /\ UNCHANGED <<cancelled, processes, runner, running>>
  BY DEF Spawned, IsNext, controls
<1>2. Inherited(u) \subseteq started /\ Inherited(u) \subseteq Tasks
  BY DEF Inherited, TreeInv, TypeOK
<1>3. TypeOK'
  BY <1>1, <1>2 DEF TypeOK, HandlesTyped
<1>4. TreeInv'
  BY <1>1, <1>2 DEF TypeOK, TreeInv
<1>5. HandleInv'
  BY <1>1 DEF HandleInv, TypeOK
<1>6. ASSUME NEW v \in Bodies
      PROVE  /\ Inherited(v)' = Inherited(v)
             /\ Active(v) => Active(v)'
  BY <1>1, <1>6 DEF Inherited, Active, TypeOK, TreeInv
<1>7. \A p \in running : p \in DOMAIN runner
  BY DEF TypeOK
<1>8. RegistryInv'
  BY <1>1, <1>6, <1>7 DEF RegistryInv
<1>9. ProcessesSupervised'
  <2> SUFFICES ASSUME NEW p \in running
               PROVE  Active(runner[p])' /\ Inherited(runner[p])' \intersect cancelled = {}
    BY <1>1 DEF ProcessesSupervised
  <2>1. runner[p] \in Bodies /\ runner' = runner
    BY <1>1, <1>7 DEF RegistryInv
  <2> QED
    BY <1>6, <2>1 DEF ProcessesSupervised
<1> QED
  BY <1>3, <1>4, <1>5, <1>8, <1>9

LEMMA SpawnTaskInv ==
  ASSUME TaskInv, NEW u \in Bodies, NEW t \in Tasks, SpawnTask(u, t) \/ SpawnProducer(u, t)
  PROVE  Spawned(u, t) /\ HandlesTyped'
<1>1. Spawned(u, t) /\ started' = started \union {t} /\ HandlesTyped
  BY DEF SpawnTask, SpawnProducer, Spawned, TaskInv, TypeOK, HandlesTyped
<1>2. u \in {Shell} \union Tasks
  BY DEF Bodies, TaskInv, TypeOK
<1>3. CASE SpawnTask(u, t)
  BY <1>1, <1>2, <1>3 DEF SpawnTask, HandlesTyped
<1>4. CASE SpawnProducer(u, t)
  BY <1>1, <1>2, <1>4 DEF SpawnProducer, HandlesTyped
<1> QED
  BY <1>1, <1>3, <1>4

(***************************************************************************)
(* Spawning a process: it runs only if nothing of the chain is cancelled,  *)
(* and is then registered with all of it.                                  *)
(***************************************************************************)
LEMMA SpawnProcessInv ==
  ASSUME TaskInv, NEW u \in Bodies, NEW p \in Processes, SpawnProcess(u, p)
  PROVE  TaskInv'
<1> USE DEF TaskInv
<1>1. /\ p \notin DOMAIN runner /\ Active(u)
      /\ runner' = [q \in DOMAIN runner \union {p} |-> IF q = p THEN u ELSE runner[q]]
      /\ processes' = [t \in Tasks |->
                         IF t \in Inherited(u) \ cancelled
                         THEN processes[t] \union {p} ELSE processes[t]]
      /\ running' = IF Inherited(u) \intersect cancelled # {}
                    THEN running ELSE running \union {p}
      /\ UNCHANGED <<started, task_cancellations, holder, registered, uses, future, armed, cancelled>>
  BY DEF SpawnProcess, register, tree, handles, IsNext
<1>2. Inherited(u) \subseteq Tasks /\ u \in Tasks \union {Shell}
  BY DEF Inherited, TypeOK, Bodies
<1>3. TypeOK'
  BY <1>1, <1>2 DEF TypeOK
<1>4. TreeInv' /\ HandleInv'
  BY <1>1 DEF TreeInv, HandleInv
<1>5. ASSUME NEW v
      PROVE  Inherited(v)' = Inherited(v) /\ Active(v)' = Active(v)
  BY <1>1 DEF Inherited, Active
<1>6. running \subseteq DOMAIN runner
  BY DEF TypeOK
<1>7. RegistryInv'
  <2>1. \A q \in DOMAIN runner' : runner'[q] \in Bodies'
    BY <1>1 DEF RegistryInv, Bodies
  <2>2. ASSUME NEW q \in running', NEW t \in Inherited(runner'[q])
        PROVE  q \in processes'[t]
    <3>1. CASE q = p
      <4>1. q \notin running
        BY <1>1, <1>6, <3>1
      <4>2. Inherited(u) \intersect cancelled = {} /\ runner'[q] = u
        BY <1>1, <3>1, <4>1
      <4> QED
        BY <1>1, <1>2, <2>2, <3>1, <4>2
    <3>2. CASE q # p
      <4>1. q \in running /\ runner'[q] = runner[q]
        BY <1>1, <1>6, <3>2
      <4>2. runner[q] \in Bodies
        BY <1>6, <4>1 DEF RegistryInv
      <4>3. t \in Tasks
        BY <2>2, <4>1, <4>2 DEF Inherited, Bodies, TypeOK
      <4> QED
        BY <1>1, <2>2, <4>1, <4>3 DEF RegistryInv
    <3> QED
      BY <3>1, <3>2
  <2>3. ASSUME NEW t \in Tasks, NEW q \in processes'[t]
        PROVE  q \in DOMAIN runner' /\ t \in Inherited(runner'[q])
    <3>1. CASE q \in processes[t]
      BY <1>1, <3>1 DEF RegistryInv
    <3>2. CASE q \notin processes[t]
      BY <1>1, <2>3, <3>2
    <3> QED
      BY <3>1, <3>2
  <2> QED
    BY <1>5, <2>1, <2>2, <2>3 DEF RegistryInv
<1>8. cancelled' = cancelled
  BY <1>1
<1>9. ProcessesSupervised'
  <2> SUFFICES ASSUME NEW q \in running'
               PROVE  Active(runner'[q]) /\ Inherited(runner'[q]) \intersect cancelled = {}
    BY <1>5, <1>8 DEF ProcessesSupervised
  <2>1. CASE q \in running
    BY <1>1, <1>6, <2>1 DEF ProcessesSupervised
  <2>2. CASE q \notin running
    BY <1>1, <2>2
  <2> QED
    BY <2>1, <2>2
<1> QED
  BY <1>3, <1>4, <1>7, <1>9

LEMMA ProcessExitsInv ==
  ASSUME TaskInv, NEW p \in Processes, ProcessExits(p)
  PROVE  TaskInv'
<1> USE DEF TaskInv
<1>1. /\ running' = running \ {p}
      /\ UNCHANGED <<started, task_cancellations, holder, registered, uses, future, armed, cancelled,
                     processes, runner>>
  BY DEF ProcessExits, tree, handles, controls
<1>2. ASSUME NEW v
      PROVE  Inherited(v)' = Inherited(v) /\ Active(v)' = Active(v)
  BY <1>1 DEF Inherited, Active
<1>3. TypeOK' /\ TreeInv' /\ HandleInv'
  BY <1>1 DEF TypeOK, TreeInv, HandleInv
<1>4. RegistryInv'
  BY <1>1, <1>2 DEF RegistryInv, Bodies
<1>5. ProcessesSupervised'
  BY <1>1, <1>2 DEF ProcessesSupervised
<1> QED
  BY <1>3, <1>4, <1>5

-----------------------------------------------------------------------------
(***************************************************************************)
(* What a cancellation, the end of a body and a new line of input have in  *)
(* common: the handles of S go, with the processes registered with the     *)
(* armed ones, and the future of a task whose processes have ended may go. *)
(***************************************************************************)
Drop(S) ==
  /\ HandlesDropped(S)
  /\ HandlesTyped'
  /\ armed' \in [Tasks -> BOOLEAN]
  /\ \A t \in Tasks : armed'[t] => armed[t]
  /\ future' \in [Tasks -> {"none", "running", "dropped", "ended"}]
  /\ \A t \in Tasks : future'[t] # "none" <=> future[t] # "none"
  /\ \A t \in Tasks : future'[t] = "running" =>
       future[t] = "running" /\ t \notin S /\ armed'[t] = armed[t]

(* The futures that stop although their handle was not in S ran nothing. *)
QuietOutside(S) ==
  \A t \in started \ S : future[t] = "running" /\ future'[t] # "running"
                          => \A p \in running : runner[p] # t

LEMMA DropInv ==
  ASSUME TaskInv, NEW S \in SUBSET started, Drop(S), QuietOutside(S)
  PROVE  TaskInv'
<1> USE DEF TaskInv
<1>1. /\ cancelled' = cancelled \union Armed(S)
      /\ running' = running \ UNION {processes[t] : t \in Armed(S)}
      /\ UNCHANGED <<started, task_cancellations, processes, runner>>
  BY DEF Drop, HandlesDropped, tree
<1>2. /\ HandlesTyped'
      /\ armed' \in [Tasks -> BOOLEAN]
      /\ \A t \in Tasks : armed'[t] => armed[t]
      /\ future' \in [Tasks -> {"none", "running", "dropped", "ended"}]
      /\ \A t \in Tasks : future'[t] # "none" <=> future[t] # "none"
      /\ \A t \in Tasks : future'[t] = "running" =>
           future[t] = "running" /\ t \notin S /\ armed'[t] = armed[t]
  BY DEF Drop
<1>3. Armed(S) \subseteq S /\ S \subseteq Tasks /\ started \subseteq Tasks
  BY DEF Armed, TypeOK
<1>4. running \subseteq DOMAIN runner
  BY DEF TypeOK
<1>5. ASSUME NEW v
      PROVE  Inherited(v)' = Inherited(v)
  BY <1>1 DEF Inherited
<1>6. TypeOK'
  BY <1>1, <1>2, <1>3 DEF TypeOK, HandlesTyped
<1>7. TreeInv'
  BY <1>1, <1>2, <1>3 DEF TreeInv
<1>8. HandleInv'
  BY <1>1, <1>2, <1>3 DEF HandleInv
<1>9. RegistryInv'
  BY <1>1, <1>5 DEF RegistryInv, Bodies
<1>10. ProcessesSupervised'
  <2> SUFFICES ASSUME NEW p \in running'
               PROVE  Active(runner[p])' /\ Inherited(runner[p]) \intersect cancelled' = {}
    BY <1>1, <1>5 DEF ProcessesSupervised
  <2>1. p \in running /\ p \in DOMAIN runner /\ runner[p] \in Bodies
    BY <1>1, <1>4 DEF RegistryInv
  <2>2. /\ Active(runner[p])
        /\ Inherited(runner[p]) \intersect cancelled = {}
        /\ \A t \in Inherited(runner[p]) : p \in processes[t]
    BY <2>1 DEF ProcessesSupervised, RegistryInv
  <2>3. Inherited(runner[p]) \intersect Armed(S) = {}
    BY <1>1, <2>2
  <2>4. Inherited(runner[p]) \intersect cancelled' = {}
    BY <1>1, <2>2, <2>3
  <2>5. CASE runner[p] = Shell
    BY <1>1, <2>4, <2>5 DEF Active
  <2>6. CASE runner[p] # Shell
    <3>1. runner[p] \in started /\ future[runner[p]] = "running" /\ armed[runner[p]]
      BY <2>1, <2>2, <2>6 DEF Active, HandleInv, Bodies
    <3>2. runner[p] \in Inherited(runner[p])
      BY <2>6, <3>1 DEF Inherited, TreeInv
    <3>3. runner[p] \notin S
      BY <2>3, <3>1, <3>2 DEF Armed
    <3>4. future'[runner[p]] = "running"
      BY <2>1, <3>1, <3>3 DEF QuietOutside
    <3> QED
      BY <1>1, <2>4, <3>1, <3>4 DEF Active
  <2> QED
    BY <2>5, <2>6
<1> QED
  BY <1>6, <1>7, <1>8, <1>9, <1>10

(* Handles that go together, their futures with them. *)
LEMMA DroppedDrops ==
  ASSUME TaskInv, NEW S \in SUBSET started, HandlesDropped(S), HandlesTyped',
         future' = Dropped(S), armed' = Disarmed(S)
  PROVE  Drop(S) /\ QuietOutside(S)
<1>1. /\ future' = [t \in Tasks |-> IF t \in S /\ future[t] = "running"
                                    THEN "dropped" ELSE future[t]]
      /\ armed' = [t \in Tasks |-> armed[t] /\ t \notin S]
      /\ future \in [Tasks -> {"none", "running", "dropped", "ended"}]
      /\ started \subseteq Tasks
  BY DEF Dropped, Disarmed, TaskInv, TypeOK
<1>2. armed \in [Tasks -> BOOLEAN]
  BY DEF TaskInv, TypeOK
<1>3. Drop(S)
  BY <1>1, <1>2 DEF Drop
<1>4. QuietOutside(S)
  BY <1>1 DEF QuietOutside
<1> QED
  BY <1>3, <1>4

LEMMA CancelDrops ==
  ASSUME TaskInv, NEW u \in Bodies, NEW S \in SUBSET started, Cancel(u, S)
  PROVE  Drop(S) /\ QuietOutside(S)
<1>1. HandlesTyped'
  BY DEF Cancel, HandlesDropped, tree, handles, HandlesTyped, TaskInv, TypeOK
<1> QED
  BY <1>1, DroppedDrops DEF Cancel

LEMMA CancelProducersDrops ==
  ASSUME TaskInv, NEW u \in Bodies, CancelProducers(u)
  PROVE  \E S \in SUBSET started : Drop(S) /\ QuietOutside(S)
<1> DEFINE taken == Registered(uses[u])
<1>1. taken \in SUBSET started
  BY DEF Registered, TaskInv, TypeOK
<1>2. HandlesTyped'
  BY DEF CancelProducers, HandlesDropped, tree, HandlesTyped, TaskInv, TypeOK
<1>3. HandlesDropped(taken) /\ future' = Dropped(taken) /\ armed' = Disarmed(taken)
  BY DEF CancelProducers
<1>4. Drop(taken) /\ QuietOutside(taken)
  BY <1>1, <1>2, <1>3, DroppedDrops
<1> QED
  BY <1>1, <1>4

(***************************************************************************)
(* What goes with a body's parameters, and with the handles in own: those  *)
(* that are only polled have ended, and so has gone, or run nothing, what  *)
(* stops besides.                                                          *)
(***************************************************************************)
LEMMA ReleasedDrops ==
  ASSUME TaskInv, NEW u \in Bodies, NEW own \in SUBSET started, Released(u, own),
         NEW t \in {Shell} \union started, t \in started => future[t] # "none",
         \A p \in running : t \in started => runner[p] # t,
         future' = [c \in Tasks |-> IF c = t THEN "ended"
                                    ELSE IF c \in own \union Unshared(u) /\ future[c] = "running"
                                         THEN "dropped" ELSE future[c]],
         UNCHANGED holder,
         uses' \in [{Shell} \union Tasks -> {Shell} \union Tasks \union Lines]
  PROVE  \E S \in SUBSET started : Drop(S) /\ QuietOutside(S)
<1> DEFINE left == Unshared(u)
<1>1. PICK polled \in SUBSET Ended(own) :
        HandlesDropped((own \ polled) \union (left \ Ended(left)))
  BY DEF Released
<1> DEFINE S == (own \ polled) \union (left \ Ended(left))
<1>2. left \in SUBSET started /\ started \subseteq Tasks /\ Shell \notin Tasks
  BY ShellNoTask DEF Unshared, Registered, TaskInv, TypeOK
<1>3. S \in SUBSET started
  BY <1>2
<1>4. \A c \in (own \union left) \ S : future[c] = "ended"
  BY <1>1 DEF Ended
<1>5. /\ armed' = [c \in Tasks |-> armed[c] /\ c \notin own \union left]
      /\ registered' = registered \ left
  BY DEF Released, Disarmed
<1>6. /\ future \in [Tasks -> {"none", "running", "dropped", "ended"}]
      /\ armed \in [Tasks -> BOOLEAN]
      /\ \A c \in started : future[c] # "none"
  BY DEF TaskInv, TypeOK, TreeInv
<1>7. HandlesTyped'
  BY <1>1, <1>5 DEF HandlesTyped, HandlesDropped, tree, TaskInv, TypeOK
<1>8. \A c \in Tasks : future'[c] # "none" <=> future[c] # "none"
  BY <1>2, <1>6
<1>9. ASSUME NEW c \in Tasks, future'[c] = "running"
      PROVE  future[c] = "running" /\ c \notin own \union left
  BY <1>9
<1>10. Drop(S)
  <2>1. future' \in [Tasks -> {"none", "running", "dropped", "ended"}]
    BY <1>6
  <2>2. armed' \in [Tasks -> BOOLEAN] /\ \A c \in Tasks : armed'[c] => armed[c]
    BY <1>5, <1>6
  <2>3. \A c \in Tasks : future'[c] = "running" =>
          future[c] = "running" /\ c \notin S /\ armed'[c] = armed[c]
    BY <1>5, <1>6, <1>9
  <2> QED
    BY <1>1, <1>7, <1>8, <2>1, <2>2, <2>3 DEF Drop
<1>11. QuietOutside(S)
  BY <1>2, <1>4 DEF QuietOutside
<1> QED
  BY <1>3, <1>10, <1>11

LEMMA NextLineDrops ==
  ASSUME TaskInv, NEW l \in Lines, NextLine(l)
  PROVE  \E S \in SUBSET started : Drop(S) /\ QuietOutside(S)
<1>1. /\ future' = [c \in Tasks |-> IF c = Shell THEN "ended"
                                    ELSE IF c \in {} \union Unshared(Shell) /\ future[c] = "running"
                                         THEN "dropped" ELSE future[c]]
      /\ Shell \notin started
  BY ShellNoTask DEF NextLine, Dropped, TaskInv, TypeOK
<1>2. uses' \in [{Shell} \union Tasks -> {Shell} \union Tasks \union Lines]
  BY DEF NextLine, TaskInv, TypeOK
<1>3. Released(Shell, {}) /\ UNCHANGED holder /\ Shell \in Bodies
  BY DEF NextLine, Bodies
<1> QED
  BY <1>1, <1>2, <1>3, ReleasedDrops

(* The body t goes, and runs nothing any more. *)
LEMMA TaskEndsDrops ==
  ASSUME TaskInv, NEW t \in Tasks, TaskEnds(t) \/ FutureDropped(t)
  PROVE  \E S \in SUBSET started : Drop(S) /\ QuietOutside(S)
<1>1. t \in started /\ future[t] # "none" /\ Gone(t)
  BY DEF TaskEnds, FutureDropped
<1>2. \A p \in running : runner[p] # t
  BY ShellNoTask
  DEF TaskEnds, FutureDropped, TaskInv, ProcessesSupervised, Active
<1>3. future' = [c \in Tasks |-> IF c = t THEN "ended"
                                 ELSE IF c \in Owned(t) \union Unshared(t) /\ future[c] = "running"
                                      THEN "dropped" ELSE future[c]]
  BY <1>1 DEF Gone, Dropped
<1>4. Released(t, Owned(t)) /\ UNCHANGED holder /\ t \in Bodies /\ Owned(t) \in SUBSET started
  BY <1>1 DEF Gone, Bodies, Owned
<1>5. uses' \in [{Shell} \union Tasks -> {Shell} \union Tasks \union Lines]
  BY <1>1 DEF Gone, TaskInv, TypeOK
<1> QED
  BY <1>1, <1>2, <1>3, <1>4, <1>5, ReleasedDrops

(* Steps that move or disarm a handle and leave the rest alone. *)
LEMMA MoveInv ==
  ASSUME TaskInv, HandlesTyped', armed' \in [Tasks -> BOOLEAN],
         \A t \in Tasks : armed'[t] # armed[t] => future[t] = "ended" /\ ~ armed'[t],
         UNCHANGED <<started, task_cancellations, future, cancelled, processes,
                     runner, running>>
  PROVE  TaskInv'
<1> USE DEF TaskInv
<1>1. ASSUME NEW v
      PROVE  Inherited(v)' = Inherited(v) /\ Active(v)' = Active(v)
  BY DEF Inherited, Active
<1>2. TypeOK'
  BY DEF TypeOK, HandlesTyped
<1>3. TreeInv' /\ HandleInv'
  <2>1. armed \in [Tasks -> BOOLEAN] /\ started \subseteq Tasks
    BY DEF TypeOK
  <2>2. TreeInv'
    BY <2>1 DEF TreeInv
  <2>3. HandleInv'
    BY <2>1 DEF HandleInv
  <2> QED
    BY <2>2, <2>3
<1>4. RegistryInv' /\ ProcessesSupervised'
  BY <1>1 DEF RegistryInv, Bodies, ProcessesSupervised
<1> QED
  BY <1>2, <1>3, <1>4

LEMMA TakeProducersInv ==
  ASSUME TaskInv, NEW u \in Bodies, TakeProducers(u)
  PROVE  TaskInv'
<1>1. /\ registered' = registered \ Registered(uses[u])
      /\ holder' = [t \in Tasks |-> IF t \in Registered(uses[u]) THEN u ELSE holder[t]]
      /\ UNCHANGED <<started, task_cancellations, uses, future, armed, cancelled, processes,
                     runner, running>>
  BY DEF TakeProducers, tree, controls
<1>2. u \in {Shell} \union Tasks /\ HandlesTyped /\ armed \in [Tasks -> BOOLEAN]
  BY DEF Bodies, TaskInv, TypeOK, HandlesTyped
<1>3. HandlesTyped'
  BY <1>1, <1>2 DEF HandlesTyped
<1> QED
  BY <1>1, <1>2, <1>3, MoveInv

LEMMA JoinInv ==
  ASSUME TaskInv, NEW u \in Bodies, NEW t \in Tasks, Join(u, t)
  PROVE  TaskInv'
<1>1. /\ armed' = [armed EXCEPT ![t] = FALSE] /\ future[t] = "ended"
      /\ UNCHANGED <<started, task_cancellations, holder, registered, uses, future, cancelled,
                     processes, runner, running>>
  BY DEF Join, tree, handles, controls
<1>2. HandlesTyped /\ armed \in [Tasks -> BOOLEAN]
  BY DEF TaskInv, TypeOK, HandlesTyped
<1>3. HandlesTyped'
  BY <1>1, <1>2 DEF HandlesTyped
<1> QED
  BY <1>1, <1>2, <1>3, MoveInv

-----------------------------------------------------------------------------
LEMMA NextInv == TaskInv /\ [Next]_vars => TaskInv'
<1> SUFFICES ASSUME TaskInv, [Next]_vars
             PROVE  TaskInv'
  OBVIOUS
<1>1. ASSUME NEW u \in Bodies, NEW t \in Tasks, SpawnTask(u, t) \/ SpawnProducer(u, t)
      PROVE  TaskInv'
  BY <1>1, SpawnTaskInv, SpawnedInv
<1>2. ASSUME NEW u \in Bodies, NEW S \in SUBSET started, Cancel(u, S)
      PROVE  TaskInv'
  BY <1>2, CancelDrops, DropInv
<1>3. ASSUME NEW u \in Bodies, NEW t \in Tasks, Join(u, t)
      PROVE  TaskInv'
  BY <1>3, JoinInv
<1>4. ASSUME NEW u \in Bodies, NEW p \in Processes, SpawnProcess(u, p)
      PROVE  TaskInv'
  BY <1>4, SpawnProcessInv
<1>5. ASSUME NEW p \in Processes, ProcessExits(p)
      PROVE  TaskInv'
  BY <1>5, ProcessExitsInv
<1>6. ASSUME NEW t \in Tasks, TaskEnds(t) \/ FutureDropped(t)
      PROVE  TaskInv'
  BY <1>6, TaskEndsDrops, DropInv
<1>7. ASSUME NEW u \in Bodies, TakeProducers(u)
      PROVE  TaskInv'
  BY <1>7, TakeProducersInv
<1>8. ASSUME NEW u \in Bodies, CancelProducers(u)
      PROVE  TaskInv'
  BY <1>8, CancelProducersDrops, DropInv
<1>9. ASSUME NEW l \in Lines, NextLine(l)
      PROVE  TaskInv'
  BY <1>9, NextLineDrops, DropInv
<1>10. CASE UNCHANGED vars
  BY <1>10 DEF vars, tree, handles, controls, TaskInv, TypeOK, TreeInv, HandleInv, RegistryInv,
               ProcessesSupervised, Bodies, Inherited, Active
<1> QED
  BY <1>1, <1>2, <1>3, <1>4, <1>5, <1>6, <1>7, <1>8, <1>9, <1>10 DEF Next

(* The invariant holds in every state of every behaviour. *)
THEOREM TaskInvariance == Spec => []TaskInv
  BY InitInv, NextInv, PTL DEF Spec

(***************************************************************************)
(* However tasks are nested and whenever the executor destroys them, no    *)
(* process runs whose task has ended or was cancelled at any level.        *)
(***************************************************************************)
THEOREM Supervised == Spec => []ProcessesSupervised
<1>1. TaskInv => ProcessesSupervised
  BY DEF TaskInv
<1> QED
  BY <1>1, TaskInvariance, PTL

-----------------------------------------------------------------------------
(***************************************************************************)
(* The refinement.  The state of Supervision that a state maps to, under   *)
(* names of its own.                                                       *)
(***************************************************************************)
Above == [u \in Bodies |-> {Shell} \union Inherited(u)]
Doomed == {t \in started : task_cancellations[t] \intersect cancelled # {}}
Alive == [p \in running |-> runner[p]]

LEMMA Mapping ==
  /\ Super!Shell = Shell
  /\ Super!SupervisionInit <=>
       /\ Above = [u \in {Shell} |-> {Shell}]
       /\ Doomed = {}
       /\ Alive = [p \in {} |-> Shell]
  /\ [Super!SupervisionNext]_(Super!supervisionVars) <=>
       \/ Super!SupervisionNext
       \/ Above' = Above /\ Doomed' = Doomed /\ Alive' = Alive
  BY DEF Super!Shell, Shell, Super!SupervisionInit, Super!supervisionVars, Above, Doomed, Alive

LEMMA InitMaps == Init => Super!SupervisionInit
<1> SUFFICES ASSUME Init
             PROVE  Super!SupervisionInit
  OBVIOUS
<1>1. Above = [u \in {Shell} |-> {Shell}]
  BY DEF Init, Above, Bodies, Inherited
<1>2. Doomed = {} /\ Alive = [p \in {} |-> Shell]
  BY DEF Init, Doomed, Alive, Nobody
<1> QED
  BY <1>1, <1>2, Mapping

LEMMA SpawnedMaps ==
  ASSUME TaskInv, NEW u \in Bodies, NEW t \in Tasks, Spawned(u, t)
  PROVE  Super!Start(u, t)
<1>1. /\ started' = started \union {t} /\ t \notin started
      /\ task_cancellations' = [task_cancellations EXCEPT ![t] = Inherited(u) \union {t}]
      /\ UNCHANGED <<cancelled, runner, running>>
  BY DEF Spawned, IsNext, controls
<1>2. /\ task_cancellations \in [Tasks -> SUBSET Tasks]
      /\ started \subseteq Tasks /\ cancelled \subseteq started
      /\ t # Shell /\ Shell \notin started
  BY ShellNoTask DEF TaskInv, TypeOK, TreeInv
<1>3. DOMAIN Above = Bodies /\ DOMAIN Above' = Bodies \union {t}
  BY <1>1 DEF Above, Bodies
<1>4. Inherited(t)' = Inherited(u) \union {t}
  BY <1>1, <1>2 DEF Inherited
<1>5. ASSUME NEW v \in Bodies
      PROVE  Inherited(v)' = Inherited(v) /\ v # t
  BY <1>1, <1>2, <1>5 DEF Inherited, Bodies
<1>6. Above' = [v \in DOMAIN Above \union {t} |->
                 IF v = t THEN Above[u] \union {t} ELSE Above[v]]
  BY <1>1, <1>3, <1>4, <1>5 DEF Above, Bodies
<1>7. Doomed' = Doomed \union (IF u \in Doomed THEN {t} ELSE {})
  <2>1. t \in Doomed' <=> u \in Doomed
    BY <1>1, <1>2 DEF Doomed, Inherited, Bodies
  <2>2. \A v \in started : v \in Doomed' <=> v \in Doomed
    BY <1>1, <1>2 DEF Doomed
  <2> QED
    BY <1>1, <2>1, <2>2 DEF Doomed
<1>8. Alive' = Alive
  BY <1>1 DEF Alive
<1> QED
  BY <1>1, <1>2, <1>3, <1>6, <1>7, <1>8 DEF Super!Start, Above, Doomed, Alive, Bodies

LEMMA SpawnProcessMaps ==
  ASSUME TaskInv, NEW u \in Bodies, NEW p \in Processes, SpawnProcess(u, p)
  PROVE  Super!Run(u, p) \/ (Above' = Above /\ Doomed' = Doomed /\ Alive' = Alive)
<1>1. /\ p \notin DOMAIN runner
      /\ runner' = [q \in DOMAIN runner \union {p} |-> IF q = p THEN u ELSE runner[q]]
      /\ running' = IF Inherited(u) \intersect cancelled # {}
                    THEN running ELSE running \union {p}
      /\ UNCHANGED <<started, task_cancellations, cancelled>>
  BY DEF SpawnProcess, register, tree, IsNext
<1>2. running \subseteq DOMAIN runner /\ Shell \notin started
  BY ShellNoTask DEF TaskInv, TypeOK
<1>3. Above' = Above /\ Doomed' = Doomed
  BY <1>1 DEF Above, Doomed, Bodies, Inherited
<1>4. CASE Inherited(u) \intersect cancelled # {}
  BY <1>1, <1>2, <1>3, <1>4 DEF Alive
<1>5. CASE Inherited(u) \intersect cancelled = {}
  <2>1. u \in DOMAIN Above \ Doomed
    BY <1>2, <1>5 DEF Above, Doomed, Inherited, Bodies
  <2>2. p \notin DOMAIN Alive
    BY <1>1, <1>2 DEF Alive
  <2>3. Alive' = [q \in DOMAIN Alive \union {p} |-> IF q = p THEN u ELSE Alive[q]]
    BY <1>1, <1>2, <1>5 DEF Alive
  <2> QED
    BY <1>3, <2>1, <2>2, <2>3 DEF Super!Run, Above, Doomed, Alive
<1> QED
  BY <1>4, <1>5

LEMMA ProcessExitsMaps ==
  ASSUME TaskInv, NEW p \in Processes, ProcessExits(p)
  PROVE  Super!Exit(p)
<1>1. /\ p \in running /\ running' = running \ {p}
      /\ UNCHANGED <<started, task_cancellations, cancelled, runner>>
  BY DEF ProcessExits, tree, controls
<1>2. Above' = Above /\ Doomed' = Doomed
  BY <1>1 DEF Above, Doomed, Bodies, Inherited
<1>3. Alive' = [q \in DOMAIN Alive \ {p} |-> Alive[q]]
  BY <1>1 DEF Alive
<1> QED
  BY <1>1, <1>2, <1>3 DEF Super!Exit, Above, Doomed, Alive

(* Dropping handles is a cancellation of the armed ones among them. *)
LEMMA DropMaps ==
  ASSUME TaskInv, NEW S \in SUBSET started, Drop(S)
  PROVE  Super!Kill(Armed(S))
<1>1. /\ cancelled' = cancelled \union Armed(S)
      /\ running' = running \ UNION {processes[t] : t \in Armed(S)}
      /\ UNCHANGED <<started, task_cancellations, runner>>
  BY DEF Drop, HandlesDropped, tree
<1>2. /\ Armed(S) \subseteq started /\ started \subseteq Tasks
      /\ Shell \notin started /\ running \subseteq DOMAIN runner
      /\ task_cancellations \in [Tasks -> SUBSET Tasks]
      /\ processes \in [Tasks -> SUBSET Processes]
  BY ShellNoTask DEF TaskInv, TypeOK, Armed
<1>3. Above' = Above
  BY <1>1 DEF Above, Bodies, Inherited
<1>4. ASSUME NEW t \in Armed(S)
      PROVE  Super!Below(t) = {u \in started : t \in task_cancellations[u]}
  BY <1>2, <1>4, Mapping DEF Super!Below, Bodies, Inherited
<1>5. Doomed' = Doomed \union UNION {Super!Below(t) : t \in Armed(S)}
  BY <1>1, <1>4 DEF Doomed
<1>6. \A p \in running : p \in running' <=> runner[p] \notin Doomed'
  <2> SUFFICES ASSUME NEW p \in running
               PROVE  p \in running' <=> runner[p] \notin Doomed'
    OBVIOUS
  <2>1. /\ runner[p] \in Bodies
        /\ Inherited(runner[p]) \intersect cancelled = {}
        /\ \A t \in Tasks : p \in processes[t] <=> t \in Inherited(runner[p])
    BY <1>2 DEF TaskInv, RegistryInv, ProcessesSupervised, TypeOK
  <2>2. p \in running' <=> Inherited(runner[p]) \intersect Armed(S) = {}
    BY <1>1, <1>2, <2>1
  <2>3. runner[p] \in Doomed' <=> Inherited(runner[p]) \intersect cancelled' # {}
    BY <1>1, <1>2, <2>1 DEF Doomed, Inherited, Bodies
  <2> QED
    BY <1>1, <2>1, <2>2, <2>3
<1>7. Alive' = [p \in {q \in DOMAIN Alive : Alive[q] \notin Doomed'} |-> Alive[p]]
  BY <1>1, <1>6 DEF Alive
<1> QED
  BY <1>3, <1>5, <1>7 DEF Super!Kill, Super!AliveOutside, Above, Doomed, Alive

LEMMA JoinMaps ==
  ASSUME NEW u \in Bodies, (\E t \in Tasks : Join(u, t)) \/ TakeProducers(u)
  PROVE  Above' = Above /\ Doomed' = Doomed /\ Alive' = Alive
  BY DEF Join, TakeProducers, tree, controls, Above, Doomed, Alive, Bodies, Inherited

LEMMA NextMaps == TaskInv /\ [Next]_vars => [Super!SupervisionNext]_(Super!supervisionVars)
<1> SUFFICES ASSUME TaskInv, [Next]_vars
             PROVE  \/ Super!SupervisionNext
                    \/ Above' = Above /\ Doomed' = Doomed /\ Alive' = Alive
  BY Mapping
<1>1. DOMAIN Above = Bodies /\ Super!SupervisionNext <=>
        \/ \E u \in Bodies : \/ \E t \in Tasks : Super!Start(u, t)
                            \/ \E p \in Processes : Super!Run(u, p)
        \/ \E p \in Processes : Super!Exit(p)
        \/ \E S \in SUBSET Tasks : Super!Kill(S)
  BY DEF Super!SupervisionNext, Above
<1>2. ASSUME NEW u \in Bodies, NEW t \in Tasks, SpawnTask(u, t) \/ SpawnProducer(u, t)
      PROVE  Super!SupervisionNext
  BY <1>1, <1>2, SpawnTaskInv, SpawnedMaps
<1>3. ASSUME NEW S \in SUBSET started, Drop(S)
      PROVE  Super!SupervisionNext
  <2>1. Armed(S) \in SUBSET Tasks
    BY DEF Armed, TaskInv, TypeOK
  <2>2. Super!Kill(Armed(S))
    BY <1>3, DropMaps
  <2>3. \E D \in SUBSET Tasks : Super!Kill(D)
    BY <2>1, <2>2 DEF Super!Kill
  <2> QED
    BY <1>1, <2>3
<1>4. ASSUME NEW u \in Bodies, CancelProducers(u) \/ \E S \in SUBSET started : Cancel(u, S)
      PROVE  Super!SupervisionNext
  BY <1>3, <1>4, CancelDrops, CancelProducersDrops
<1>5. ASSUME NEW t \in Tasks, TaskEnds(t) \/ FutureDropped(t)
      PROVE  Super!SupervisionNext
  BY <1>3, <1>5, TaskEndsDrops
<1>6. ASSUME NEW l \in Lines, NextLine(l)
      PROVE  Super!SupervisionNext
  BY <1>3, <1>6, NextLineDrops
<1>7. ASSUME NEW p \in Processes, ProcessExits(p)
      PROVE  Super!SupervisionNext
  BY <1>1, <1>7, ProcessExitsMaps
<1>8. ASSUME NEW u \in Bodies, NEW p \in Processes, SpawnProcess(u, p)
      PROVE  \/ Super!SupervisionNext
             \/ Above' = Above /\ Doomed' = Doomed /\ Alive' = Alive
  BY <1>1, <1>8, SpawnProcessMaps
<1>9. CASE UNCHANGED vars
  BY <1>9 DEF vars, tree, controls, Above, Doomed, Alive, Bodies, Inherited
<1> QED
  BY <1>2, <1>4, <1>5, <1>6, <1>7, <1>8, <1>9, JoinMaps DEF Next

(***************************************************************************)
(* Seen from outside a cancellation is one step that takes a whole subtree *)
(* of tasks and all their processes.                                       *)
(***************************************************************************)
THEOREM SupervisionImplemented == Spec => ImplementsSupervision
<1>1. Init => Super!SupervisionInit
  BY InitMaps
<1>2. TaskInv /\ [Next]_vars => [Super!SupervisionNext]_(Super!supervisionVars)
  BY NextMaps
<1> QED
  BY <1>1, <1>2, TaskInvariance, PTL
  DEF Spec, ImplementsSupervision, Super!SupervisionSpec

=============================================================================
