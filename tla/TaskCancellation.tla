-------------------------- MODULE TaskCancellation --------------------------
(***************************************************************************)
(* Owned shell tasks and the external processes they run: TaskCancellation *)
(* of src/src/engine/processes.rs, the chain of cancellations every task   *)
(* inherits (ExecutionParameters::task_cancellations, engine/interp.rs)    *)
(* and the drop of an ExecutionTask (engine/results.rs).                   *)
(*                                                                         *)
(* A background list, a pipeline stage, a coprocess or a process           *)
(* substitution producer is a task.  The handle of a producer goes into a  *)
(* registry that clones of ExecutionParameters share, until a command that *)
(* ends takes what is there; any other handle lives in the future, or the  *)
(* shell's job table, of the code that started the task.                   *)
(*                                                                         *)
(* Cancelling a task terminates the processes registered with it at once,  *)
(* but its future is destroyed only when the executor next runs it, and    *)
(* only then are the handles that future owns dropped in turn, with those  *)
(* of a registry nobody else shares.  Until then the tasks below it go on  *)
(* running, and starting processes.                                        *)
(***************************************************************************)
EXTENDS Naturals

CONSTANTS
  Tasks,      \* bound: the tasks ever started, numbered in that order
  Processes,  \* bound: the processes ever spawned, numbered likewise
  Lines       \* bound: the inputs the shell runs after its first, increasing

ASSUME TaskCancellationAssumption ==
  Tasks \subseteq Nat \ {0} /\ Processes \subseteq Nat /\ Lines \subseteq Nat

VARIABLES
  started,            \* the tasks started so far
  holder,             \* the body, or the registry, that has the task's handle
  registered,         \* the tasks whose handle is in a registry
  uses,               \* ExecutionParameters.process_substitutions of a body
  task_cancellations, \* ExecutionParameters.task_cancellations of its body
  future,             \* the task's future, as the executor sees it
  armed,              \* ExecutionTask.armed; FALSE also once the handle is gone
  cancelled,          \* TaskCancellationState.cancelled
  processes,          \* TaskCancellationState.processes
  runner,             \* the task that spawned a process
  running             \* the processes that run

handles == <<holder, registered, uses>>
controls == <<cancelled, processes>>
tree == <<started, task_cancellations>>
vars == <<tree, handles, future, armed, controls, runner, running>>

Shell == 0   \* the shell itself: the root of the tree, under no cancellation

Nobody == [p \in {} |-> Shell]

IsNext(n, S) == n \in S /\ \A m \in S : n <= m

Bodies == {Shell} \union started

Active(u) == u = Shell \/ (u \in started /\ future[u] = "running")

-----------------------------------------------------------------------------
(***************************************************************************)
(* Who has which handle.  A registry is named for the producer whose body  *)
(* got it new, or for the line of input the shell made it for.             *)
(***************************************************************************)
Owned(u) == {t \in started \ registered : holder[t] = u}

Registered(r) == {t \in registered : holder[t] = r}

Sharers(r) ==
  {u \in Bodies : uses[u] = r /\ (u = Shell \/ future[u] \in {"running", "dropped"})}

IsProducer(t) == uses[t] = t

(* What goes with u's parameters: a registry that nobody else shares. *)
Unshared(u) == IF Sharers(uses[u]) = {u} THEN Registered(uses[u]) ELSE {}

-----------------------------------------------------------------------------
(***************************************************************************)
(* compio::runtime::spawn with install_task_cancellation: the new body's   *)
(* parameters carry every cancellation of its parent's, and its own.       *)
(***************************************************************************)
InheritedWithRoot(u) == IF u = Shell THEN {Shell} ELSE task_cancellations[u]

Inherited(u) == IF u = Shell THEN {} ELSE task_cancellations[u]

Spawned(u, t) ==
  /\ Active(u)
  /\ IsNext(t, Tasks \ started)
  /\ started' = started \union {t}
  /\ task_cancellations' = [task_cancellations EXCEPT ![t] = Inherited(u) \union {t}]
  /\ future' = [future EXCEPT ![t] = "running"]
  /\ armed' = [armed EXCEPT ![t] = TRUE]
  /\ UNCHANGED <<controls, runner, running>>

(* A list, a stage or a coprocess: its parameters share u's registry. *)
SpawnTask(u, t) ==
  /\ Spawned(u, t)
  /\ holder' = [holder EXCEPT ![t] = u]
  /\ uses' = [uses EXCEPT ![t] = uses[u]]
  /\ UNCHANGED registered

(* A producer has a registry of its own, and is put in that of u. *)
SpawnProducer(u, t) ==
  /\ Spawned(u, t)
  /\ holder' = [holder EXCEPT ![t] = uses[u]]
  /\ uses' = [uses EXCEPT ![t] = t]
  /\ registered' = registered \union {t}

(***************************************************************************)
(* TaskCancellation::register with every cancellation of the chain: one    *)
(* that was cancelled already terminates the process, the others note it.  *)
(***************************************************************************)
RegisterOwn(u, p) ==
  /\ processes' = [t \in Tasks |-> IF t = u THEN processes[t] \union {p} ELSE processes[t]]
  /\ running' = IF u \in cancelled THEN running ELSE running \union {p}

register(u, p) ==
  /\ processes' = [t \in Tasks |->
                     IF t \in Inherited(u) \ cancelled
                     THEN processes[t] \union {p} ELSE processes[t]]
  /\ running' = IF Inherited(u) \intersect cancelled # {}
                THEN running ELSE running \union {p}

(* execute_external_command. *)
SpawnProcess(u, p) ==
  /\ Active(u)
  /\ IsNext(p, Processes \ DOMAIN runner)
  /\ runner' = [q \in DOMAIN runner \union {p} |-> IF q = p THEN u ELSE runner[q]]
  /\ register(u, p)
  /\ UNCHANGED <<tree, handles, future, armed, cancelled>>

ProcessExits(p) ==
  /\ p \in running
  /\ running' = running \ {p}
  /\ UNCHANGED <<tree, handles, future, armed, controls, runner>>

-----------------------------------------------------------------------------
(***************************************************************************)
(* The handles of S are dropped or cancelled.  One that is armed marks its *)
(* task cancelled and terminates what is registered with it; a future that *)
(* has not ended is left to the executor to destroy.                       *)
(***************************************************************************)
Armed(S) == {t \in S : armed[t]}

Dropped(S) == [t \in Tasks |-> IF t \in S /\ future[t] = "running" THEN "dropped" ELSE future[t]]

MarkedOnly(S) ==
  /\ cancelled' = cancelled \union Armed(S)
  /\ UNCHANGED <<running, processes, runner, tree>>

HandlesDropped(S) ==
  /\ cancelled' = cancelled \union Armed(S)
  /\ running' = running \ UNION {processes[t] : t \in Armed(S)}
  /\ UNCHANGED <<processes, runner, tree>>

Disarmed(S) == [t \in Tasks |-> armed[t] /\ t \notin S]

(* A failed pipeline, a consumer's failure, a dropped job table. *)
Cancel(u, S) ==
  /\ Active(u)
  /\ S \subseteq Owned(u)
  /\ Armed(S) # {}
  /\ HandlesDropped(S)
  /\ future' = Dropped(S)
  /\ armed' = Disarmed(S)
  /\ UNCHANGED handles

(* A command run by u is over: what the registry holds is u's to wait for. *)
TakeProducers(u) ==
  LET taken == Registered(uses[u])
  IN /\ Active(u)
     /\ taken # {}
     /\ registered' = registered \ taken
     /\ holder' = [t \in Tasks |-> IF t \in taken THEN u ELSE holder[t]]
     /\ UNCHANGED <<tree, uses, future, armed, controls, runner, running>>

(* It failed: what the registry holds is taken, and cancelled. *)
CancelProducers(u) ==
  LET taken == Registered(uses[u])
  IN /\ Active(u)
     /\ taken # {}
     /\ HandlesDropped(taken)
     /\ future' = Dropped(taken)
     /\ armed' = Disarmed(taken)
     /\ registered' = registered \ taken
     /\ UNCHANGED <<holder, uses>>

(***************************************************************************)
(* Drop of a ProcessSubstitutionTaskState: a producer is polled, and only  *)
(* one that has not ended is cancelled.  The one its owner is waiting for  *)
(* has left that state, and is cancelled either way.                       *)
(***************************************************************************)
Ended(S) == {t \in S : IsProducer(t) /\ future[t] = "ended"}

(* The parameters of the body u go, and the handles in own with them. *)
Released(u, own) ==
  /\ \E polled \in SUBSET Ended(own) :
       HandlesDropped((own \ polled) \union (Unshared(u) \ Ended(Unshared(u))))
  /\ armed' = Disarmed(own \union Unshared(u))
  /\ registered' = registered \ Unshared(u)

(* The shell runs its next input with parameters of its own. *)
NextLine(l) ==
  /\ l > uses[Shell]
  /\ Released(Shell, {})
  /\ future' = Dropped(Unshared(Shell))
  /\ uses' = [uses EXCEPT ![Shell] = l]
  /\ UNCHANGED holder

GoneAlone(t) ==
  /\ future' = [future EXCEPT ![t] = "ended"]
  /\ UNCHANGED <<tree, handles, armed, controls, runner, running>>

(* The future of t goes, and with it the handles it owns. *)
Gone(t) ==
  /\ Released(t, Owned(t))
  /\ future' = [Dropped(Owned(t) \union Unshared(t)) EXCEPT ![t] = "ended"]
  /\ UNCHANGED <<holder, uses>>

(* The body returns: it has waited for the processes it started. *)
TaskEnds(t) ==
  /\ t \in started
  /\ future[t] = "running"
  /\ \A p \in running : runner[p] # t
  /\ Gone(t)

(* The executor destroys a future whose handle is gone. *)
FutureDropped(t) ==
  /\ t \in started
  /\ future[t] = "dropped"
  /\ Gone(t)

(* The owner awaits a task to its end. *)
Join(u, t) ==
  /\ Active(u)
  /\ t \in Owned(u)
  /\ future[t] = "ended"
  /\ armed[t]
  /\ armed' = [armed EXCEPT ![t] = FALSE]
  /\ UNCHANGED <<tree, handles, future, controls, runner, running>>

-----------------------------------------------------------------------------
Init ==
  /\ started = {}
  /\ holder = [t \in Tasks |-> Shell]
  /\ registered = {}
  /\ uses = [u \in {Shell} \union Tasks |-> Shell]
  /\ task_cancellations = [t \in Tasks |-> {}]
  /\ future = [t \in Tasks |-> "none"]
  /\ armed = [t \in Tasks |-> FALSE]
  /\ cancelled = {}
  /\ processes = [t \in Tasks |-> {}]
  /\ runner = Nobody
  /\ running = {}

Next ==
  \/ \E u \in Bodies, t \in Tasks : SpawnTask(u, t) \/ SpawnProducer(u, t) \/ Join(u, t)
  \/ \E u \in Bodies : \/ \E S \in SUBSET started : Cancel(u, S)
                       \/ TakeProducers(u)
                       \/ CancelProducers(u)
  \/ \E u \in Bodies, p \in Processes : SpawnProcess(u, p)
  \/ \E p \in Processes : ProcessExits(p)
  \/ \E l \in Lines : NextLine(l)
  \/ \E t \in Tasks : TaskEnds(t) \/ FutureDropped(t)

Spec == Init /\ [][Next]_vars

(* compio's executor runs every task that is scheduled. *)
FairSpec == Spec /\ \A t \in Tasks : WF_vars(FutureDropped(t))

-----------------------------------------------------------------------------
TypeOK ==
  /\ started \in SUBSET Tasks
  /\ holder \in [Tasks -> {Shell} \union Tasks \union Lines]
  /\ registered \in SUBSET started
  /\ uses \in [{Shell} \union Tasks -> {Shell} \union Tasks \union Lines]
  /\ task_cancellations \in [Tasks -> SUBSET Tasks]
  /\ future \in [Tasks -> {"none", "running", "dropped", "ended"}]
  /\ armed \in [Tasks -> BOOLEAN]
  /\ cancelled \in SUBSET Tasks
  /\ processes \in [Tasks -> SUBSET Processes]
  /\ DOMAIN runner \in SUBSET Processes
  /\ \A p \in DOMAIN runner : runner[p] \in Tasks \union {Shell}
  /\ running \in SUBSET DOMAIN runner

(***************************************************************************)
(* Every running process has somebody to answer for it: the body that      *)
(* spawned it has not ended, and no task it was started under has been     *)
(* cancelled, although each handle only terminates what is registered with *)
(* it and the futures below it are destroyed later.                        *)
(***************************************************************************)
ProcessesSupervised ==
  \A p \in running :
    /\ Active(runner[p])
    /\ Inherited(runner[p]) \intersect cancelled = {}

(***************************************************************************)
(* The cascade of drops is invisible from outside: every step is a step of *)
(* Supervision, where a cancellation takes a whole subtree at once.        *)
(***************************************************************************)
Super == INSTANCE Supervision WITH
           above <- [u \in Bodies |-> {Shell} \union Inherited(u)],
           doomed <- {t \in started : task_cancellations[t] \intersect cancelled # {}},
           alive <- [p \in running |-> runner[p]]

ImplementsSupervision == Super!SupervisionSpec

(***************************************************************************)
(* What only cancelled tasks can still reach: the least set that has them, *)
(* whatever a member owns, and what is in a registry only members share.   *)
(***************************************************************************)
Closed(S) ==
  \A t \in started : \/ t \in Owned(Shell) \union UNION {Owned(u) : u \in started \ S}
                     \/ t \in registered /\ ~ (Sharers(holder[t]) \subseteq S)
                     \/ t \in S

Condemned(t) ==
  t \in started /\ \A S \in SUBSET started : cancelled \subseteq S /\ Closed(S) => t \in S

(* t was started under c, and no producer comes between the two. *)
PlainlyBelow(t, c) ==
  /\ t \in started /\ c \in task_cancellations[t]
  /\ \A p \in task_cancellations[t] \ task_cancellations[c] : ~ IsProducer(p)

(***************************************************************************)
(* Nothing below a cancelled task goes on for ever: the drops reach every  *)
(* task that was started under it, also those started after it.  Only a    *)
(* producer whose handle somebody else can still take, or has taken, may   *)
(* go on, and what is below that producer.                                 *)
(***************************************************************************)
CascadeCompletes ==
  \A t \in Tasks :
    Condemned(t) \/ (\E c \in cancelled : PlainlyBelow(t, c)) ~> future[t] = "ended"
=============================================================================
