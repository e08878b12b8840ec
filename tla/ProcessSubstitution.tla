------------------------ MODULE ProcessSubstitution ------------------------
(***************************************************************************)
(* Who waits for the producers of process substitutions `<(...)`: the      *)
(* registry that ExecutionParameters::try_clone shares between a command   *)
(* and everything it runs, and Command::execute_in_pipeline, which takes   *)
(* all it holds when a command ends (src/src/engine/interp.rs).            *)
(*                                                                         *)
(* A context is a thread of control of the shell: the program itself, and  *)
(* one list `... &` it starts.  Its stack holds the commands under way:    *)
(* an inner one is part of the body of a compound command or a function,   *)
(* or a command substitution among the words.  A producer runs until it    *)
(* has written everything; now and then its pipe is full and it is blocked *)
(* until somebody reads, or fails when nobody can.  It is taken to block   *)
(* itself only, as an external program does, not the shell's one thread.   *)
(* The list is not started by a command substitution.                      *)
(***************************************************************************)
EXTENDS Naturals, Sequences, SequencesExt

CONSTANTS
  MaxProducers,  \* bound: the substitutions the program comes to
  MaxDepth,      \* bound: commands inside commands
  Lists          \* whether the program starts a list in the background

VARIABLES
  stack,      \* the commands each context is executing, outermost first
  inherited,  \* the producers whose pipe the shell of a context has open
  life,       \* whether a context has begun or ended
  home,       \* the subshell of the program whose job table has the list, or 0
  stopped,    \* that job is gone: the list's future waits to be destroyed
  registry,   \* ExecutionParameters.process_substitutions
  substitution,  \* the producers' tasks
  mixed       \* ghost: a command ran while the registry held another's
              \* producer, or `exec` kept a pipe open for the shell

program_vars == <<stack, inherited, life, home, stopped, registry, substitution, mixed>>

Program == "program"
List == "list"
Contexts == {Program, List}

ProducerIds == 1 .. MaxProducers

Top(c) == Last(stack[c])

Kinds == {"plain", "subshell"}

(* A command whose parameters are those of its caller so far. *)
Command(kind) == [kind |-> kind, phase |-> "runs", made |-> {}, left |-> <<>>]

Running(p) == substitution[p] \in {"writing", "blocked"}

(***************************************************************************)
(* The read end of a pipe is in the parameters of the command that made it *)
(* and in what it runs; they are dropped before it waits for the producer. *)
(***************************************************************************)
HeldToTheEnd(c) ==
  inherited[c] \union UNION {stack[c][i].made : i \in DOMAIN stack[c]}

Holds(c) ==
  inherited[c] \union
  UNION {stack[c][i].made : i \in {j \in DOMAIN stack[c] : stack[c][j].phase = "runs"}}

HasReader(p) == \E c \in Contexts : p \in Holds(c)

(* The executor does not run a future whose handle was dropped. *)
Polled(c) == c = List => ~stopped

-----------------------------------------------------------------------------
(* Cancelling drops the futures of those still running. *)
CancelledOf(S) ==
  [p \in ProducerIds |->
     IF p \in S /\ Running(p) THEN "cancelled" ELSE substitution[p]]

Popped(c) == [stack EXCEPT ![c] = Front(@)]

(* The command on top goes on as another record says. *)
OnTop(c, command) == [stack EXCEPT ![c] = [@ EXCEPT ![Len(@)] = command]]

WaitingFor(command, producers) == [command EXCEPT !.phase = "waits", !.left = producers]

Runs(c) ==
  /\ life[c] = "live" /\ Polled(c)
  /\ stack[c] # <<>> => Top(c).phase = "runs"

(* The command on top is executing its body. *)
Executes(c) == Polled(c) /\ stack[c] # <<>> /\ Top(c).phase = "runs"

(* Others run while producers they did not make are in the registry. *)
Shares(others) == mixed' = (mixed \/ (registry # <<>> /\ others))

Begin(c, kind) ==
  /\ Runs(c) /\ Len(stack[c]) < MaxDepth
  /\ stack' = [stack EXCEPT ![c] = Append(@, Command(kind))]
  /\ Shares(TRUE)
  /\ UNCHANGED <<inherited, life, home, stopped, registry, substitution>>

(* setup_process_substitution, for a redirection or a word of the command. *)
Substitute(c, p) ==
  /\ Runs(c) /\ stack[c] # <<>>
  /\ substitution[p] = "unused" /\ \A q \in 1 .. p - 1 : substitution[q] # "unused"
  /\ substitution' = [substitution EXCEPT ![p] = "writing"]
  /\ registry' = Append(registry, p)
  /\ stack' = OnTop(c, [Top(c) EXCEPT !.made = @ \union {p}])
  /\ mixed' = (mixed \/ \E d \in Contexts \ {c} : stack[d] # <<>>)
  /\ UNCHANGED <<inherited, life, home, stopped>>

Subshells(c) == {i \in DOMAIN stack[c] : stack[c][i].kind = "subshell"}

Innermost(S) == CHOOSE i \in S : \A j \in S : j <= i

(***************************************************************************)
(* The list is spawned with a copy of the parameters, open files and all,  *)
(* and is a job of the shell that is current.                              *)
(***************************************************************************)
SpawnList ==
  /\ Lists
  /\ Runs(Program) /\ life[List] = "new"
  /\ life' = [life EXCEPT ![List] = "live"]
  /\ inherited' = [inherited EXCEPT ![List] = Holds(Program)]
  /\ home' = IF Subshells(Program) = {} THEN 0 ELSE Innermost(Subshells(Program))
  /\ Shares(TRUE)
  /\ UNCHANGED <<stack, stopped, registry, substitution>>

-----------------------------------------------------------------------------
(***************************************************************************)
(* The n-th command of c, and those inside it, have executed their bodies: *)
(* the shell of a subshell is dropped before its command takes anything,   *)
(* and with its job table the handle of a list it started.                 *)
(***************************************************************************)
ShellsDropped(c, n) ==
  /\ stopped' = (stopped \/ (c = Program /\ life[List] = "live" /\ home >= n))
  /\ UNCHANGED home

(***************************************************************************)
(* A command has been executed: execute_in_pipeline takes what is in the   *)
(* registry.  After a success it waits for each in turn, after a failure   *)
(* (an external command refused because the registry is not empty is one)  *)
(* it cancels them.                                                        *)
(***************************************************************************)
CopyTasks == UNCHANGED registry

TakeTasks == registry' = <<>>

Succeeds(c) ==
  /\ Executes(c)
  /\ stack' = IF registry = <<>> THEN Popped(c) ELSE OnTop(c, WaitingFor(Top(c), registry))
  /\ TakeTasks
  /\ ShellsDropped(c, Len(stack[c]))
  /\ UNCHANGED <<inherited, life, substitution, mixed>>

(***************************************************************************)
(* `exec` without a command succeeds and leaves the files of its           *)
(* parameters open in the shell: that of the innermost subshell, or of the *)
(* context.  It then waits for its producers like any other command.       *)
(***************************************************************************)
Catching(c) == {i \in 1 .. Len(stack[c]) - 1 : stack[c][i].kind = "subshell"}

Exec(c) ==
  /\ Executes(c) /\ Top(c).kind = "plain"
  /\ registry # <<>>
  /\ LET waiting == OnTop(c, WaitingFor(Top(c), registry))
         keeper  == Innermost(Catching(c))
         kept    == [stack[c][keeper] EXCEPT !.made = Holds(c)]
     IN IF Catching(c) = {}
        THEN /\ stack' = waiting
             /\ inherited' = [inherited EXCEPT ![c] = Holds(c)]
        ELSE /\ stack' = [waiting EXCEPT ![c] = ReplaceAt(@, keeper, kept)]
             /\ UNCHANGED inherited
  /\ TakeTasks
  /\ mixed' = TRUE
  /\ UNCHANGED <<life, home, stopped, substitution>>

Fails(c) ==
  /\ Executes(c)
  /\ substitution' = CancelledOf(Range(registry))
  /\ TakeTasks
  /\ stack' = Popped(c)
  /\ ShellsDropped(c, Len(stack[c]))
  /\ UNCHANGED <<inherited, life, mixed>>

(***************************************************************************)
(* An error of the command on top leaves every command around it by `?`,   *)
(* before they take anything, up to a subshell, whose own command then     *)
(* fails, or to the program, which goes on with the next line.  A list     *)
(* ends with it.                                                           *)
(***************************************************************************)

(***************************************************************************)
(* A context is over, and with it its parameters; the registry goes with   *)
(* the last of them, and the producers left in it are cancelled.           *)
(***************************************************************************)
OrphansOfAnyEnd(c) == Range(registry)

Orphans(c) ==
  IF \E d \in Contexts \ {c} : life[d] = "live" THEN {} ELSE Range(registry)

Over(c, dropped) ==
  /\ life' = [life EXCEPT ![c] = "over"]
  /\ inherited' = [inherited EXCEPT ![List] = IF c = List THEN {} ELSE @]
  /\ home' = IF c = List THEN 0 ELSE home
  /\ stopped' = (stopped /\ c # List)
  /\ substitution' = CancelledOf(dropped \union Orphans(c))
  /\ registry' = IF Orphans(c) = {} THEN registry ELSE <<>>

ContextEnds(c) ==
  /\ life[c] = "live" /\ Polled(c) /\ stack[c] = <<>>
  /\ Over(c, {})
  /\ UNCHANGED <<stack, mixed>>

Caught(c, dropped) ==
  /\ stack' = [stack EXCEPT ![c] = SubSeq(@, 1, Innermost(Catching(c)) - 1)]
  /\ substitution' = CancelledOf(dropped \union Range(registry))
  /\ TakeTasks
  /\ ShellsDropped(c, Innermost(Catching(c)))
  /\ UNCHANGED <<inherited, life>>

Uncaught(c, dropped) ==
  /\ stack' = [stack EXCEPT ![c] = <<>>]
  /\ IF c = List THEN Over(c, dropped)
     ELSE /\ substitution' = CancelledOf(dropped)
          /\ ShellsDropped(c, 1)
          /\ UNCHANGED <<inherited, life, registry>>

Unwind(c, dropped) ==
  /\ IF Catching(c) # {} THEN Caught(c, dropped) ELSE Uncaught(c, dropped)
  /\ UNCHANGED mixed

Errs(c) ==
  /\ Executes(c)
  /\ Unwind(c, {})

Awaited(c) == substitution[Head(Top(c).left)]

Awaits(c) == stack[c] # <<>> /\ Top(c).phase = "waits"

WaitGoesOn(c) ==
  /\ Polled(c) /\ Awaits(c) /\ Awaited(c) = "ended"
  /\ stack' = IF Len(Top(c).left) = 1 THEN Popped(c)
              ELSE OnTop(c, WaitingFor(Top(c), Tail(Top(c).left)))
  /\ UNCHANGED <<inherited, life, home, stopped, registry, substitution, mixed>>

(* The error of a producer becomes the command's; the others are dropped. *)
WaitFails(c) ==
  /\ Polled(c) /\ Awaits(c) /\ Awaited(c) = "erred"
  /\ Unwind(c, Range(Top(c).left))

(* The executor destroys the future of the list: what it waits for goes. *)
ListDestroyed ==
  /\ stopped
  /\ stack' = [stack EXCEPT ![List] = <<>>]
  /\ Over(List, IF Awaits(List) THEN Range(Top(List).left) ELSE {})
  /\ UNCHANGED mixed

-----------------------------------------------------------------------------
(* The pipe is full, or has room again. *)
Blocks(p) ==
  /\ substitution[p] = "writing" /\ HasReader(p)
  /\ substitution' = [substitution EXCEPT ![p] = "blocked"]
  /\ UNCHANGED <<stack, inherited, life, home, stopped, registry, mixed>>

Read(c, p) ==
  /\ Runs(c) /\ stack[c] # <<>>
  /\ p \in Holds(c) /\ substitution[p] = "blocked"
  /\ substitution' = [substitution EXCEPT ![p] = "writing"]
  /\ UNCHANGED <<stack, inherited, life, home, stopped, registry, mixed>>

(* What its list answers is a status ("ended") or an error of the shell.   *)
Finish(p) ==
  /\ Running(p)
  /\ substitution[p] = "blocked" => ~HasReader(p)
  /\ \E s \in {"ended", "erred"} : substitution' = [substitution EXCEPT ![p] = s]
  /\ UNCHANGED <<stack, inherited, life, home, stopped, registry, mixed>>

-----------------------------------------------------------------------------
ProgramInit ==
  /\ stack = [c \in Contexts |-> <<>>]
  /\ inherited = [c \in Contexts |-> {}]
  /\ life = [c \in Contexts |-> IF c = Program THEN "live" ELSE "new"]
  /\ home = 0
  /\ stopped = FALSE
  /\ registry = <<>>
  /\ substitution = [p \in ProducerIds |-> "unused"]
  /\ mixed = FALSE

ProgramNext ==
  \/ SpawnList \/ ListDestroyed
  \/ \E c \in Contexts :
       \/ \E kind \in Kinds : Begin(c, kind)
       \/ \E p \in ProducerIds : Substitute(c, p) \/ Read(c, p)
       \/ Succeeds(c) \/ Exec(c) \/ Fails(c) \/ Errs(c) \/ ContextEnds(c)
       \/ WaitGoesOn(c) \/ WaitFails(c)
  \/ \E p \in ProducerIds : Blocks(p) \/ Finish(p)

(***************************************************************************)
(* Producers go on by themselves; the executor resumes a context whose     *)
(* await is answered, and destroys a future nobody holds a handle of.      *)
(* Nothing makes a command read or end.                                    *)
(***************************************************************************)
ProgramFairness ==
  /\ WF_program_vars(ListDestroyed)
  /\ \A c \in Contexts : WF_program_vars(WaitGoesOn(c) \/ WaitFails(c))
  /\ \A p \in ProducerIds : WF_program_vars(Finish(p))

ProgramSpec == ProgramInit /\ [][ProgramNext]_program_vars /\ ProgramFairness

-----------------------------------------------------------------------------
Commands == [kind: Kinds, phase: {"runs", "waits"},
             made: SUBSET ProducerIds, left: Seq(ProducerIds)]

ProgramTypes ==
  /\ stack \in [Contexts -> Seq(Commands)]
  /\ inherited \in [Contexts -> SUBSET ProducerIds]
  /\ life \in [Contexts -> {"new", "live", "over"}]
  /\ registry \in Seq(ProducerIds)
  /\ substitution \in [ProducerIds ->
       {"unused", "writing", "blocked", "ended", "erred", "cancelled"}]
  /\ mixed \in BOOLEAN

JobTypes == home \in Nat /\ stopped \in BOOLEAN

(***************************************************************************)
(* Whatever runs inside what, and wherever an error leaves from: a         *)
(* producer that runs is in exactly one place from which it will be waited *)
(* for or cancelled, so none is awaited twice and none is forgotten, and   *)
(* with the last parameters that share the registry none is left running.  *)
(***************************************************************************)
Keepers ==
  {<<"registry", registry>>} \union {<<c, Top(c).left>> : c \in {d \in Contexts : Awaits(d)}}

KeepersOf(p) == {k \in Keepers : p \in Range(k[2])}

KeptOnce ==
  /\ \A p \in ProducerIds : Running(p) => Cardinality(KeepersOf(p)) = 1
  /\ \A k \in Keepers : IsInjective(k[2])
  /\ (\A c \in Contexts : life[c] # "live") => registry = <<>>

(***************************************************************************)
(* A producer shares the life of the command it was made for: it is not    *)
(* cancelled while that command, the one that has the redirection, is      *)
(* executing its body.                                                     *)
(***************************************************************************)
ConsumerExecutes(p) ==
  \E c \in Contexts : Polled(c) /\ \E i \in DOMAIN stack[c] :
    stack[c][i].phase = "runs" /\ p \in stack[c][i].made

CancelledWithItsConsumer ==
  \A p \in ProducerIds : substitution[p] = "cancelled" => ~ConsumerExecutes(p)

(***************************************************************************)
(* While every command is alone with its producers more holds: none is     *)
(* cancelled as long as anything at all has the read end of its pipe, a    *)
(* list in the background or one that waits to be destroyed included.      *)
(***************************************************************************)
AloneCancelledWithItsConsumer ==
  ~mixed => \A p \in ProducerIds : substitution[p] = "cancelled" => ~HasReader(p)

(***************************************************************************)
(* A command that waits for its producers gets its answer, also when it    *)
(* did not read all they had to write: the read ends are closed first, so  *)
(* a producer whose pipe is full fails instead of blocking for ever.       *)
(***************************************************************************)
WaitsEnd ==
  \A c \in Contexts : Awaits(c) /\ ~mixed ~> ~Awaits(c) \/ mixed

=============================================================================
