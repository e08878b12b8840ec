---------------------------- MODULE Supervision ----------------------------
(***************************************************************************)
(* What cancelling an owned shell task promises: the task and everything   *)
(* it started, at any depth, lose their processes in one step, and none of *)
(* them ever has one again.  Module TaskCancellation models how            *)
(* src/src/engine/processes.rs and results.rs bring that about, task by    *)
(* task, and is shown to implement this specification.                     *)
(***************************************************************************)
EXTENDS Naturals

CONSTANTS Tasks, Processes

VARIABLES
  above,   \* task -> itself and the tasks it was started under
  doomed,  \* the tasks that are cancelled, or are below one that is
  alive    \* process -> the task that runs it

supervisionVars == <<above, doomed, alive>>

Shell == 0   \* the shell itself: never cancelled, above every task

Below(t) == {u \in DOMAIN above : t \in above[u]}

AliveOutside(D) == [p \in {q \in DOMAIN alive : alive[q] \notin D} |-> alive[p]]

SupervisionInit ==
  /\ above = [u \in {Shell} |-> {Shell}]
  /\ doomed = {}
  /\ alive = [p \in {} |-> Shell]

(* u starts a task. *)
Start(u, t) ==
  /\ u \in DOMAIN above
  /\ t \in Tasks \ DOMAIN above
  /\ above' = [v \in DOMAIN above \union {t} |->
                 IF v = t THEN above[u] \union {t} ELSE above[v]]
  /\ doomed' = doomed \union (IF u \in doomed THEN {t} ELSE {})
  /\ UNCHANGED alive

(* u runs a process: one below a cancelled task is dead on arrival. *)
Run(u, p) ==
  /\ u \in DOMAIN above \ doomed
  /\ p \in Processes \ DOMAIN alive
  /\ alive' = [q \in DOMAIN alive \union {p} |-> IF q = p THEN u ELSE alive[q]]
  /\ UNCHANGED <<above, doomed>>

Exit(p) ==
  /\ p \in DOMAIN alive
  /\ alive' = [q \in DOMAIN alive \ {p} |-> alive[q]]
  /\ UNCHANGED <<above, doomed>>

(* The tasks of S are cancelled. *)
Kill(S) ==
  /\ doomed' = doomed \union UNION {Below(t) : t \in S}
  /\ alive' = AliveOutside(doomed')
  /\ UNCHANGED above

SupervisionNext ==
  \/ \E u \in DOMAIN above : \/ \E t \in Tasks : Start(u, t)
                             \/ \E p \in Processes : Run(u, p)
  \/ \E p \in Processes : Exit(p)
  \/ \E S \in SUBSET Tasks : Kill(S)

SupervisionSpec == SupervisionInit /\ [][SupervisionNext]_supervisionVars
=============================================================================
