----------------------------- MODULE MCProducers -----------------------------
(***************************************************************************)
(* The producers of process substitutions: those of one command, through   *)
(* the task that owns it (ExecutionTask), and those of a program and a list *)
(* in its background (ProcessSubstitution).  A wait of the second is what   *)
(* the first looks at from outside.  A behaviour is about one `part`; the  *)
(* other stays as it starts, where none of its fair steps is enabled.      *)
(***************************************************************************)
EXTENDS ExecutionTask, ProcessSubstitution

VARIABLE part

MCInit ==
  /\ part \in {"command", "program"}
  /\ Init /\ ProgramInit
  /\ part = "program" => form = "task" /\ producer = [i \in Ids |-> "running"]

MCNext ==
  \/ part = "command" /\ Next /\ UNCHANGED <<part, program_vars>>
  \/ part = "program" /\ ProgramNext /\ UNCHANGED <<part, vars>>

MCSpec == MCInit /\ [][MCNext]_<<part, vars, program_vars>> /\ WF_vars(Waits) /\ ProgramFairness
=============================================================================
