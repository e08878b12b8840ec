------------------------- MODULE MCTaskCancellation -------------------------
(***************************************************************************)
(* TaskCancellation on small instances.  A behaviour is about one `part`:  *)
(* a process under the tasks of one line of input, or the handles alone,   *)
(* while the shell goes on to other lines.                                 *)
(***************************************************************************)
EXTENDS TaskCancellation

VARIABLE part

MCTasks == 1 .. 3
MCProcesses == {1}
MCLines == {10, 11}

MCInit == Init /\ part \in {"processes", "handles"}

MCNext ==
  /\ Next
  /\ part = "processes" => uses'[Shell] = Shell
  /\ part = "handles" => runner' = Nobody
  /\ UNCHANGED part

MCSpec == MCInit /\ [][MCNext]_<<vars, part>> /\ \A t \in Tasks : WF_vars(FutureDropped(t))
=============================================================================
