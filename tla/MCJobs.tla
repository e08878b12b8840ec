------------------------------- MODULE MCJobs -------------------------------
(* Module Jobs on a small instance: the bounds are given in the .cfg files. *)
EXTENDS Jobs
=============================================================================
