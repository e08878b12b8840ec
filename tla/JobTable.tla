------------------------------ MODULE JobTable ------------------------------
(***************************************************************************)
(* What the job table promises its users, whatever bookkeeping it does:    *)
(* the jobs are numbered in the order they start, numbers are never        *)
(* reused, `%+` always names the newest job that is left and `%-` the      *)
(* newest but one.  JobManager (src/src/engine/jobs.rs) keeps the two      *)
(* numbers in fields it patches as jobs come and go; module Jobs models    *)
(* that patching and is shown to implement this specification.             *)
(***************************************************************************)
EXTENDS Naturals

CONSTANT NoJob   \* the value of an empty Option<usize>; job numbers start at 1

VARIABLES
  live,      \* the numbers of the jobs in the table
  next,      \* the number the next job gets
  newest,    \* the job `%+` names
  runnerUp   \* the job `%-` names

tableVars == <<live, next, newest, runnerUp>>

(***************************************************************************)
(* The greatest number of S, NoJob when there is none.                     *)
(***************************************************************************)
Newest(S) == IF S = {} THEN NoJob
             ELSE CHOOSE m \in S : \A x \in S : x <= m

Designators(L) == /\ newest' = Newest(L)
                  /\ runnerUp' = Newest(L \ {Newest(L)})

TableInit == /\ live = {}
             /\ next = 1
             /\ newest = NoJob
             /\ runnerUp = NoJob

Arrive == /\ live' = live \union {next}
          /\ next' = next + 1
          /\ Designators(live')

Leave(j) == /\ j \in live
            /\ live' = live \ {j}
            /\ Designators(live')
            /\ UNCHANGED next

TableNext == Arrive \/ \E j \in live : Leave(j)

TableSpec == TableInit /\ [][TableNext]_tableVars
=============================================================================
