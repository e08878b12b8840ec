-------------------------------- MODULE Jobs --------------------------------
(***************************************************************************)
(* The shell's job table: JobManager and Job of src/src/engine/jobs.rs,    *)
(* with the three places that drive it: `cmd &` and `coproc` add a job     *)
(* (engine/interp.rs), the `wait` builtin waits (builtins/wait.rs), and    *)
(* the prompt polls (Shell::check_for_completed_jobs).                     *)
(*                                                                         *)
(* A job is a queue of tasks.  Tasks run on the shell's own single-        *)
(* threaded executor, so they advance only while the shell awaits; a poll  *)
(* and a sweep are synchronous and exclude them.  The table is a Vec the   *)
(* code appends to with increasing numbers, hence a function on numbers    *)
(* read in increasing order; a task queue is popped at the front only,     *)
(* hence an interval head .. size of the tasks the job was created with.   *)
(***************************************************************************)
EXTENDS Naturals, FiniteSets

CONSTANTS
  MaxJobs,    \* bound: how many jobs are ever started
  MaxTasks,   \* bound: how many tasks one job is created with
  TaskBudget, \* bound: how many tasks the table tracks at once
  NoJob       \* the value of an empty Option<usize>

ASSUME JobsAssumption == /\ MaxJobs \in Nat \ {0}
                         /\ MaxTasks \in Nat \ {0}
                         /\ TaskBudget \in Nat
                         /\ NoJob = 0

VARIABLES
  jobs,             \* JobManager.jobs: number -> the job's fields
  next_job_id,
  current_job_id,
  previous_job_id,
  task,             \* the tasks themselves, as the executor sees them
  shell,            \* what the shell is doing, and at which job
  report            \* the answer this step gives about a job, if it gives one

vars == <<jobs, next_job_id, current_job_id, previous_job_id, task, shell, report>>

table == <<next_job_id, current_job_id, previous_job_id>>

Ids   == 1 .. MaxJobs
Slots == 1 .. MaxTasks

(***************************************************************************)
(* Exit codes as far as the code tells them apart: success, the code 148   *)
(* ExecutionResult::stopped() stands for, any other failure; "error" is an *)
(* Err of the task.  A task is "joined" once its handle has been awaited   *)
(* to the end and it is still in its queue.                                *)
(***************************************************************************)
Codes    == {"success", "failure", "code148"}
Outcomes == Codes \union {"error"}
TaskStates == {"none", "running", "cancelled", "joined"} \union Outcomes

JobRecord == [head: 1 .. MaxTasks + 1, size: Slots,
              state: {"Running", "Stopped", "Done"},
              result: Codes \union {"none"},
              annotation: {"None", "Current", "Previous"}]

Idle == [op |-> "idle", at |-> NoJob, got |-> "none"]

NewJob(n) == [head |-> 1, size |-> n, state |-> "Running",
              result |-> "none", annotation |-> "None"]

EmptyTable == [j \in {} |-> NewJob(1)]

(***************************************************************************)
(* Reports.  The status a job's stages add up to is the last stage's, or   *)
(* the error of any of them; a stage that exits 148 is singled out.        *)
(***************************************************************************)
Newest(S) == IF S = {} THEN NoJob
             ELSE CHOOSE m \in S : \A x \in S : x <= m

StageStates(j) == {task[j][k] : k \in Slots} \ {"none"}

LastStage(j) == task[j][Newest({k \in Slots : task[j][k] # "none"})]

TrueStatus(j) ==
  IF "error" \in StageStates(j) THEN "error"
  ELSE IF StageStates(j) \intersect {"code148", "joined"} # {} THEN "code148"
       ELSE LastStage(j)

Reported(j, r) == [job |-> j, value |-> r, truth |-> TrueStatus(j)]

NoReport == [job |-> NoJob, value |-> "none", truth |-> "none"]

NoSuchJob == [job |-> NoJob, value |-> "failure", truth |-> "none"]

Silent == report' = NoReport

(***************************************************************************)
(* Designators: newest_job_id_except and refresh_annotations.              *)
(***************************************************************************)
RefreshedCurrent(live, c) == IF c \in live THEN c ELSE Newest(live)

PreviousUnchecked(live, c, p) == IF p \in live THEN p ELSE Newest(live \ {c})

RefreshedPrevious(live, c, p) ==
  IF p \in live /\ p # c THEN p ELSE Newest(live \ {c})

Annotation(id, c, p) == IF id = c THEN "Current"
                        ELSE IF id = p THEN "Previous" ELSE "None"

(* The table becomes `js`; both designators and every flag are refreshed. *)
refresh_annotations(js, c, p) ==
  LET live == DOMAIN js
      cur  == RefreshedCurrent(live, c)
      prev == RefreshedPrevious(live, cur, p)
  IN /\ current_job_id' = cur
     /\ previous_job_id' = prev
     /\ jobs' = [j \in live |->
                   [js[j] EXCEPT !.annotation = Annotation(j, cur, prev)]]

RemoveUnrefreshed(js, id) ==
  /\ jobs' = [j \in DOMAIN js \ {id} |-> js[j]]
  /\ UNCHANGED table

(* A job leaves the table; a designator that named it is cleared first. *)
remove_job(js, id) ==
  /\ refresh_annotations([j \in DOMAIN js \ {id} |-> js[j]],
       IF current_job_id = id THEN NoJob ELSE current_job_id,
       IF previous_job_id = id THEN NoJob ELSE previous_job_id)
  /\ UNCHANGED next_job_id

-----------------------------------------------------------------------------
(***************************************************************************)
(* `cmd &` and `coproc`: a job of n running tasks becomes current.         *)
(***************************************************************************)
Tracked == {p \in Ids \X Slots : task[p[1]][p[2]] # "none"}

add_as_current(n) ==
  LET id   == next_job_id
      live == DOMAIN jobs
  IN /\ shell = Idle
     /\ id \in Ids
     /\ Cardinality(Tracked) + n <= TaskBudget
     /\ next_job_id' = id + 1
     /\ refresh_annotations(
          [j \in live \union {id} |-> IF j = id THEN NewJob(n) ELSE jobs[j]],
          id,
          IF current_job_id \in live THEN current_job_id ELSE NoJob)
     /\ task' = [task EXCEPT ![id] =
                   [k \in Slots |-> IF k <= n THEN "running" ELSE "none"]]
     /\ Silent
     /\ UNCHANGED shell

(***************************************************************************)
(* A task ends by itself while the shell awaits.                           *)
(***************************************************************************)
Synchronous == shell.op \in {"poll", "sweep"}

TaskEnds(id, k, o) ==
  /\ ~Synchronous
  /\ task[id][k] = "running"
  /\ task' = [task EXCEPT ![id][k] = o]
  /\ Silent
  /\ UNCHANGED <<jobs, table, shell>>

-----------------------------------------------------------------------------
(***************************************************************************)
(* One job's front task, as ExecutionTask::wait and ::poll see it: a join  *)
(* handle awaited a second time yields a join error.                       *)
(***************************************************************************)
TasksEmpty(j) == jobs[j].head > jobs[j].size

Front(j) == LET t == task[j][jobs[j].head]
            IN IF t = "joined" THEN "error" ELSE t

ForgottenResult(j) == IF jobs[j].result = "none" THEN "none" ELSE "success"

StoredResult(j) == IF jobs[j].result = "none" THEN "success" ELSE jobs[j].result

PopFront(j) == [jobs EXCEPT ![j].head = @ + 1]

FailedJobOverrun(j) == [jobs EXCEPT ![j].head = jobs[j].size + 2, ![j].state = "Done"]

(* pop_front, cleanup_remaining_tasks, state = Done *)
FailedJob(j) == [jobs EXCEPT ![j].head = jobs[j].size + 1, ![j].state = "Done"]

LeftRunning(row) == row

Cancelled(row) == [k \in Slots |-> IF row[k] = "running" THEN "cancelled" ELSE row[k]]

CancelRest(j) == task' = [task EXCEPT ![j] = Cancelled(@)]

(* Of a job that has left the table only the tasks that still run matter. *)
Forgotten(row) == [k \in Slots |-> IF row[k] = "running" THEN "running" ELSE "none"]

Forget(j) == task' = [task EXCEPT ![j] = Forgotten(@)]

NextJob(j) == LET later == {i \in DOMAIN jobs : i > j}
              IN IF later = {} THEN NoJob
                 ELSE CHOOSE m \in later : \A x \in later : m <= x

At(op, j) == [op |-> op, at |-> j, got |-> "none"]

(***************************************************************************)
(* `wait %spec`: resolve_job_spec, then Job::wait.                         *)
(***************************************************************************)
Specs == [kind: {"current", "previous"}, id: {NoJob}]
           \union [kind: {"number"}, id: Ids]

resolve_job_spec(s) ==
  LET id == CASE s.kind = "current"  -> current_job_id
              [] s.kind = "previous" -> previous_job_id
              [] s.kind = "number"   -> s.id
  IN IF id \in DOMAIN jobs THEN id ELSE NoJob

Settled(j) == TasksEmpty(j) /\ jobs[j].state = "Done"

(* The job is unknown, or already done: `wait` answers at once. *)
WaitAnswered(s) ==
  LET j == resolve_job_spec(s)
  IN /\ shell = Idle
     /\ \/ j = NoJob /\ report' = NoSuchJob
        \/ j # NoJob /\ Settled(j) /\ report' = Reported(j, StoredResult(j))
     /\ UNCHANGED <<jobs, table, task, shell>>

WaitBegins(s) ==
  LET j == resolve_job_spec(s)
  IN /\ shell = Idle
     /\ j # NoJob
     /\ ~Settled(j)
     /\ shell' = At("wait", j)
     /\ Silent
     /\ UNCHANGED <<jobs, table, task>>

(* `wait` without operands: wait_all starts at the oldest job. *)
WaitAllBegins ==
  /\ shell = Idle
  /\ DOMAIN jobs # {}
  /\ shell' = At("wait_all", NextJob(NoJob))
  /\ Silent
  /\ UNCHANGED <<jobs, table, task>>

SweepAlways(j) ==
  IF shell.op = "wait" THEN shell
  ELSE IF NextJob(j) # NoJob THEN At("wait_all", NextJob(j))
       ELSE At("sweep", NextJob(NoJob))

(* wait_all goes on to the next job, and sweeps when there is none. *)
AfterJob(j) ==
  IF shell.op = "wait" THEN Idle
  ELSE IF NextJob(j) # NoJob THEN At("wait_all", NextJob(j))
       ELSE At("sweep", NextJob(NoJob))

Waiting == shell.op \in {"wait", "wait_all"}

(* wait_all meets a job that is already done. *)
WaitSkips ==
  /\ shell.op = "wait_all"
  /\ Settled(shell.at)
  /\ shell' = AfterJob(shell.at)
  /\ Silent
  /\ UNCHANGED <<jobs, table, task>>

(* The front task returned an exit code: pop it; the last one settles the job. *)
WaitTask ==
  LET j    == shell.at
      last == jobs[j].head = jobs[j].size
  IN /\ Waiting
     /\ ~TasksEmpty(j)
     /\ Front(j) \in Codes \ {"code148"}
     /\ jobs' = IF last
                THEN [PopFront(j) EXCEPT ![j].state = "Done", ![j].result = Front(j)]
                ELSE PopFront(j)
     /\ shell' = IF last THEN AfterJob(j) ELSE shell
     /\ report' = IF last /\ shell.op = "wait" THEN Reported(j, Front(j)) ELSE NoReport
     /\ UNCHANGED <<table, task>>

(* Exit code 148 reads as a stop: the finished task stays in the queue. *)
WaitStopped ==
  LET j == shell.at
  IN /\ Waiting
     /\ ~TasksEmpty(j)
     /\ Front(j) = "code148"
     /\ jobs' = [jobs EXCEPT ![j].state = "Stopped"]
     /\ task' = [task EXCEPT ![j][jobs[j].head] = "joined"]
     /\ shell' = AfterJob(j)
     /\ report' = IF shell.op = "wait" THEN Reported(j, "code148") ELSE NoReport
     /\ UNCHANGED table

(* The front task failed: the rest is cancelled and the error leaves `wait`. *)
WaitFails ==
  LET j == shell.at
  IN /\ Waiting
     /\ ~TasksEmpty(j)
     /\ Front(j) = "error"
     /\ jobs' = FailedJob(j)
     /\ CancelRest(j)
     /\ shell' = Idle
     /\ report' = Reported(j, "error")
     /\ UNCHANGED table

(* sweep_completed_jobs, one index of its loop. *)
SweepStep ==
  LET j == shell.at
      more == At(IF NextJob(j) = NoJob THEN "idle" ELSE "sweep", NextJob(j))
  IN /\ shell.op = "sweep"
     /\ \/ TasksEmpty(j) /\ remove_job(jobs, j) /\ Forget(j)
        \/ ~TasksEmpty(j) /\ UNCHANGED <<jobs, table, task>>
     /\ shell' = more
     /\ Silent

-----------------------------------------------------------------------------
(***************************************************************************)
(* JobManager::poll with Job::poll_done, one task of one job at a time.    *)
(***************************************************************************)
PollBegins ==
  /\ shell = Idle
  /\ DOMAIN jobs # {}
  /\ shell' = At("poll", NextJob(NoJob))
  /\ Silent
  /\ UNCHANGED <<jobs, table, task>>

PollOnlyFirst(j) == Idle

AfterPolled(j) == At(IF NextJob(j) = NoJob THEN "idle" ELSE "poll", NextJob(j))

(* A completed front task is popped and its result kept for the job. *)
PollPops ==
  LET j == shell.at
  IN /\ shell.op = "poll"
     /\ ~TasksEmpty(j)
     /\ Front(j) \in Codes
     /\ jobs' = PopFront(j)
     /\ shell' = [shell EXCEPT !.got = Front(j)]
     /\ Silent
     /\ UNCHANGED <<table, task>>

PollPending ==
  LET j == shell.at
  IN /\ shell.op = "poll"
     /\ ~TasksEmpty(j)
     /\ Front(j) = "running"
     /\ shell' = AfterPolled(j)
     /\ Silent
     /\ UNCHANGED <<jobs, table, task>>

PollFails ==
  LET j == shell.at
  IN /\ shell.op = "poll"
     /\ ~TasksEmpty(j)
     /\ Front(j) = "error"
     /\ task' = [task EXCEPT ![j] = Forgotten(Cancelled(@))]
     /\ remove_job(FailedJob(j), j)
     /\ report' = Reported(j, "error")
     /\ shell' = AfterPolled(j)

(* No task is left: the result is the one just polled, or the stored one. *)
PollDone ==
  LET j == shell.at
  IN /\ shell.op = "poll"
     /\ TasksEmpty(j)
     /\ remove_job(jobs, j)
     /\ report' = Reported(j, IF shell.got # "none" THEN shell.got ELSE StoredResult(j))
     /\ shell' = AfterPolled(j)
     /\ Forget(j)

-----------------------------------------------------------------------------
Init ==
  /\ jobs = EmptyTable
  /\ next_job_id = 1
  /\ current_job_id = NoJob
  /\ previous_job_id = NoJob
  /\ task = [id \in Ids |-> [k \in Slots |-> "none"]]
  /\ shell = Idle
  /\ report = NoReport

Environment == \E id \in Ids, k \in Slots, o \in Outcomes : TaskEnds(id, k, o)

Answer == WaitSkips \/ WaitTask \/ WaitStopped \/ WaitFails
Work   == SweepStep \/ PollPops \/ PollPending \/ PollFails \/ PollDone

Next ==
  \/ \E n \in Slots : add_as_current(n)
  \/ Environment
  \/ \E s \in Specs : WaitAnswered(s) \/ WaitBegins(s)
  \/ WaitAllBegins
  \/ PollBegins
  \/ Answer
  \/ Work

Spec == Init /\ [][Next]_vars

(***************************************************************************)
(* The executor runs the shell whenever what it awaits is ready, and the   *)
(* interactive loop comes back to its prompt, where it polls, again and    *)
(* again.  Nothing makes a background command end.                         *)
(***************************************************************************)
FairSpec == Spec /\ WF_vars(Answer) /\ WF_vars(Work) /\ SF_vars(PollBegins)

-----------------------------------------------------------------------------
(***************************************************************************)
(* Properties                                                              *)
(***************************************************************************)
TypeOK ==
  /\ DOMAIN jobs \subseteq Ids
  /\ \A j \in DOMAIN jobs : jobs[j] \in JobRecord
  /\ next_job_id \in 1 .. MaxJobs + 1
  /\ current_job_id \in Ids \union {NoJob}
  /\ previous_job_id \in Ids \union {NoJob}
  /\ task \in [Ids -> [Slots -> TaskStates]]
  /\ shell \in [op: {"idle", "wait", "wait_all", "poll", "sweep"},
                at: Ids \union {NoJob}, got: Codes \union {"none"}]
  /\ report \in [job: Ids \union {NoJob}, value: Outcomes \union {"none"},
                 truth: TaskStates]

(***************************************************************************)
(* However jobs come and go, the two patched fields name the newest job    *)
(* and the newest but one, and each job's `+` or `-` flag says the same    *)
(* (refresh_annotations, remove_job_at, add_as_current).                   *)
(***************************************************************************)
DesignatorsNameNewest ==
  LET live == DOMAIN jobs
  IN /\ current_job_id = Newest(live)
     /\ previous_job_id = Newest(live \ {current_job_id})
     /\ \A j \in live : jobs[j].annotation
                         = Annotation(j, current_job_id, previous_job_id)

(***************************************************************************)
(* A task that still runs can still be waited for: it is in the queue of a *)
(* job of the table.  An error in one stage cancels the stages behind it   *)
(* before their job forgets them (cleanup_remaining_tasks).                *)
(***************************************************************************)
NoOrphanTask ==
  \A j \in Ids, k \in Slots :
    task[j][k] = "running" =>
      j \in DOMAIN jobs /\ k \in jobs[j].head .. jobs[j].size

(***************************************************************************)
(* However often a job is waited for, by `wait %n`, a poll, or one after   *)
(* the other, each answer is the status of its last stage.  Jobs with an   *)
(* erroneous stage or a stage that exits 148 are the exceptions            *)
(* (ErrorNotForgotten below and the README).                               *)
(***************************************************************************)
ReportIsFinalStatus ==
  report.job # NoJob /\ report.truth \notin {"error", "code148"}
    => report.value = report.truth

(***************************************************************************)
(* The field comment of Job.completion_result calls it the final result of *)
(* a completed job, and JobTask::poll says errors are kept: no later       *)
(* answer should call a job that ended in an error a success.              *)
(***************************************************************************)
ErrorNotForgotten ==
  report.job # NoJob /\ report.truth = "error" => report.value # "success"

RunningTasks(j) == {k \in Slots : task[j][k] = "running"}

(***************************************************************************)
(* A job whose tasks have all ended leaves the table, unless the shell     *)
(* sits in a `wait` for a task that still runs: the prompt's poll or a     *)
(* sweep finds it whatever waits looked at it before.                      *)
(***************************************************************************)
FinishedJobsLeave ==
  \A j \in Ids :
    (j \in DOMAIN jobs /\ RunningTasks(j) = {})
      ~> (\/ j \notin DOMAIN jobs
          \/ Waiting /\ RunningTasks(shell.at) # {})

(***************************************************************************)
(* `wait` comes back once nothing it waits for runs any more.              *)
(***************************************************************************)
WaitReturns ==
  (Waiting /\ \A j \in DOMAIN jobs : RunningTasks(j) = {}) ~> (shell = Idle)

(***************************************************************************)
(* What makes the properties above inductive: the shell is only ever busy  *)
(* with a job of the table, numbers still to be given are unused, the      *)
(* stages of a job in the table are exactly its slots up to size, and a    *)
(* job that is gone, or a stage already popped, runs no more.              *)
(***************************************************************************)
BusyWithLiveJob == IF shell.op = "idle" THEN shell = Idle ELSE shell.at \in DOMAIN jobs

NumbersFresh == \A j \in DOMAIN jobs : j < next_job_id

StagesTracked ==
  \A j \in DOMAIN jobs, k \in Slots : task[j][k] # "none" <=> k <= jobs[j].size

JobsInv == /\ TypeOK
           /\ BusyWithLiveJob
           /\ NumbersFresh
           /\ StagesTracked
           /\ DesignatorsNameNewest
           /\ NoOrphanTask

(***************************************************************************)
(* The patched table implements the table of module JobTable.              *)
(***************************************************************************)
Table == INSTANCE JobTable WITH live <- DOMAIN jobs, next <- next_job_id,
                                newest <- current_job_id,
                                runnerUp <- previous_job_id

ImplementsTable == Table!TableSpec
=============================================================================
