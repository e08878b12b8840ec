--------------------------- MODULE ExecutionTask ---------------------------
(***************************************************************************)
(* A command and the process substitution producers it is given: how its   *)
(* owner waits for it, polls it, cancels it or drops it (ExecutionTask,    *)
(* ProcessSubstitutionTask and                                             *)
(* ExecutionSpawnResult::with_process_substitutions of                     *)
(* src/src/engine/results.rs).                                             *)
(*                                                                         *)
(* The command is either a task of its own ("task") or was executed in     *)
(* place and has completed before its producers are bound to it            *)
(* ("in_place").  Tasks run on the owner's thread: they end only where the *)
(* owner awaits, and a poll or a cancellation excludes them.               *)
(***************************************************************************)
EXTENDS Naturals, FiniteSets

CONSTANT Producers   \* bound: how many producers the command has

ASSUME ExecutionTaskAssumption == Producers \in Nat

VARIABLES
  form,        \* "task" or "in_place"
  handle,      \* the command's own future
  armed,       \* ExecutionTask.armed
  completion_result,
  process_substitution_error,  \* whose error is remembered, 0 if none
  producer,    \* the producers' futures, in the order of the list
  held,        \* the producers whose state still holds its task
  owner,       \* what the owner is doing, and at which producer
  answer       \* what the owner was told: whose error, or an outcome

vars == <<form, handle, armed, completion_result, process_substitution_error,
          producer, held, owner, answer>>

Ids == 1 .. Producers

Outcomes == {"success", "failure", "error"}

NoError == 0

(* An outcome of the command, or the error of the producer with a number. *)
Told(value, by) == [value |-> value, by |-> by]
NoAnswer == Told("none", NoError)

First(S) == IF S = {} THEN NoError
            ELSE CHOOSE i \in S : \A j \in S : i <= j

(* The error kept is the one seen first. *)
Keep(kept, i) == IF kept # NoError THEN kept ELSE i

Idle == [doing |-> "idle", at |-> NoError]
Gone == [doing |-> "gone", at |-> NoError]

-----------------------------------------------------------------------------
(***************************************************************************)
(* Cancelling a producer: its task is taken and dropped, so its future is  *)
(* not polled again.  One that has ended is not affected.                  *)
(***************************************************************************)
CancelledIn(S) ==
  [i \in Ids |-> IF i \in S /\ producer[i] = "running" THEN "cancelled" ELSE producer[i]]

CancelNone == UNCHANGED producer

(* The producers still bound to the command, the one being awaited too.    *)
cancel_process_substitutions ==
  producer' = CancelledIn(held \union ({owner.at} \ {NoError}))

Answered(value, by) ==
  /\ answer' = Told(value, by)
  /\ owner' = Gone

(* The command failed: nobody reads what the producers write. *)
Failed(result) ==
  /\ cancel_process_substitutions
  /\ held' = {}
  /\ process_substitution_error' = NoError
  /\ completion_result' = "none"
  /\ Answered(result, NoError)

-----------------------------------------------------------------------------
(* A task ends while the owner is not running. *)
CommandEnds(o) ==
  /\ handle = "running"
  /\ handle' = o
  /\ UNCHANGED <<form, armed, completion_result, process_substitution_error,
                 producer, held, owner, answer>>

ProducerEnds(i, o) ==
  /\ producer[i] = "running"
  /\ producer' = [producer EXCEPT ![i] = o]
  /\ UNCHANGED <<form, handle, armed, completion_result,
                 process_substitution_error, held, owner, answer>>

-----------------------------------------------------------------------------
(***************************************************************************)
(* ExecutionTask::poll.  It looks at the producers in order up to the      *)
(* first one still running, whose turn comes again with the next poll; the *)
(* ones that ended give up their task, which is dropped, so an error is    *)
(* seen only once and is kept for the next call.                           *)
(***************************************************************************)
HandleOnly == IF armed THEN handle ELSE "running"

Completed == IF completion_result = "none" THEN handle ELSE completion_result

Pending == First({i \in held : producer[i] = "running"})

TakenTooSoon == held

Passed == IF Pending = NoError THEN held ELSE {i \in held : i < Pending}

Erred(S) == First({i \in S : producer[i] = "error"})

ForgottenBetweenPolls == Erred(Passed)

Remembered == IF process_substitution_error # NoError
              THEN process_substitution_error ELSE Erred(Passed)

PollPending ==
  /\ Pending # NoError
  /\ producer' = CancelledIn(Passed)
  /\ held' = held \ Passed
  /\ process_substitution_error' = Remembered
  /\ completion_result' = "success"
  /\ UNCHANGED <<owner, answer>>

PollDone ==
  /\ Pending = NoError
  /\ producer' = CancelledIn(Passed)
  /\ held' = {}
  /\ process_substitution_error' = NoError
  /\ IF Remembered = NoError
     THEN completion_result' = "none" /\ Answered("success", NoError)
     ELSE completion_result' = "success" /\ Answered("error", Remembered)

Poll ==
  /\ owner = Idle
  /\ form = "task"
  /\ Completed \in Outcomes
  /\ armed' = FALSE
  /\ IF Completed = "success"
     THEN PollPending \/ PollDone
     ELSE Failed(Completed)
  /\ UNCHANGED <<form, handle>>

-----------------------------------------------------------------------------
(* ExecutionTask::wait, up to the command's own result. *)
WaitBegins ==
  /\ owner = Idle
  /\ owner' = [doing |-> "joining", at |-> NoError]
  /\ UNCHANGED <<form, handle, armed, completion_result,
                 process_substitution_error, producer, held, answer>>

Draining(at) == [doing |-> "draining", at |-> at]

TakePast(S) == Draining(First(S) + 1)

(* The producers are awaited in the order of the list. *)
TakeNext(S) == Draining(First(S))

(***************************************************************************)
(* The command has ended.  With success its producers are awaited, in      *)
(* place too; with a failure they are cancelled.                           *)
(***************************************************************************)
Joined ==
  /\ owner.doing = "joining"
  /\ Completed \in Outcomes
  /\ armed' = IF completion_result = "none" THEN FALSE ELSE armed
  /\ IF Completed = "success"
     THEN /\ completion_result' = "none"
          /\ owner' = TakeNext(held)
          /\ held' = held \ {First(held)}
          /\ UNCHANGED <<producer, process_substitution_error, answer>>
     ELSE Failed(Completed)
  /\ UNCHANGED <<form, handle>>

(* A task waits for every producer and reports the first error.            *)
ProducerJoined ==
  /\ owner.doing = "draining"
  /\ owner.at # NoError
  /\ form = "task" \/ producer[owner.at] # "error"
  /\ producer[owner.at] \in Outcomes
  /\ process_substitution_error' =
       IF producer[owner.at] = "error" THEN Keep(process_substitution_error, owner.at)
       ELSE process_substitution_error
  /\ owner' = TakeNext(held)
  /\ held' = held \ {First(held)}
  /\ UNCHANGED <<form, handle, armed, completion_result, producer, answer>>

(* In place, the first error ends the loop and drops the other producers.  *)
ProducerErred ==
  /\ owner.doing = "draining"
  /\ owner.at # NoError
  /\ form = "in_place"
  /\ producer[owner.at] = "error"
  /\ producer' = CancelledIn(held)
  /\ held' = {}
  /\ Answered("error", owner.at)
  /\ UNCHANGED <<form, handle, armed, completion_result, process_substitution_error>>

Drained ==
  /\ owner = Draining(NoError)
  /\ process_substitution_error' = NoError
  /\ IF process_substitution_error = NoError
     THEN Answered("success", NoError)
     ELSE Answered("error", process_substitution_error)
  /\ UNCHANGED <<form, handle, armed, completion_result, producer, held>>

-----------------------------------------------------------------------------
(***************************************************************************)
(* ExecutionTask::cancel by an owner that is not waiting, and the drop of  *)
(* the task or of the future that waits for it: the handle goes with it.   *)
(***************************************************************************)
HandleDropped == handle' = IF handle = "running" THEN "cancelled" ELSE handle

Dropped ==
  /\ owner.doing \in {"idle", "joining", "draining"}
  /\ HandleDropped
  /\ armed' = FALSE
  /\ cancel_process_substitutions
  /\ held' = {}
  /\ owner' = Gone
  /\ UNCHANGED <<form, completion_result, process_substitution_error, answer>>

-----------------------------------------------------------------------------
(* In place, the command ran before its owner had anything to wait for.    *)
Init ==
  /\ form \in {"task", "in_place"}
  /\ handle \in IF form = "task" THEN {"running"} ELSE Outcomes
  /\ armed = (form = "task")
  /\ completion_result = "none"
  /\ process_substitution_error = NoError
  /\ producer \in [Ids -> {"running"} \union Outcomes]
  /\ held = Ids
  /\ owner = IF form = "task" THEN Idle ELSE [doing |-> "joining", at |-> NoError]
  /\ answer = NoAnswer

Ends == \/ \E o \in Outcomes : CommandEnds(o)
        \/ \E i \in Ids, o \in Outcomes : ProducerEnds(i, o)

Waits == Joined \/ ProducerJoined \/ ProducerErred \/ Drained

Next == Ends \/ Poll \/ WaitBegins \/ Waits \/ Dropped

Spec == Init /\ [][Next]_vars

(* The executor resumes an owner whose task has ended. *)
FairSpec == Spec /\ WF_vars(Waits)

-----------------------------------------------------------------------------
TypeOK ==
  /\ form \in {"task", "in_place"}
  /\ handle \in {"running", "cancelled"} \union Outcomes
  /\ armed \in BOOLEAN
  /\ completion_result \in {"none"} \union Outcomes
  /\ process_substitution_error \in Ids \union {NoError}
  /\ producer \in [Ids -> {"running", "cancelled"} \union Outcomes]
  /\ held \in SUBSET Ids
  /\ owner \in [doing: {"idle", "joining", "draining", "gone"}, at: Ids \union {NoError}]
  /\ answer \in [value: Outcomes \union {"none"}, by: Ids \union {NoError}]

(***************************************************************************)
(* A producer shares the lifetime of the command that reads it: once the   *)
(* owner has its answer or has let go of the command, neither the command  *)
(* nor any of its producers is running, whichever way it came to that      *)
(* (ExecutionTask's Drop, cancel, wait and poll; the early return of       *)
(* with_process_substitutions).                                            *)
(***************************************************************************)
NoneOutlives ==
  owner = Gone =>
    /\ handle # "running"
    /\ \A i \in Ids : producer[i] # "running"

(* What the command and its producers add up to, whoever asks and when.    *)
TrueAnswer ==
  IF handle # "success" THEN Told(handle, NoError)
  ELSE IF Erred(Ids) # NoError THEN Told("error", Erred(Ids))
       ELSE Told("success", NoError)

(***************************************************************************)
(* The answer does not depend on how it was asked for: any number of polls *)
(* followed by a wait, or none, gives the command's own failure, else the  *)
(* error of the first producer in the list that had one, else success.     *)
(***************************************************************************)
AnswerIsTrue == answer # NoAnswer => answer = TrueAnswer

(***************************************************************************)
(* Nothing a successful command still reads is cut off: a producer is      *)
(* cancelled only when its command failed, when an earlier producer's      *)
(* error has made the answer, or when the owner was dropped.               *)
(***************************************************************************)
CutOffOnlyWhenUnread ==
  [][\A i \in Ids : producer[i] = "running" /\ producer'[i] = "cancelled" =>
       \/ handle' \in {"failure", "error"}
       \/ answer'.value = "error" /\ answer'.by < i
       \/ answer' = NoAnswer /\ owner' = Gone]_vars

(***************************************************************************)
(* A wait ends: when the command and its producers all end, whoever waits  *)
(* for them is answered or was dropped.                                    *)
(***************************************************************************)
AllEnded == handle # "running" /\ \A i \in Ids : producer[i] # "running"

WaitAnswered == owner.doing \in {"joining", "draining"} /\ AllEnded ~> owner = Gone
=============================================================================
