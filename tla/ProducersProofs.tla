-------------------------- MODULE ProducersProofs --------------------------
(***************************************************************************)
(* Proofs about the producers of process substitutions.  For any number of *)
(* them: neither a command nor a producer of it outlives its owner's       *)
(* interest, and what the owner is told does not depend on how it asked    *)
(* (ExecutionTask).  For any nesting of commands as well: none is kept     *)
(* twice, and unless commands mix none is cut off while it may be read     *)
(* (ProcessSubstitution).                                                  *)
(***************************************************************************)
EXTENDS ExecutionTask, ProcessSubstitution, NatFacts, SequenceTheorems, FiniteSetTheorems

-----------------------------------------------------------------------------
(* The owner of one command.                                               *)
USE ExecutionTaskAssumption

(* x is what First(S) should be. *)
IsFirst(x, S) == \/ S = {} /\ x = NoError
                 \/ x \in S /\ \A y \in S : x <= y

Errors(S) == {i \in S : producer[i] = "error"}

(* The producers whose turn has not passed, and the others. *)
Awaiting == held \union ({owner.at} \ {NoError})
Done == Ids \ Awaiting

OwnerInv ==
  /\ owner.doing \in {"idle", "joining", "gone"} => owner.at = NoError
  /\ owner.at \notin held
  /\ owner.doing = "draining" =>
       /\ handle = "success"
       /\ owner.at = NoError => held = {}
       /\ \A i \in held : owner.at < i

HandleInv ==
  /\ completion_result \in {"none", "success"}
  /\ completion_result = "success" => handle = "success"
  /\ handle = "cancelled" => owner = Gone
  /\ form = "in_place" => handle # "running"

(* The producers are passed in order, and the first error is kept.         *)
OrderInv ==
  owner # Gone =>
    /\ \A i \in Ids : producer[i] # "cancelled"
    /\ \A i \in Done : producer[i] # "running"
    /\ \A i \in Done, j \in Awaiting : i < j
    /\ IsFirst(process_substitution_error, Errors(Done))
    /\ form = "in_place" => process_substitution_error = NoError /\ owner # Idle
    /\ answer = NoAnswer

TaskInv == TypeOK /\ OwnerInv /\ HandleInv /\ OrderInv /\ NoneOutlives /\ AnswerIsTrue

-----------------------------------------------------------------------------
LEMMA IdsNat == Ids \subseteq Nat /\ NoError \notin Ids
  BY DEF Ids, NoError

LEMMA FirstIs ==
  ASSUME NEW S \in SUBSET Ids, NEW x
  PROVE  IsFirst(x, S) <=> x = First(S)
<1>1. CASE S = {}
  BY <1>1 DEF IsFirst, First
<1>2. CASE S # {}
  <2>1. \E m \in S : \A y \in S : m <= y
    BY <1>2, IdsNat, LeastExists
  <2>2. First(S) \in S /\ \A y \in S : First(S) <= y
    BY <1>2, <2>1 DEF First
  <2>3. S \subseteq Nat
    BY IdsNat
  <2>4. ASSUME x \in S, \A y \in S : x <= y
        PROVE  x = First(S)
    <3>1. PICK f \in Nat : f = First(S)
      BY <2>2, <2>3
    <3>2. x \in Nat /\ x <= f /\ f <= x
      BY <2>2, <2>3, <2>4, <3>1
    <3>3. x = f
      BY <3>2
    <3> QED
      BY <3>1, <3>3
  <2> QED
    BY <1>2, <2>2, <2>4 DEF IsFirst
<1> QED
  BY <1>1, <1>2

LEMMA FirstIn ==
  ASSUME NEW S \in SUBSET Ids
  PROVE  /\ S = {} <=> First(S) = NoError
         /\ S # {} => First(S) \in S
         /\ \A y \in S : First(S) <= y
<1>1. IsFirst(First(S), S)
  BY FirstIs
<1> QED
  BY <1>1, IdsNat DEF IsFirst

(* The first of two sets, all of one before all of the other. *)
LEMMA FirstOfBoth ==
  ASSUME NEW S \in SUBSET Ids, NEW T \in SUBSET Ids, NEW x, IsFirst(x, S),
         \A i \in S, j \in T : i < j
  PROVE  IsFirst(IF x # NoError THEN x ELSE First(T), S \union T)
<1>1. /\ T = {} <=> First(T) = NoError
      /\ T # {} => First(T) \in T
      /\ \A y \in T : First(T) <= y
  BY FirstIn
<1>2. CASE S = {}
  BY <1>1, <1>2 DEF IsFirst
<1>3. CASE S # {}
  <2>1. x \in S /\ x # NoError /\ \A y \in S : x <= y
    BY <1>3, IdsNat DEF IsFirst
  <2>2. \A y \in T : x <= y
    BY <2>1, IdsNat
  <2> QED
    BY <2>1, <2>2 DEF IsFirst
<1> QED
  BY <1>2, <1>3

LEMMA InitInv == Init => TaskInv
<1> SUFFICES ASSUME Init
             PROVE  TaskInv
  OBVIOUS
<1>1. Awaiting = Ids /\ Done = {}
  BY IdsNat DEF Init, Awaiting, Done, Idle
<1>2. TypeOK
  BY DEF Init, TypeOK, Idle, NoAnswer, Told, Outcomes
<1>3. OwnerInv /\ HandleInv
  BY IdsNat DEF Init, OwnerInv, HandleInv, Idle, Outcomes
<1>4. OrderInv
  BY <1>1 DEF Init, OrderInv, Outcomes, Errors, IsFirst, Idle
<1>5. NoneOutlives /\ AnswerIsTrue
  BY DEF Init, NoneOutlives, AnswerIsTrue, Idle, Gone
<1> QED
  BY <1>2, <1>3, <1>4, <1>5 DEF TaskInv

-----------------------------------------------------------------------------
(* What cancelling does to the producers, and does not. *)
LEMMA CancelledInIs ==
  ASSUME TypeOK, NEW S \in SUBSET Ids
  PROVE  /\ CancelledIn(S) \in [Ids -> {"running", "cancelled"} \union Outcomes]
         /\ \A i \in Ids : (CancelledIn(S)[i] = "error") <=> (producer[i] = "error")
         /\ \A i \in S : CancelledIn(S)[i] # "running"
         /\ \A i \in Ids : CancelledIn(S)[i] = "running" => producer[i] = "running"
         /\ (\A i \in S : producer[i] # "running") => CancelledIn(S) = producer
<1>1. producer \in [Ids -> {"running", "cancelled"} \union Outcomes]
  BY DEF TypeOK
<1>2. \A i \in Ids : CancelledIn(S)[i] = IF i \in S /\ producer[i] = "running"
                                         THEN "cancelled" ELSE producer[i]
  BY DEF CancelledIn
<1>3. CancelledIn(S) \in [Ids -> {"running", "cancelled"} \union Outcomes]
  BY <1>1 DEF CancelledIn
<1>4. ASSUME \A i \in S : producer[i] # "running"
      PROVE  CancelledIn(S) = producer
  BY <1>1, <1>2, <1>3, <1>4
<1> QED
  BY <1>2, <1>3, <1>4

LEMMA AwaitingIds == TypeOK => Awaiting \in SUBSET Ids
  BY DEF TypeOK, Awaiting

(* Every producer is one whose turn has passed or has not. *)
LEMMA CancelAwaiting ==
  ASSUME TypeOK, OrderInv, owner # Gone
  PROVE  \A i \in Ids : CancelledIn(Awaiting)[i] # "running"
  BY AwaitingIds, CancelledInIs DEF OrderInv, Done

(* What is left to show when the owner is done with the command. *)
LEMMA GoneInv ==
  ASSUME TypeOK', HandleInv', owner' = Gone, handle' # "running",
         \A i \in Ids : producer'[i] # "running",
         answer' = NoAnswer \/ answer' = TrueAnswer'
  PROVE  TaskInv'
<1>1. OwnerInv'
  <2>1. owner'.doing = "gone" /\ owner'.at = NoError
    BY DEF Gone
  <2>2. owner'.at \notin held'
    BY <2>1, IdsNat DEF TypeOK
  <2> QED
    BY <2>1, <2>2 DEF OwnerInv
<1>2. OrderInv'
  BY DEF OrderInv
<1>3. NoneOutlives' /\ AnswerIsTrue'
  BY DEF NoneOutlives, AnswerIsTrue
<1> QED
  BY <1>1, <1>2, <1>3 DEF TaskInv

-----------------------------------------------------------------------------
LEMMA CommandEndsInv ==
  ASSUME TaskInv, NEW o \in Outcomes, CommandEnds(o)
  PROVE  TaskInv'
<1> USE DEF TaskInv
<1>1. owner # Gone /\ handle = "running"
  BY DEF CommandEnds, NoneOutlives
<1>2. TypeOK'
  BY DEF CommandEnds, TypeOK
<1>3. /\ owner.doing # "draining"
      /\ completion_result = "none"
      /\ form # "in_place"
  BY <1>1 DEF OwnerInv, HandleInv
<1>4. OwnerInv'
  BY <1>3 DEF CommandEnds, OwnerInv
<1>5. HandleInv'
  BY <1>3 DEF CommandEnds, HandleInv, Outcomes
<1>6. Awaiting' = Awaiting /\ Done' = Done
  BY DEF CommandEnds, Awaiting, Done
<1>7. Errors(Done)' = Errors(Done)
  BY <1>6 DEF CommandEnds, Errors
<1>8. OrderInv'
  BY <1>1, <1>6, <1>7 DEF CommandEnds, OrderInv, IsFirst
<1>9. NoneOutlives' /\ AnswerIsTrue'
  BY <1>1 DEF CommandEnds, NoneOutlives, AnswerIsTrue, OrderInv
<1> QED
  BY <1>2, <1>4, <1>5, <1>8, <1>9

LEMMA ProducerEndsInv ==
  ASSUME TaskInv, NEW i \in Ids, NEW o \in Outcomes, ProducerEnds(i, o)
  PROVE  TaskInv'
<1> USE DEF TaskInv
<1>1. owner # Gone
  BY DEF ProducerEnds, NoneOutlives
<1>2. TypeOK'
  BY DEF ProducerEnds, TypeOK
<1>3. OwnerInv' /\ HandleInv'
  BY DEF ProducerEnds, OwnerInv, HandleInv
<1>4. Awaiting' = Awaiting /\ Done' = Done
  BY DEF ProducerEnds, Awaiting, Done
<1>5. i \notin Done
  BY <1>1 DEF ProducerEnds, OrderInv
<1>6. /\ producer'[i] = o
      /\ \A j \in Ids : j # i => producer'[j] = producer[j]
  BY DEF ProducerEnds, TypeOK
<1>7. Errors(Done)' = Errors(Done)
  BY <1>4, <1>5, <1>6 DEF Errors, Done
<1>8. \A j \in Ids : producer'[j] # "cancelled"
  BY <1>1, <1>6 DEF OrderInv, Outcomes
<1>9. \A j \in Done : producer'[j] # "running"
  BY <1>1, <1>5, <1>6 DEF OrderInv, Done
<1>10. OrderInv'
  BY <1>1, <1>4, <1>7, <1>8, <1>9 DEF ProducerEnds, OrderInv, IsFirst
<1>11. NoneOutlives' /\ AnswerIsTrue'
  BY <1>1 DEF ProducerEnds, NoneOutlives, AnswerIsTrue, OrderInv
<1> QED
  BY <1>2, <1>3, <1>10, <1>11

-----------------------------------------------------------------------------
(* The owner gives up on a command that failed, or lets go of it. *)
LEMMA FailedInv ==
  ASSUME TaskInv, owner # Gone, handle' = handle, form' = form, armed' \in BOOLEAN,
         NEW o \in {"failure", "error"}, Completed = o, Failed(o)
  PROVE  TaskInv'
<1> USE DEF TaskInv
<1>1. producer' = CancelledIn(Awaiting)
  BY DEF Failed, cancel_process_substitutions, Awaiting
<1>2. /\ producer' \in [Ids -> {"running", "cancelled"} \union Outcomes]
      /\ \A i \in Ids : producer'[i] # "running"
  BY <1>1, AwaitingIds, CancelledInIs, CancelAwaiting
<1>3. handle = o
  BY DEF Completed, HandleInv
<1>4. /\ held' = {} /\ process_substitution_error' = NoError
      /\ completion_result' = "none" /\ owner' = Gone
      /\ answer' = Told(o, NoError)
  BY DEF Failed, Answered
<1>5. TypeOK'
  BY <1>2, <1>4 DEF TypeOK, Gone, Told, Outcomes
<1>6. HandleInv'
  BY <1>3, <1>4 DEF HandleInv
<1>7. answer' = TrueAnswer'
  BY <1>3, <1>4 DEF TrueAnswer
<1> QED
  BY <1>2, <1>3, <1>4, <1>5, <1>6, <1>7, GoneInv

(* A poll passes the producers before the first one still running. *)
LEMMA PassedIs ==
  ASSUME TypeOK
  PROVE  /\ Pending \in Ids \union {NoError}
         /\ Passed \in SUBSET held
         /\ \A i \in Passed : producer[i] # "running"
         /\ Pending = NoError => Passed = held
         /\ \A i \in Passed, j \in held \ Passed : i < j
<1>1. held \in SUBSET Ids
  BY DEF TypeOK
<1> DEFINE R == {i \in held : producer[i] = "running"}
<1>2. /\ R = {} <=> First(R) = NoError
      /\ R # {} => First(R) \in R
      /\ \A y \in R : First(R) <= y
  BY <1>1, FirstIn
<1>3. Pending = First(R)
  BY DEF Pending
<1> HIDE DEF R
<1>4. \A i \in held : (i \in R) <=> (producer[i] = "running")
  BY DEF R
<1>5. R \subseteq held
  BY DEF R
<1>6. CASE Pending = NoError
  BY <1>1, <1>2, <1>3, <1>4, <1>5, <1>6 DEF Passed
<1>7. CASE Pending # NoError
  <2>1. Pending \in held /\ Pending \in Nat
    BY <1>1, <1>2, <1>3, <1>5, <1>7, IdsNat
  <2>2. Passed = {i \in held : i < Pending}
    BY <1>7 DEF Passed
  <2>3. held \subseteq Nat
    BY <1>1, IdsNat
  <2>4. \A i \in Passed : i \notin R
    BY <1>2, <1>3, <2>1, <2>2, <2>3
  <2>5. \A i \in Passed, j \in held \ Passed : i < j
    BY <2>1, <2>2, <2>3
  <2> QED
    BY <1>1, <1>4, <1>7, <2>1, <2>2, <2>4, <2>5
<1> QED
  BY <1>6, <1>7

(* What it remembers is the first error of those it has passed so far. *)
LEMMA RememberedIs ==
  ASSUME TypeOK, OwnerInv, OrderInv, owner = Idle
  PROVE  /\ Awaiting = held
         /\ Remembered \in Ids \union {NoError}
         /\ IsFirst(Remembered, Errors(Done \union Passed))
<1>1. owner # Gone /\ owner.at = NoError
  BY DEF Idle, Gone
<1>2. Awaiting = held
  BY <1>1, IdsNat DEF TypeOK, Awaiting
<1>3. Errors(Done) \in SUBSET Ids /\ Errors(Passed) \in SUBSET Ids
  BY PassedIs DEF Errors, Done, TypeOK
<1>4. \A i \in Errors(Done), j \in Errors(Passed) : i < j
  BY <1>1, <1>2, PassedIs DEF OrderInv, Errors
<1>5. IsFirst(process_substitution_error, Errors(Done))
  BY <1>1 DEF OrderInv
<1>6. Erred(Passed) = First(Errors(Passed))
  BY DEF Erred, Errors
<1>7. Remembered = IF process_substitution_error # NoError
                   THEN process_substitution_error ELSE First(Errors(Passed))
  BY <1>6 DEF Remembered
<1>8. IsFirst(Remembered, Errors(Done) \union Errors(Passed))
  BY <1>3, <1>4, <1>5, <1>7, FirstOfBoth
<1>9. Errors(Done \union Passed) = Errors(Done) \union Errors(Passed)
  BY DEF Errors
<1>10. Remembered \in Ids \union {NoError}
  BY <1>3, <1>8 DEF IsFirst
<1> QED
  BY <1>2, <1>8, <1>9, <1>10

LEMMA PollPendingInv ==
  ASSUME TaskInv, owner = Idle, handle = "success", armed' = FALSE,
         form' = form, handle' = handle, form = "task", PollPending
  PROVE  TaskInv'
<1> USE DEF TaskInv
<1>1. /\ Passed \in SUBSET held
      /\ \A i \in Passed : producer[i] # "running"
      /\ \A i \in Passed, j \in held \ Passed : i < j
  BY PassedIs
<1>2. /\ Awaiting = held
      /\ Remembered \in Ids \union {NoError}
      /\ IsFirst(Remembered, Errors(Done \union Passed))
  BY RememberedIs
<1>3. producer' = producer
  BY <1>1, CancelledInIs DEF PollPending, TypeOK
<1>4. /\ held' = held \ Passed
      /\ process_substitution_error' = Remembered
      /\ completion_result' = "success"
      /\ owner' = owner /\ answer' = answer
  BY DEF PollPending
<1>5. TypeOK'
  BY <1>2, <1>3, <1>4 DEF TypeOK, Outcomes
<1>6. owner.at = NoError /\ owner.doing = "idle" /\ owner # Gone
  BY DEF Idle, Gone
<1>7. OwnerInv'
  BY <1>4, <1>6 DEF OwnerInv
<1>8. HandleInv'
  BY <1>4 DEF HandleInv
<1>9. Awaiting' = held \ Passed /\ Done' = Done \union Passed
  BY <1>1, <1>2, <1>4, <1>6 DEF Awaiting, Done, TypeOK
<1>10. Errors(Done)' = Errors(Done \union Passed)
  BY <1>3, <1>9 DEF Errors
<1>11. OrderInv'
  <2>1. IsFirst(process_substitution_error, Errors(Done))'
    BY <1>2, <1>4, <1>10 DEF IsFirst
  <2>2. \A i \in Done', j \in Awaiting' : i < j
    BY <1>1, <1>2, <1>6, <1>9 DEF OrderInv
  <2>3. \A i \in Done' : producer'[i] # "running"
    BY <1>1, <1>3, <1>6, <1>9 DEF OrderInv
  <2> QED
    BY <1>3, <1>4, <1>6, <2>1, <2>2, <2>3 DEF OrderInv
<1>12. NoneOutlives' /\ AnswerIsTrue'
  BY <1>4, <1>6 DEF NoneOutlives, AnswerIsTrue, OrderInv
<1> QED
  BY <1>5, <1>7, <1>8, <1>11, <1>12

LEMMA PollDoneInv ==
  ASSUME TaskInv, owner = Idle, handle = "success", armed' = FALSE,
         form' = form, handle' = handle, PollDone
  PROVE  TaskInv'
<1> USE DEF TaskInv
<1>1. Pending = NoError
  BY DEF PollDone
<1>2. Passed = held /\ (\A i \in held : producer[i] # "running")
  BY <1>1, PassedIs
<1>3. /\ Awaiting = held
      /\ Remembered \in Ids \union {NoError}
      /\ IsFirst(Remembered, Errors(Done \union held))
  BY <1>2, RememberedIs
<1>4. producer' = producer
  BY <1>2, CancelledInIs DEF PollDone, TypeOK
<1>5. owner # Gone /\ Done \union held = Ids
  BY <1>3 DEF Idle, Gone, Done, TypeOK
<1>6. \A i \in Ids : producer[i] # "running"
  BY <1>2, <1>5 DEF OrderInv
<1>7. Remembered = Erred(Ids)
  <2>1. Errors(Ids) \in SUBSET Ids /\ Erred(Ids) = First(Errors(Ids))
    BY DEF Errors, Erred
  <2> QED
    BY <1>3, <1>5, <2>1, FirstIs
<1>8. /\ held' = {} /\ process_substitution_error' = NoError
      /\ owner' = Gone
      /\ completion_result' \in {"none", "success"}
      /\ answer' = IF Remembered = NoError THEN Told("success", NoError)
                   ELSE Told("error", Remembered)
  BY DEF PollDone, Answered
<1>9. TypeOK'
  BY <1>3, <1>4, <1>8 DEF TypeOK, Gone, Told, Outcomes
<1>10. HandleInv'
  BY <1>8 DEF HandleInv
<1>11. answer' = TrueAnswer'
  BY <1>4, <1>7, <1>8 DEF TrueAnswer, Erred
<1> QED
  BY <1>4, <1>6, <1>8, <1>9, <1>10, <1>11, GoneInv

LEMMA PollInv ==
  ASSUME TaskInv, Poll
  PROVE  TaskInv'
<1>1. /\ owner = Idle /\ owner # Gone /\ form = "task"
      /\ armed' = FALSE /\ form' = form /\ handle' = handle
      /\ Completed \in Outcomes
  BY DEF Poll, Idle, Gone
<1>2. CASE Completed = "success"
  <2>1. handle = "success"
    BY <1>2 DEF Completed, TaskInv, HandleInv
  <2>2. PollPending \/ PollDone
    BY <1>2 DEF Poll
  <2> QED
    BY <1>1, <2>1, <2>2, PollPendingInv, PollDoneInv
<1>3. CASE Completed # "success"
  <2>1. Failed(Completed) /\ Completed \in {"failure", "error"}
    BY <1>1, <1>3 DEF Poll, Outcomes
  <2> QED
    BY <1>1, <2>1, FailedInv
<1> QED
  BY <1>2, <1>3

-----------------------------------------------------------------------------
LEMMA WaitBeginsInv ==
  ASSUME TaskInv, WaitBegins
  PROVE  TaskInv'
<1> USE DEF TaskInv
<1>1. /\ owner.doing = "idle" /\ owner.at = NoError /\ owner # Gone
      /\ owner'.doing = "joining" /\ owner'.at = NoError
      /\ owner' # Gone /\ owner' # Idle
  BY DEF WaitBegins, Idle, Gone
<1>2. TypeOK'
  BY DEF WaitBegins, TypeOK
<1>3. OwnerInv'
  BY <1>1 DEF WaitBegins, OwnerInv
<1>4. HandleInv'
  BY <1>1 DEF WaitBegins, HandleInv
<1>5. Awaiting' = Awaiting /\ Done' = Done
  BY <1>1 DEF WaitBegins, Awaiting, Done
<1>6. Errors(Done)' = Errors(Done)
  BY <1>5 DEF WaitBegins, Errors
<1>7. OrderInv'
  BY <1>1, <1>5, <1>6 DEF WaitBegins, OrderInv, IsFirst
<1>8. NoneOutlives' /\ AnswerIsTrue'
  BY <1>1 DEF WaitBegins, NoneOutlives, AnswerIsTrue, OrderInv
<1> QED
  BY <1>2, <1>3, <1>4, <1>7, <1>8

(* The owner turns to the next producer of the list. *)
LEMMA TakenIs ==
  ASSUME TypeOK, owner' = TakeNext(held), held' = held \ {First(held)}
  PROVE  /\ owner'.doing = "draining"
         /\ owner' # Gone /\ owner' # Idle
         /\ owner' \in [doing: {"draining"}, at: Ids \union {NoError}]
         /\ held' \in SUBSET Ids
         /\ Awaiting' = held
         /\ owner'.at \notin held'
         /\ owner'.at = NoError => held' = {}
         /\ \A i \in held' : owner'.at < i
<1>1. held \in SUBSET Ids
  BY DEF TypeOK
<1>2. /\ held = {} <=> First(held) = NoError
      /\ held # {} => First(held) \in held
      /\ \A y \in held : First(held) <= y
  BY <1>1, FirstIn
<1>3. owner'.doing = "draining" /\ owner'.at = First(held)
  BY DEF TakeNext, Draining
<1>4. owner' = [doing |-> "draining", at |-> First(held)]
  BY DEF TakeNext, Draining
<1>5. \A i \in held' : owner'.at < i
  <2> SUFFICES ASSUME NEW i \in held'
               PROVE  First(held) < i
    BY <1>3
  <2>1. i \in held /\ i # First(held) /\ First(held) <= i
    BY <1>2
  <2>2. i \in Nat /\ First(held) \in Nat
    BY <1>1, <1>2, <2>1, IdsNat
  <2> QED
    BY <2>1, <2>2
<1>6. Awaiting' = held
  BY <1>2, <1>3 DEF Awaiting
<1>7. First(held) \in Ids \union {NoError}
  BY <1>1, <1>2
<1>8. owner' \in [doing: {"draining"}, at: Ids \union {NoError}]
  BY <1>4, <1>7
<1>9. owner' # Gone /\ owner' # Idle
  BY <1>4 DEF Gone, Idle
<1>10. held' \in SUBSET Ids
  BY <1>1
<1>11. owner'.at \notin held' /\ (owner'.at = NoError => held' = {})
  BY <1>2, <1>3
<1> QED
  BY <1>3, <1>5, <1>6, <1>8, <1>9, <1>10, <1>11

LEMMA JoinedInv ==
  ASSUME TaskInv, Joined
  PROVE  TaskInv'
<1>1. /\ owner.doing = "joining" /\ owner # Gone
      /\ form' = form /\ handle' = handle
      /\ Completed \in Outcomes
      /\ armed' \in BOOLEAN
  <2>1. armed' = IF completion_result = "none" THEN FALSE ELSE armed
    BY DEF Joined
  <2>2. armed \in BOOLEAN
    BY DEF TaskInv, TypeOK
  <2>3. armed' \in BOOLEAN
    <3>1. CASE completion_result = "none"
      BY <2>1, <3>1
    <3>2. CASE completion_result # "none"
      <4>1. armed' = armed
        BY <2>1, <3>2
      <4> QED
        BY <2>2, <4>1, Zenon
    <3> QED
      BY <3>1, <3>2
  <2>4. /\ owner.doing = "joining"
        /\ form' = form /\ handle' = handle
        /\ Completed \in Outcomes
    BY DEF Joined
  <2>5. owner # Gone
    BY <2>4 DEF Gone
  <2> QED
    BY <2>3, <2>4, <2>5, Zenon
<1>2. CASE Completed # "success"
  <2>1. Failed(Completed) /\ Completed \in {"failure", "error"}
    BY <1>1, <1>2 DEF Joined, Outcomes
  <2> QED
    BY <1>1, <2>1, FailedInv
<1>3. CASE Completed = "success"
  <2> USE DEF TaskInv
  <2>1. handle = "success"
    BY <1>3 DEF Completed, HandleInv
  <2>2. /\ completion_result' = "none"
        /\ owner' = TakeNext(held)
        /\ held' = held \ {First(held)}
        /\ producer' = producer
        /\ process_substitution_error' = process_substitution_error
        /\ answer' = answer
    BY <1>3 DEF Joined
  <2>3. Awaiting = held
    BY <1>1 DEF Awaiting, OwnerInv, TypeOK
  <2>4. Awaiting' = Awaiting /\ Done' = Done
    BY <2>2, <2>3, TakenIs DEF Done
  <2>5. Errors(Done)' = Errors(Done)
    BY <2>2, <2>4 DEF Errors
  <2>6. TypeOK'
    BY <1>1, <2>2, TakenIs DEF TypeOK
  <2>7. OwnerInv'
    BY <1>1, <2>1, <2>2, TakenIs DEF OwnerInv
  <2>8. HandleInv'
    BY <1>1, <2>1, <2>2 DEF HandleInv
  <2>9. OrderInv'
    BY <1>1, <2>2, <2>4, <2>5, TakenIs DEF OrderInv, IsFirst
  <2>10. NoneOutlives' /\ AnswerIsTrue'
    BY <1>1, <2>2, TakenIs DEF NoneOutlives, AnswerIsTrue, OrderInv
  <2> QED
    BY <2>6, <2>7, <2>8, <2>9, <2>10
<1> QED
  BY <1>2, <1>3

-----------------------------------------------------------------------------
LEMMA ProducerJoinedInv ==
  ASSUME TaskInv, ProducerJoined
  PROVE  TaskInv'
<1> USE DEF TaskInv
<1> DEFINE at == owner.at
<1>1. /\ owner.doing = "draining" /\ owner # Gone
      /\ at \in Ids /\ at # NoError
      /\ producer[at] \in Outcomes
  BY DEF ProducerJoined, Gone, TypeOK
<1>2. /\ owner' = TakeNext(held) /\ held' = held \ {First(held)}
      /\ form' = form /\ handle' = handle /\ armed' = armed
      /\ completion_result' = completion_result
      /\ producer' = producer /\ answer' = answer
      /\ process_substitution_error' =
           IF producer[at] = "error" THEN Keep(process_substitution_error, at)
           ELSE process_substitution_error
      /\ form = "in_place" => producer[at] # "error"
  BY DEF ProducerJoined, TypeOK
<1>3. TypeOK'
  BY <1>1, <1>2, TakenIs DEF TypeOK, Keep
<1>4. OwnerInv'
  BY <1>1, <1>2, TakenIs DEF OwnerInv
<1>5. HandleInv'
  BY <1>1, <1>2 DEF HandleInv
<1>6. Awaiting = held \union {at} /\ at \notin held
  BY <1>1 DEF Awaiting, OwnerInv
<1>7. Awaiting' = held /\ Done' = Done \union {at}
  BY <1>1, <1>2, <1>6, TakenIs DEF Done
<1>8. \A i \in Done', j \in held : i < j
  BY <1>1, <1>6, <1>7 DEF OrderInv, OwnerInv
<1>9. IsFirst(process_substitution_error, Errors(Done))'
  <2>1. IsFirst(process_substitution_error, Errors(Done))
    BY <1>1 DEF OrderInv
  <2>2. Errors(Done)' = Errors(Done) \union Errors({at})
    BY <1>2, <1>7 DEF Errors
  <2>3. Errors(Done) \in SUBSET Ids /\ Errors({at}) \in SUBSET Ids
    BY <1>1 DEF Errors, Done
  <2>4. \A i \in Errors(Done), j \in Errors({at}) : i < j
    BY <1>1, <1>6 DEF OrderInv, Errors
  <2>5. First(Errors({at})) = IF producer[at] = "error" THEN at ELSE NoError
    <3>1. CASE producer[at] = "error"
      <4>1. Errors({at}) = {at}
        BY <3>1 DEF Errors
      <4> QED
        BY <1>1, <3>1, <4>1, FirstIn
    <3>2. CASE producer[at] # "error"
      BY <3>2 DEF Errors, First
    <3> QED
      BY <3>1, <3>2
  <2>6. process_substitution_error' =
          IF process_substitution_error # NoError THEN process_substitution_error
          ELSE First(Errors({at}))
    BY <1>2, <2>5 DEF Keep
  <2>7. IsFirst(process_substitution_error', Errors(Done) \union Errors({at}))
    BY <2>1, <2>3, <2>4, <2>6, FirstOfBoth
  <2> QED
    BY <2>2, <2>7 DEF IsFirst
<1>10. \A i \in Done' : producer'[i] # "running"
  BY <1>1, <1>2, <1>7 DEF OrderInv, Outcomes
<1>11. form' = "in_place" => process_substitution_error' = NoError
  BY <1>1, <1>2 DEF OrderInv
<1>12. OrderInv'
  BY <1>1, <1>2, <1>7, <1>8, <1>9, <1>10, <1>11, TakenIs DEF OrderInv
<1>13. NoneOutlives' /\ AnswerIsTrue'
  BY <1>1, <1>2, TakenIs DEF NoneOutlives, AnswerIsTrue, OrderInv
<1> QED
  BY <1>3, <1>4, <1>5, <1>12, <1>13

LEMMA ProducerErredInv ==
  ASSUME TaskInv, ProducerErred
  PROVE  TaskInv'
<1> USE DEF TaskInv
<1> DEFINE at == owner.at
<1>1. /\ owner.doing = "draining" /\ owner # Gone
      /\ at \in Ids /\ at # NoError
      /\ form = "in_place" /\ producer[at] = "error"
      /\ handle = "success" /\ process_substitution_error = NoError
  BY DEF ProducerErred, Gone, TypeOK, OwnerInv, OrderInv
<1>2. /\ producer' = CancelledIn(held) /\ held' = {}
      /\ owner' = Gone /\ answer' = Told("error", at)
      /\ form' = form /\ handle' = handle /\ armed' = armed
      /\ completion_result' = completion_result
      /\ process_substitution_error' = process_substitution_error
  BY DEF ProducerErred, Answered
<1>3. held \in SUBSET Ids
  BY DEF TypeOK
<1>4. /\ producer' \in [Ids -> {"running", "cancelled"} \union Outcomes]
      /\ \A i \in Ids : (producer'[i] = "error") <=> (producer[i] = "error")
      /\ \A i \in held : producer'[i] # "running"
      /\ \A i \in Ids : producer'[i] = "running" => producer[i] = "running"
  BY <1>2, <1>3, CancelledInIs
<1>5. Awaiting = held \union {at} /\ Done = Ids \ (held \union {at})
  BY <1>1 DEF Awaiting, Done
<1>6. \A i \in Ids : producer'[i] # "running"
  <2>1. \A i \in Done : producer[i] # "running"
    BY <1>1 DEF OrderInv
  <2>2. producer[at] # "running"
    BY <1>1
  <2> QED
    BY <1>4, <1>5, <2>1, <2>2
<1>7. at = First(Errors(Ids))
  <2>1. Errors(Done) = {}
    BY <1>1, IdsNat DEF OrderInv, IsFirst, Errors, Done
  <2>2. \A i \in Errors(Ids) : at <= i
    <3> SUFFICES ASSUME NEW i \in Errors(Ids)
                 PROVE  at <= i
      OBVIOUS
    <3>1. i \in Ids /\ i \in held \union {at}
      BY <1>5, <2>1 DEF Errors
    <3>2. i \in held => at < i
      BY <1>1 DEF OwnerInv
    <3>3. at \in Nat /\ i \in Nat
      BY <1>1, <3>1, IdsNat
    <3> QED
      BY <3>1, <3>2, <3>3
  <2>3. at \in Errors(Ids) /\ Errors(Ids) \in SUBSET Ids
    BY <1>1 DEF Errors
  <2> QED
    BY <2>2, <2>3, FirstIs DEF IsFirst
<1>8. Erred(Ids)' = at
  <2>1. {i \in Ids : producer'[i] = "error"} = Errors(Ids)
    BY <1>4 DEF Errors
  <2> QED
    BY <1>7, <2>1 DEF Erred
<1>9. answer' = TrueAnswer'
  BY <1>1, <1>2, <1>8 DEF TrueAnswer
<1>10. TypeOK'
  BY <1>1, <1>2, <1>4 DEF TypeOK, Gone, Told, Outcomes
<1>11. HandleInv'
  BY <1>2 DEF HandleInv
<1> QED
  BY <1>1, <1>2, <1>6, <1>9, <1>10, <1>11, GoneInv

LEMMA DrainedInv ==
  ASSUME TaskInv, Drained
  PROVE  TaskInv'
<1> USE DEF TaskInv
<1>1. /\ owner.doing = "draining" /\ owner.at = NoError /\ owner # Gone
      /\ held = {} /\ handle = "success"
  BY DEF Drained, Draining, Gone, OwnerInv
<1>2. /\ process_substitution_error' = NoError /\ owner' = Gone
      /\ answer' = IF process_substitution_error = NoError THEN Told("success", NoError)
                   ELSE Told("error", process_substitution_error)
      /\ form' = form /\ handle' = handle /\ armed' = armed
      /\ completion_result' = completion_result
      /\ producer' = producer /\ held' = held
  BY DEF Drained, Answered
<1>3. Awaiting = {} /\ Done = Ids
  BY <1>1 DEF Awaiting, Done
<1>4. \A i \in Ids : producer[i] # "running"
  BY <1>1, <1>3 DEF OrderInv
<1>5. process_substitution_error = Erred(Ids)
  <2>1. Errors(Ids) \in SUBSET Ids /\ Erred(Ids) = First(Errors(Ids))
    BY DEF Errors, Erred
  <2>2. IsFirst(process_substitution_error, Errors(Ids))
    BY <1>1, <1>3 DEF OrderInv
  <2> QED
    BY <2>1, <2>2, FirstIs
<1>6. Erred(Ids)' = Erred(Ids)
  BY <1>2 DEF Erred
<1>7. answer' = TrueAnswer'
  BY <1>1, <1>2, <1>5, <1>6 DEF TrueAnswer
<1>8. TypeOK'
  BY <1>2 DEF TypeOK, Gone, Told, Outcomes
<1>9. HandleInv'
  BY <1>2 DEF HandleInv
<1> QED
  BY <1>1, <1>2, <1>4, <1>7, <1>8, <1>9, GoneInv

LEMMA DroppedInv ==
  ASSUME TaskInv, Dropped
  PROVE  TaskInv'
<1> USE DEF TaskInv
<1>1. owner # Gone
  BY DEF Dropped, Gone
<1>2. /\ handle' = IF handle = "running" THEN "cancelled" ELSE handle
      /\ producer' = CancelledIn(Awaiting)
      /\ armed' = FALSE /\ held' = {} /\ owner' = Gone
      /\ form' = form /\ answer' = answer
      /\ completion_result' = completion_result
      /\ process_substitution_error' = process_substitution_error
  BY DEF Dropped, HandleDropped, cancel_process_substitutions, Awaiting
<1>3. /\ producer' \in [Ids -> {"running", "cancelled"} \union Outcomes]
      /\ \A i \in Ids : producer'[i] # "running"
  BY <1>1, <1>2, AwaitingIds, CancelledInIs, CancelAwaiting
<1>4. handle' # "running"
  BY <1>2
<1>5. TypeOK'
  BY <1>2, <1>3 DEF TypeOK, Gone
<1>6. HandleInv'
  BY <1>1, <1>2 DEF HandleInv
<1>7. answer' = NoAnswer
  BY <1>1, <1>2 DEF OrderInv, NoAnswer
<1> QED
  BY <1>2, <1>3, <1>4, <1>5, <1>6, <1>7, GoneInv

-----------------------------------------------------------------------------
LEMMA StutterInv ==
  ASSUME TaskInv, UNCHANGED vars
  PROVE  TaskInv'
<1> USE DEF TaskInv, vars
<1>1. TypeOK' /\ OwnerInv' /\ HandleInv'
  BY DEF TypeOK, OwnerInv, HandleInv
<1>2. OrderInv'
  BY DEF OrderInv, IsFirst, Errors, Done, Awaiting
<1>3. NoneOutlives' /\ AnswerIsTrue'
  BY DEF NoneOutlives, AnswerIsTrue, TrueAnswer, Erred
<1> QED
  BY <1>1, <1>2, <1>3

LEMMA NextInv == TaskInv /\ [Next]_vars => TaskInv'
<1> SUFFICES ASSUME TaskInv, [Next]_vars
             PROVE  TaskInv'
  OBVIOUS
<1>1. CASE Ends
  BY <1>1, CommandEndsInv, ProducerEndsInv DEF Ends
<1>2. CASE Poll
  BY <1>2, PollInv
<1>3. CASE WaitBegins
  BY <1>3, WaitBeginsInv
<1>4. CASE Waits
  BY <1>4, JoinedInv, ProducerJoinedInv, ProducerErredInv, DrainedInv DEF Waits
<1>5. CASE Dropped
  BY <1>5, DroppedInv
<1>6. CASE UNCHANGED vars
  BY <1>6, StutterInv
<1> QED
  BY <1>1, <1>2, <1>3, <1>4, <1>5, <1>6 DEF Next

(***************************************************************************)
(* The inductive invariant: the producers whose turn has passed come       *)
(* before all others, none of them runs, and the error remembered is the   *)
(* first of theirs (ExecutionTask's poll and wait).                        *)
(***************************************************************************)
THEOREM TaskInvariant == Spec => []TaskInv
<1>1. Init => TaskInv
  BY InitInv
<1>2. TaskInv /\ [Next]_vars => TaskInv'
  BY NextInv
<1> QED
  BY <1>1, <1>2, PTL DEF Spec

(***************************************************************************)
(* However a command ends, is cancelled or is dropped, no producer of it   *)
(* is left running (ExecutionTask's Drop, cancel, poll and wait).          *)
(***************************************************************************)
THEOREM NothingOutlivesItsOwner == Spec => []NoneOutlives
<1>1. TaskInv => NoneOutlives
  BY DEF TaskInv
<1> QED
  BY <1>1, TaskInvariant, PTL

(***************************************************************************)
(* Polling any number of times and then waiting tells the owner what       *)
(* waiting at once would have told it (ExecutionTask::poll and wait).      *)
(***************************************************************************)
THEOREM EveryAnswerIsTrue == Spec => []AnswerIsTrue
<1>1. TaskInv => AnswerIsTrue
  BY DEF TaskInv
<1> QED
  BY <1>1, TaskInvariant, PTL

(* The types of the variables (the type invariant, for every size). *)
THEOREM TaskTypes == Spec => []TypeOK
<1>1. TaskInv => TypeOK
  BY DEF TaskInv
<1> QED
  BY <1>1, TaskInvariant, PTL

-----------------------------------------------------------------------------
(* One step of CutOffOnlyWhenUnread. *)
CutOff(i) == producer[i] = "running" /\ producer'[i] = "cancelled"

Unread(i) == \/ handle' \in {"failure", "error"}
             \/ answer'.value = "error" /\ answer'.by < i
             \/ answer' = NoAnswer /\ owner' = Gone

LEMMA FailedUnread ==
  ASSUME TaskInv, handle' = handle, NEW o \in {"failure", "error"}, Completed = o
  PROVE  handle' \in {"failure", "error"}
  BY DEF TaskInv, HandleInv, Completed

LEMMA CutOffUnread ==
  ASSUME TaskInv, [Next]_vars, NEW i \in Ids, CutOff(i)
  PROVE  Unread(i)
<1>0. TypeOK /\ producer' # producer
  BY DEF CutOff, TaskInv
<1>1. CASE Ends
  <2>1. ~(\E o \in Outcomes : CommandEnds(o))
    BY <1>0 DEF CommandEnds
  <2>2. PICK j \in Ids, o \in Outcomes : ProducerEnds(j, o)
    BY <1>1, <2>1 DEF Ends
  <2>3. producer' = [producer EXCEPT ![j] = o]
    BY <2>2 DEF ProducerEnds
  <2>4. producer'[i] \in {producer[i], o}
    BY <1>0, <2>3 DEF TypeOK
  <2> QED
    BY <2>4 DEF CutOff, Outcomes
<1>2. CASE Poll
  <2>1. handle' = handle /\ Completed \in Outcomes
    BY <1>2 DEF Poll
  <2>2. CASE Completed = "success"
    <3>1. producer' = CancelledIn(Passed)
      BY <1>2, <2>2 DEF Poll, PollPending, PollDone
    <3>2. producer' = producer
      BY <1>0, <3>1, PassedIs, CancelledInIs DEF TypeOK
    <3> QED
      BY <1>0, <3>2
  <2>3. CASE Completed # "success"
    BY <2>1, <2>3, FailedUnread DEF Unread, Outcomes
  <2> QED
    BY <2>2, <2>3
<1>3. CASE Joined
  <2>1. handle' = handle /\ Completed \in Outcomes
    BY <1>3 DEF Joined
  <2>2. CASE Completed = "success"
    BY <1>0, <1>3, <2>2 DEF Joined
  <2>3. CASE Completed # "success"
    BY <2>1, <2>3, FailedUnread DEF Unread, Outcomes
  <2> QED
    BY <2>2, <2>3
<1>4. CASE ProducerErred
  <2>1. producer' = CancelledIn(held)
    BY <1>4 DEF ProducerErred
  <2>2. i \in held
    BY <2>1 DEF CutOff, CancelledIn
  <2>3. owner.at < i
    BY <1>4, <2>2 DEF ProducerErred, TaskInv, OwnerInv
  <2>4. answer' = Told("error", owner.at)
    BY <1>4 DEF ProducerErred, Answered
  <2> QED
    BY <2>3, <2>4 DEF Unread, Told
<1>5. CASE Dropped
  <2>1. owner # Gone
    BY <1>5 DEF Dropped, Gone
  <2>2. answer = NoAnswer
    BY <2>1 DEF TaskInv, OrderInv
  <2> QED
    BY <1>5, <2>2 DEF Dropped, Unread
<1>6. CASE WaitBegins \/ ProducerJoined \/ Drained \/ UNCHANGED vars
  BY <1>0, <1>6 DEF WaitBegins, ProducerJoined, Drained, vars
<1> QED
  BY <1>1, <1>2, <1>3, <1>4, <1>5, <1>6 DEF Next, Waits

(***************************************************************************)
(* A producer that still runs is cancelled only when nobody will read it   *)
(* (cancel_process_substitutions and every caller of it).                  *)
(***************************************************************************)
THEOREM CutOffIsUnread == Spec => CutOffOnlyWhenUnread
<1>1. TaskInv /\ [Next]_vars =>
        [\A i \in Ids : producer[i] = "running" /\ producer'[i] = "cancelled" =>
           \/ handle' \in {"failure", "error"}
           \/ answer'.value = "error" /\ answer'.by < i
           \/ answer' = NoAnswer /\ owner' = Gone]_vars
  BY CutOffUnread DEF CutOff, Unread
<1> QED
  BY <1>1, TaskInvariant, PTL DEF Spec, CutOffOnlyWhenUnread

-----------------------------------------------------------------------------
(* The commands of a program, and what they keep.                          *)

-----------------------------------------------------------------------------
(***************************************************************************)
(* The inductive invariant.  Only the command on top of a context waits,   *)
(* and only a context that lives has commands.                             *)
(***************************************************************************)
OnlyTopWaits ==
  \A c \in Contexts : \A i \in 1 .. Len(stack[c]) :
    stack[c][i].phase = "waits" => i = Len(stack[c]) /\ stack[c][i].left # <<>>

OnlyLiveRun == \A c \in Contexts : life[c] # "live" => stack[c] = <<>>

(* The producers a context waits for. *)
Left(c) == IF Awaits(c) THEN Range(Top(c).left) ELSE {}

(* No producer is kept twice, in one place or in two. *)
Apart ==
  /\ IsInjective(registry)
  /\ \A c \in Contexts : Awaits(c) => IsInjective(Top(c).left)
  /\ \A c \in Contexts : Left(c) \intersect Range(registry) = {}
  /\ \A c, d \in Contexts : c # d => Left(c) \intersect Left(d) = {}

Kept(p) == p \in Range(registry) \/ \E c \in Contexts : p \in Left(c)

(* One that runs is kept, and one that is kept has been started. *)
Known == \A p \in ProducerIds : /\ Running(p) => Kept(p)
                                /\ Kept(p) => substitution[p] # "unused"

EmptyAtTheEnd == (\A c \in Contexts : life[c] # "live") => registry = <<>>

(***************************************************************************)
(* Until commands mix, one that has producers and still runs is the only   *)
(* command there is but for those around it, and the registry keeps its    *)
(* producers.                                                              *)
(***************************************************************************)
Owner(c, i) ==
  /\ i = Len(stack[c])
  /\ \A d \in Contexts \ {c} : stack[d] = <<>>
  /\ stack[c][i].made \subseteq Range(registry)
  /\ \A p \in stack[c][i].made : substitution[p] # "cancelled"

Reads(c, i) == stack[c][i].phase = "runs" /\ stack[c][i].made # {}

Alone ==
  ~mixed => /\ \A c \in Contexts : inherited[c] = {}
            /\ \A c \in Contexts : \A i \in 1 .. Len(stack[c]) : Reads(c, i) => Owner(c, i)

ProducersInv ==
  ProgramTypes /\ OnlyTopWaits /\ OnlyLiveRun /\ Apart /\ Known /\ EmptyAtTheEnd /\ Alone

-----------------------------------------------------------------------------
(***************************************************************************)
(* Commands come off the top of a stack, or the one on top changes.        *)
(***************************************************************************)
CutTo(c, n) ==
  /\ stack' \in [Contexts -> Seq(Commands)]
  /\ \A d \in Contexts \ {c} : stack'[d] = stack[d]
  /\ n < Len(stack[c]) /\ Len(stack'[c]) = n
  /\ \A i \in 1 .. n : stack'[c][i] = stack[c][i]

LEMMA StackTypes ==
  ASSUME ProgramTypes, NEW c \in Contexts
  PROVE  /\ stack \in [Contexts -> Seq(Commands)] /\ stack[c] \in Seq(Commands) /\ Len(stack[c]) \in Nat
         /\ stack[c] = <<>> <=> Len(stack[c]) = 0
         /\ \A i \in 1 .. Len(stack[c]) : stack[c][i] \in Commands
         /\ stack[c] # <<>> => Top(c) = stack[c][Len(stack[c])] /\ Top(c) \in Commands
<1>1. stack \in [Contexts -> Seq(Commands)]
  BY DEF ProgramTypes
<1>2. stack[c] \in Seq(Commands)
  BY <1>1
<1>. DEFINE s == stack[c]
            n == Len(s)
<1>3. n \in Nat /\ (s = <<>> <=> n = 0) /\ \A i \in 1 .. n : s[i] \in Commands
  BY <1>2
<1>4. s # <<>> => Top(c) = s[n] /\ Top(c) \in Commands
  BY <1>3 DEF Top, Last
<1>. QED
  BY <1>1, <1>2, <1>3, <1>4

LEMMA Prefix ==
  ASSUME NEW T, NEW s \in Seq(T), NEW n \in Nat, n <= Len(s)
  PROVE  /\ SubSeq(s, 1, n) \in Seq(T) /\ Len(SubSeq(s, 1, n)) = n
         /\ \A i \in 1 .. n : SubSeq(s, 1, n)[i] = s[i]
<1>. DEFINE front == SubSeq(s, 1, n)
<1>1. \A i \in 1 .. n : s[i] \in T
  OBVIOUS
<1>2. front = [i \in 1 .. n |-> s[i]]
  OBVIOUS
<1>3. front \in Seq(T) /\ Len(front) = n /\ \A i \in 1 .. n : front[i] = s[i]
  BY <1>1, <1>2
<1>. QED
  BY <1>3

LEMMA CutsTo ==
  ASSUME ProgramTypes, NEW c \in Contexts, NEW n \in Nat, n < Len(stack[c]),
         stack' = [stack EXCEPT ![c] = SubSeq(stack[c], 1, n)]
  PROVE  CutTo(c, n)
<1>1. stack \in [Contexts -> Seq(Commands)] /\ stack[c] \in Seq(Commands) /\ Len(stack[c]) \in Nat
  BY StackTypes
<1>. DEFINE front == SubSeq(stack[c], 1, n)
<1>2. front \in Seq(Commands) /\ Len(front) = n /\ \A i \in 1 .. n : front[i] = stack[c][i]
  BY <1>1, Prefix
<1>. HIDE DEF front
<1>3. stack' = [stack EXCEPT ![c] = front]
  BY DEF front
<1>4. stack'[c] = front /\ \A d \in Contexts \ {c} : stack'[d] = stack[d]
  BY <1>1, <1>3
<1>5. stack' \in [Contexts -> Seq(Commands)]
  BY <1>1, <1>2, <1>3
<1>. QED
  BY <1>2, <1>4, <1>5 DEF CutTo

LEMMA PopCuts ==
  ASSUME ProgramTypes, NEW c \in Contexts, stack[c] # <<>>, stack' = Popped(c)
  PROVE  Len(stack[c]) - 1 \in Nat /\ CutTo(c, Len(stack[c]) - 1)
<1>. DEFINE n == Len(stack[c]) - 1
<1>1. n \in Nat /\ n < Len(stack[c])
  BY StackTypes
<1>2. stack' = [stack EXCEPT ![c] = SubSeq(stack[c], 1, n)]
  BY DEF Popped, Front
<1>. HIDE DEF n
<1>3. CutTo(c, n)
  BY <1>1, <1>2, CutsTo
<1>. QED
  BY <1>1, <1>3 DEF n

LEMMA EmptyCuts ==
  ASSUME ProgramTypes, NEW c \in Contexts, stack[c] # <<>>, stack' = [stack EXCEPT ![c] = <<>>]
  PROVE  CutTo(c, 0)
<1>1. stack \in [Contexts -> Seq(Commands)] /\ 0 < Len(stack[c])
  BY StackTypes
<1>2. stack' \in [Contexts -> Seq(Commands)] /\ stack'[c] = <<>> /\ \A d \in Contexts \ {c} : stack'[d] = stack[d]
  BY <1>1
<1>3. Len(stack'[c]) = 0
  BY <1>2
<1>. QED
  BY <1>1, <1>2, <1>3 DEF CutTo

LEMMA CatchingTop ==
  ASSUME ProgramTypes, NEW c \in Contexts, Catching(c) # {}
  PROVE  /\ Innermost(Catching(c)) \in 1 .. Len(stack[c]) - 1
         /\ stack[c] # <<>>
<1>. DEFINE n == Len(stack[c])
<1>1. n \in Nat /\ (stack[c] = <<>> <=> n = 0)
  BY StackTypes
<1>2. Catching(c) \in SUBSET (1 .. n - 1)
  BY DEF Catching
<1>3. Catching(c) \in SUBSET (0 .. n)
  BY <1>1, <1>2
<1>. HIDE DEF n
<1>4. \E i \in Catching(c) : \A j \in Catching(c) : j <= i
  BY <1>1, <1>3, GreatestExists
<1>5. Innermost(Catching(c)) \in Catching(c)
  BY <1>4 DEF Innermost
<1>6. Innermost(Catching(c)) \in 1 .. n - 1
  BY <1>2, <1>5
<1>. QED
  BY <1>1, <1>6 DEF n

LEMMA CaughtCuts ==
  ASSUME ProgramTypes, NEW c \in Contexts, NEW dropped, Catching(c) # {}, Caught(c, dropped)
  PROVE  \E n \in Nat : CutTo(c, n)
<1>. DEFINE i == Innermost(Catching(c))
            n == i - 1
<1>1. i \in 1 .. Len(stack[c]) - 1 /\ Len(stack[c]) \in Nat
  BY CatchingTop, StackTypes
<1>. HIDE DEF i
<1>2. n \in Nat /\ n < Len(stack[c])
  BY <1>1
<1>3. stack' = [stack EXCEPT ![c] = SubSeq(stack[c], 1, n)]
  BY DEF Caught, i
<1>. HIDE DEF n
<1>4. CutTo(c, n)
  BY <1>2, <1>3, CutsTo
<1>. QED
  BY <1>2, <1>4

LEMMA TopChanges ==
  ASSUME ProgramTypes, NEW c \in Contexts, stack[c] # <<>>, NEW command \in Commands, stack' = OnTop(c, command)
  PROVE  /\ stack' \in [Contexts -> Seq(Commands)]
         /\ \A d \in Contexts \ {c} : stack'[d] = stack[d]
         /\ stack'[c] # <<>> /\ Len(stack'[c]) = Len(stack[c])
         /\ \A i \in 1 .. Len(stack[c]) - 1 : stack'[c][i] = stack[c][i]
         /\ stack'[c][Len(stack[c])] = command
         /\ Top(c)' = command
<1>. DEFINE n == Len(stack[c])
            new == [stack[c] EXCEPT ![n] = command]
<1>1. stack \in [Contexts -> Seq(Commands)] /\ stack[c] \in Seq(Commands) /\ n \in Nat /\ n >= 1
  BY StackTypes
<1>2. /\ new \in Seq(Commands) /\ Len(new) = n
      /\ \A i \in 1 .. n - 1 : new[i] = stack[c][i]
      /\ new[n] = command
  BY <1>1
<1>. HIDE DEF new
<1>3. stack' = [stack EXCEPT ![c] = new]
  BY DEF OnTop, new
<1>4. stack'[c] = new /\ \A d \in Contexts \ {c} : stack'[d] = stack[d]
  BY <1>1, <1>3
<1>5. stack' \in [Contexts -> Seq(Commands)]
  BY <1>1, <1>2, <1>3
<1>6. stack'[c] # <<>>
  BY <1>1, <1>2, <1>4
<1>7. Top(c)' = command
  BY <1>2, <1>4 DEF Top, Last
<1>. QED
  BY <1>2, <1>4, <1>5, <1>6, <1>7

-----------------------------------------------------------------------------
(***************************************************************************)
(* Producers.                                                              *)
(***************************************************************************)
States == {"unused", "writing", "blocked", "ended", "erred", "cancelled"}

(* They only go on, and stop for good. *)
GoOn ==
  /\ substitution' \in [ProducerIds -> States]
  /\ \A p \in ProducerIds : /\ Running(p)' => Running(p)
                            /\ substitution[p] # "unused" => substitution'[p] # "unused"

LEMMA CancelledOnes ==
  ASSUME ProgramTypes, NEW S, substitution' = CancelledOf(S)
  PROVE  /\ GoOn
         /\ \A p \in ProducerIds \intersect S : ~Running(p)'
         /\ \A p \in ProducerIds \ S : substitution'[p] = substitution[p]
<1>1. substitution \in [ProducerIds -> States]
  BY DEF ProgramTypes, States
<1>2. \A p \in ProducerIds : substitution'[p] = IF p \in S /\ Running(p) THEN "cancelled" ELSE substitution[p]
  BY DEF CancelledOf
<1>3. substitution' \in [ProducerIds -> States]
  BY <1>1 DEF CancelledOf, States
<1>. QED
  BY <1>2, <1>3 DEF GoOn, Running

LEMMA SameProducers ==
  ASSUME ProgramTypes, UNCHANGED substitution
  PROVE  GoOn
BY DEF ProgramTypes, GoOn, States, Running

LEMMA KeptTypes ==
  ASSUME ProgramTypes, OnlyTopWaits
  PROVE  /\ Range(registry) \subseteq ProducerIds
         /\ \A c \in Contexts : Left(c) \subseteq ProducerIds
         /\ \A c \in Contexts : Awaits(c) => /\ Top(c).left \in Seq(ProducerIds) /\ Top(c).left # <<>>
                                            /\ Left(c) = Range(Top(c).left)
<1>1. Range(registry) \subseteq ProducerIds
  BY DEF ProgramTypes, Range
<1>2. ASSUME NEW c \in Contexts, Awaits(c)
      PROVE  /\ Top(c).left \in Seq(ProducerIds) /\ Top(c).left # <<>>
             /\ Left(c) = Range(Top(c).left)
             /\ Left(c) \subseteq ProducerIds
  <2>1. Top(c) \in Commands /\ Top(c) = stack[c][Len(stack[c])] /\ Len(stack[c]) \in 1 .. Len(stack[c])
    BY <1>2, StackTypes DEF Awaits
  <2>2. Top(c).left \in Seq(ProducerIds)
    BY <2>1 DEF Commands
  <2>3. Top(c).left # <<>>
    BY <1>2, <2>1 DEF OnlyTopWaits, Awaits
  <2>4. Left(c) = Range(Top(c).left)
    BY <1>2 DEF Left
  <2>. QED
    BY <2>2, <2>3, <2>4 DEF Range
<1>3. \A c \in Contexts : ~Awaits(c) => Left(c) = {}
  BY DEF Left
<1>. QED
  BY <1>1, <1>2, <1>3

(* What waits in a context is told by the stack of that context. *)
LEMMA SameWaits ==
  ASSUME NEW c, stack'[c] = stack[c]
  PROVE  /\ Awaits(c)' <=> Awaits(c)
         /\ Top(c)' = Top(c)
         /\ Left(c)' = Left(c)
BY DEF Awaits, Top, Left

(* A stack that has been cut waits for nothing. *)
LEMMA CutWaits ==
  ASSUME ProgramTypes, OnlyTopWaits, NEW c \in Contexts, NEW n \in Nat, CutTo(c, n)
  PROVE  /\ OnlyTopWaits' /\ ~Awaits(c)' /\ Left(c)' = {} /\ stack[c] # <<>>
         /\ \A d \in Contexts \ {c} : (Awaits(d)' <=> Awaits(d)) /\ Top(d)' = Top(d) /\ Left(d)' = Left(d)
<1>1. Len(stack[c]) \in Nat /\ n < Len(stack[c]) /\ stack[c] # <<>>
  BY StackTypes DEF CutTo
<1>2. \A i \in 1 .. Len(stack'[c]) : stack'[c][i].phase # "waits"
  <2>. SUFFICES ASSUME NEW i \in 1 .. n
                PROVE  stack[c][i].phase # "waits"
    BY DEF CutTo
  <2>1. i \in 1 .. Len(stack[c]) /\ i # Len(stack[c])
    BY <1>1
  <2>. QED
    BY <2>1 DEF OnlyTopWaits
<1>3. ~Awaits(c)'
  <2>1. stack'[c] \in Seq(Commands)
    BY DEF CutTo
  <2>2. stack'[c] # <<>> => Len(stack'[c]) \in 1 .. Len(stack'[c])
    BY <2>1
  <2>. QED
    BY <1>2, <2>2 DEF Awaits, Top, Last
<1>4. \A d \in Contexts \ {c} : (Awaits(d)' <=> Awaits(d)) /\ Top(d)' = Top(d) /\ Left(d)' = Left(d)
  BY SameWaits DEF CutTo
<1>5. OnlyTopWaits'
  <2>. SUFFICES ASSUME NEW d \in Contexts, NEW i \in 1 .. Len(stack'[d]), stack'[d][i].phase = "waits"
                PROVE  i = Len(stack'[d]) /\ stack'[d][i].left # <<>>
    BY DEF OnlyTopWaits
  <2>1. d # c
    BY <1>2
  <2>2. stack'[d] = stack[d]
    BY <2>1 DEF CutTo
  <2>. QED
    BY <2>2 DEF OnlyTopWaits
<1>6. Left(c)' = {}
  BY <1>3 DEF Left
<1>. QED
  BY <1>1, <1>3, <1>4, <1>5, <1>6

(***************************************************************************)
(* Commands are done with: what the registry held and they waited for does *)
(* not run any more, or is still in the registry.                          *)
(***************************************************************************)
LEMMA CutKeeps ==
  ASSUME ProducersInv, NEW c \in Contexts, NEW n \in Nat, CutTo(c, n), GoOn,
         \/ registry' = registry
         \/ registry' = <<>> /\ \A p \in Range(registry) : ~Running(p)',
         \A p \in Left(c) : ~Running(p)',
         UNCHANGED mixed,
         \A d \in Contexts : inherited'[d] = inherited[d] \/ inherited'[d] = {}
  PROVE  OnlyTopWaits' /\ Apart' /\ Known' /\ Alone'
<1>1. ProgramTypes /\ OnlyTopWaits /\ Apart /\ Known /\ Alone
  BY DEF ProducersInv
<1>2. /\ OnlyTopWaits' /\ ~Awaits(c)' /\ Left(c)' = {} /\ stack[c] # <<>>
      /\ \A d \in Contexts \ {c} : (Awaits(d)' <=> Awaits(d)) /\ Top(d)' = Top(d) /\ Left(d)' = Left(d)
  BY <1>1, CutWaits
<1>3. Range(<<>>) = {} /\ IsInjective(<<>>)
  BY DEF Range, IsInjective
<1>4. Range(registry)' \subseteq Range(registry) /\ IsInjective(registry)'
  BY <1>1, <1>3 DEF Apart
<1>5. \A d \in Contexts : Left(d)' \subseteq Left(d)
  BY <1>2
<1>6. Apart'
  <2>2. \A d \in Contexts : Awaits(d)' => IsInjective(Top(d).left)'
    <3>. SUFFICES ASSUME NEW d \in Contexts, Awaits(d)'
                  PROVE  IsInjective(Top(d).left)'
      OBVIOUS
    <3>1. d # c
      BY <1>2
    <3>2. Awaits(d) /\ Top(d)' = Top(d)
      BY <1>2, <3>1
    <3>3. IsInjective(Top(d).left)
      BY <1>1, <3>2 DEF Apart
    <3>. QED
      BY <3>2, <3>3
  <2>3. \A d \in Contexts : Left(d)' \intersect Range(registry)' = {}
    BY <1>1, <1>4, <1>5 DEF Apart
  <2>4. \A d, e \in Contexts : d # e => Left(d)' \intersect Left(e)' = {}
    BY <1>1, <1>5 DEF Apart
  <2>. QED
    BY <1>4, <2>2, <2>3, <2>4 DEF Apart
<1>7. Known'
  <2>. SUFFICES ASSUME NEW p \in ProducerIds
                PROVE  /\ Running(p)' => Kept(p)'
                       /\ Kept(p)' => substitution'[p] # "unused"
    BY DEF Known
  <2>1. ASSUME Running(p)'
        PROVE  Kept(p)'
    <3>1. Running(p) /\ Kept(p)
      BY <1>1, <2>1 DEF GoOn, Known
    <3>2. p \notin Left(c)
      BY <2>1
    <3>3. CASE p \in Range(registry)
      BY <2>1, <3>3 DEF Kept
    <3>4. CASE p \notin Range(registry)
      <4>1. PICK d \in Contexts : p \in Left(d)
        BY <3>1, <3>4 DEF Kept
      <4>2. p \in Left(d)'
        BY <1>2, <3>2, <4>1
      <4>. QED
        BY <4>2 DEF Kept
    <3>. QED
      BY <3>3, <3>4
  <2>2. ASSUME Kept(p)'
        PROVE  substitution'[p] # "unused"
    <3>1. Kept(p)
      BY <1>4, <1>5, <2>2 DEF Kept
    <3>. QED
      BY <1>1, <3>1 DEF Known, GoOn
  <2>. QED
    BY <2>1, <2>2
<1>8. Alone'
  <2>. SUFFICES ASSUME ~mixed'
                PROVE  /\ \A d \in Contexts : inherited'[d] = {}
                       /\ \A d \in Contexts : \A i \in 1 .. Len(stack'[d]) : ~Reads(d, i)'
    BY DEF Alone
  <2>1. /\ \A d \in Contexts : inherited[d] = {}
        /\ \A d \in Contexts : \A i \in 1 .. Len(stack[d]) : Reads(d, i) => Owner(d, i)
    BY <1>1 DEF Alone
  <2>2. ASSUME NEW d \in Contexts, NEW i \in 1 .. Len(stack'[d]), Reads(d, i)'
        PROVE  FALSE
    <3>1. CASE d = c
      <4>1. i \in 1 .. Len(stack[c]) /\ i # Len(stack[c]) /\ stack'[c][i] = stack[c][i]
        <5>1. Len(stack[c]) \in Nat
          BY <1>1, StackTypes
        <5>. QED
          BY <2>2, <3>1, <5>1 DEF CutTo
      <4>2. Reads(c, i)
        BY <2>2, <3>1, <4>1 DEF Reads
      <4>. QED
        BY <2>1, <4>1, <4>2 DEF Owner
    <3>2. CASE d # c
      <4>1. stack'[d] = stack[d]
        BY <3>2 DEF CutTo
      <4>2. Reads(d, i) /\ i \in 1 .. Len(stack[d])
        BY <2>2, <4>1 DEF Reads
      <4>. QED
        BY <1>2, <2>1, <3>2, <4>2 DEF Owner
    <3>. QED
      BY <3>1, <3>2
  <2>. QED
    BY <2>1, <2>2
<1>. QED
  BY <1>2, <1>6, <1>7, <1>8

(***************************************************************************)
(* Stacks and registry stay while producers go on.                         *)
(***************************************************************************)
LEMMA ProducersGoOn ==
  ASSUME ProducersInv, GoOn, UNCHANGED <<stack, registry>>,
         \A d \in Contexts : inherited'[d] = inherited[d] \/ inherited'[d] = {},
         \A p \in ProducerIds : substitution'[p] = "cancelled" => substitution[p] = "cancelled",
         UNCHANGED mixed
  PROVE  OnlyTopWaits' /\ Apart' /\ Known' /\ Alone'
<1>1. ProgramTypes /\ OnlyTopWaits /\ Apart /\ Known /\ Alone
  BY DEF ProducersInv
<1>2. \A d \in Contexts : (Awaits(d)' <=> Awaits(d)) /\ Top(d)' = Top(d) /\ Left(d)' = Left(d)
  BY SameWaits
<1>3. OnlyTopWaits'
  BY <1>1 DEF OnlyTopWaits
<1>4. Apart'
  <2>1. \A d \in Contexts : Awaits(d)' => IsInjective(Top(d).left)'
    <3>. SUFFICES ASSUME NEW d \in Contexts, Awaits(d)'
                  PROVE  IsInjective(Top(d).left)'
      OBVIOUS
    <3>1. Awaits(d) /\ Top(d)' = Top(d)
      BY <1>2
    <3>2. IsInjective(Top(d).left)
      BY <1>1, <3>1 DEF Apart
    <3>. QED
      BY <3>1, <3>2
  <2>2. IsInjective(registry)' /\ Range(registry)' = Range(registry)
    BY <1>1 DEF Apart
  <2>3. \A d \in Contexts : Left(d)' \intersect Range(registry)' = {}
    BY <1>1, <1>2, <2>2 DEF Apart
  <2>4. \A d, e \in Contexts : d # e => Left(d)' \intersect Left(e)' = {}
    BY <1>1, <1>2 DEF Apart
  <2>. QED
    BY <2>1, <2>2, <2>3, <2>4 DEF Apart
<1>5. \A p : Kept(p)' <=> Kept(p)
  BY <1>2 DEF Kept
<1>6. Known'
  BY <1>1, <1>5 DEF Known, GoOn
<1>7. Alone'
  <2>. SUFFICES ASSUME ~mixed'
                PROVE  /\ \A d \in Contexts : inherited'[d] = {}
                       /\ \A d \in Contexts : \A i \in 1 .. Len(stack[d]) : Reads(d, i)' => Owner(d, i)'
    BY DEF Alone
  <2>1. /\ \A d \in Contexts : inherited[d] = {}
        /\ \A d \in Contexts : \A i \in 1 .. Len(stack[d]) : Reads(d, i) => Owner(d, i)
    BY <1>1 DEF Alone
  <2>2. ASSUME NEW d \in Contexts, NEW i \in 1 .. Len(stack[d]), Reads(d, i)'
        PROVE  Owner(d, i)'
    <3>1. Owner(d, i)
      BY <2>1, <2>2 DEF Reads
    <3>2. stack[d][i].made \subseteq ProducerIds
      BY <1>1, StackTypes DEF Commands
    <3>. QED
      BY <3>1, <3>2 DEF Owner
  <2>. QED
    BY <2>1, <2>2
<1>. QED
  BY <1>3, <1>4, <1>6, <1>7

-----------------------------------------------------------------------------
(***************************************************************************)
(* The command on top of a context changes to another; those around it     *)
(* keep their phase.                                                       *)
(***************************************************************************)
Changes(c, command) ==
  /\ stack[c] # <<>>
  /\ stack' \in [Contexts -> Seq(Commands)]
  /\ \A d \in Contexts \ {c} : stack'[d] = stack[d]
  /\ Len(stack'[c]) = Len(stack[c])
  /\ \A i \in 1 .. Len(stack[c]) - 1 : stack'[c][i].phase = stack[c][i].phase
  /\ stack'[c][Len(stack[c])] = command

LEMMA TopShows ==
  ASSUME ProgramTypes, OnlyTopWaits, NEW c \in Contexts, NEW command \in Commands, Changes(c, command),
         command.phase = "waits" => command.left # <<>>
  PROVE  /\ OnlyTopWaits'
         /\ Awaits(c)' <=> command.phase = "waits"
         /\ Top(c)' = command
         /\ Left(c)' = IF command.phase = "waits" THEN Range(command.left) ELSE {}
         /\ \A d \in Contexts \ {c} : (Awaits(d)' <=> Awaits(d)) /\ Top(d)' = Top(d) /\ Left(d)' = Left(d)
<1>. DEFINE n == Len(stack[c])
<1>1. n \in Nat /\ n >= 1
  BY StackTypes DEF Changes
<1>2. /\ Len(stack'[c]) = n /\ stack'[c][n] = command
      /\ \A i \in 1 .. n - 1 : stack'[c][i].phase = stack[c][i].phase
  BY DEF Changes
<1>3. \A i \in 1 .. n - 1 : stack[c][i].phase # "waits"
  <2>. SUFFICES ASSUME NEW i \in 1 .. n - 1
                PROVE  stack[c][i].phase # "waits"
    OBVIOUS
  <2>1. i \in 1 .. Len(stack[c]) /\ i # Len(stack[c])
    BY <1>1
  <2>. QED
    BY <2>1 DEF OnlyTopWaits
<1>4. stack'[c] # <<>>
  <2>1. stack'[c] \in Seq(Commands)
    BY DEF Changes
  <2>. QED
    BY <1>1, <1>2, <2>1
<1>. HIDE DEF n
<1>5. Top(c)' = command
  BY <1>2, <1>4 DEF Top, Last
<1>6. Awaits(c)' <=> command.phase = "waits"
  BY <1>4, <1>5 DEF Awaits
<1>7. \A d \in Contexts \ {c} : (Awaits(d)' <=> Awaits(d)) /\ Top(d)' = Top(d) /\ Left(d)' = Left(d)
  BY SameWaits DEF Changes
<1>8. OnlyTopWaits'
  <2>. SUFFICES ASSUME NEW d \in Contexts, NEW i \in 1 .. Len(stack'[d]), stack'[d][i].phase = "waits"
                PROVE  i = Len(stack'[d]) /\ stack'[d][i].left # <<>>
    BY DEF OnlyTopWaits
  <2>1. CASE d = c
    <3>1. i \in 1 .. n
      BY <1>2, <2>1
    <3>2. i \notin 1 .. n - 1
      BY <1>2, <1>3, <2>1
    <3>3. i = n
      BY <1>1, <3>1, <3>2
    <3>. QED
      BY <1>2, <2>1, <3>3
  <2>2. CASE d # c
    <3>1. stack'[d] = stack[d]
      BY <2>2 DEF Changes
    <3>. QED
      BY <3>1 DEF OnlyTopWaits
  <2>. QED
    BY <2>1, <2>2
<1>9. Left(c)' = IF command.phase = "waits" THEN Range(command.left) ELSE {}
  BY <1>5, <1>6 DEF Left
<1>. QED
  BY <1>5, <1>6, <1>7, <1>8, <1>9

(* Before commands mix, nothing else reads when a context has a command. *)
LEMMA OnlyTopReads ==
  ASSUME Alone, ~mixed, NEW c \in Contexts, stack[c] # <<>>
  PROVE  /\ \A d \in Contexts : inherited[d] = {}
         /\ \A d \in Contexts \ {c} : \A i \in 1 .. Len(stack[d]) : ~Reads(d, i)
         /\ \A i \in 1 .. Len(stack[c]) : i # Len(stack[c]) => ~Reads(c, i)
BY DEF Alone, Owner

LEMMA StillAlone ==
  ASSUME ProgramTypes, Alone, NEW c \in Contexts, NEW command, Changes(c, command), command.phase = "waits",
         \/ mixed'
         \/ /\ UNCHANGED <<mixed, inherited>>
            /\ \A i \in 1 .. Len(stack[c]) - 1 : stack'[c][i] = stack[c][i]
  PROVE  Alone'
<1>. SUFFICES ASSUME ~mixed'
              PROVE  /\ \A d \in Contexts : inherited'[d] = {}
                     /\ \A d \in Contexts : \A i \in 1 .. Len(stack'[d]) : ~Reads(d, i)'
  BY DEF Alone
<1>1. /\ UNCHANGED <<mixed, inherited>> /\ ~mixed
      /\ \A i \in 1 .. Len(stack[c]) - 1 : stack'[c][i] = stack[c][i]
  OBVIOUS
<1>2. /\ \A d \in Contexts : inherited[d] = {}
      /\ \A d \in Contexts \ {c} : \A i \in 1 .. Len(stack[d]) : ~Reads(d, i)
      /\ \A i \in 1 .. Len(stack[c]) : i # Len(stack[c]) => ~Reads(c, i)
  BY <1>1, OnlyTopReads DEF Changes
<1>. DEFINE n == Len(stack[c])
<1>3. n \in Nat /\ n >= 1
  BY StackTypes DEF Changes
<1>4. ASSUME NEW d \in Contexts, NEW i \in 1 .. Len(stack'[d])
      PROVE  ~Reads(d, i)'
  <2>1. CASE d = c /\ i = n
    <3>1. stack'[c][n] = command
      BY DEF Changes
    <3>. QED
      BY <2>1, <3>1 DEF Reads
  <2>2. CASE d = c /\ i # n
    <3>1. Len(stack'[c]) = n
      BY DEF Changes
    <3>2. i \in 1 .. n - 1 /\ i \in 1 .. n
      BY <1>3, <2>2, <3>1
    <3>3. stack'[c][i] = stack[c][i] /\ ~Reads(c, i)
      BY <1>1, <1>2, <2>2, <3>2
    <3>. QED
      BY <2>2, <3>3 DEF Reads
  <2>3. CASE d # c
    <3>1. stack'[d] = stack[d]
      BY <2>3 DEF Changes
    <3>2. ~Reads(d, i)
      BY <1>2, <2>3, <3>1
    <3>. QED
      BY <3>1, <3>2 DEF Reads
  <2>. QED
    BY <2>1, <2>2, <2>3
<1>. QED
  BY <1>1, <1>2, <1>4

(***************************************************************************)
(* The command on top takes all the registry holds and waits for it.       *)
(***************************************************************************)
LEMMA StartsToWait ==
  ASSUME ProducersInv, NEW c \in Contexts, Top(c).phase = "runs", registry # <<>>,
         Changes(c, WaitingFor(Top(c), registry)), registry' = <<>>, UNCHANGED substitution,
         \/ mixed'
         \/ /\ UNCHANGED <<mixed, inherited>>
            /\ \A i \in 1 .. Len(stack[c]) - 1 : stack'[c][i] = stack[c][i]
  PROVE  OnlyTopWaits' /\ Apart' /\ Known' /\ Alone'
<1>1. ProgramTypes /\ OnlyTopWaits /\ Apart /\ Known /\ Alone
  BY DEF ProducersInv
<1>. DEFINE command == WaitingFor(Top(c), registry)
<1>2. command \in Commands /\ command.phase = "waits" /\ command.left = registry
  <2>1. Top(c) \in Commands /\ registry \in Seq(ProducerIds)
    BY <1>1, StackTypes DEF Changes, ProgramTypes
  <2>. QED
    BY <2>1 DEF WaitingFor, Commands
<1>3. Changes(c, command)
  OBVIOUS
<1>. HIDE DEF command
<1>4. /\ OnlyTopWaits' /\ Awaits(c)' /\ Top(c)' = command
      /\ Left(c)' = Range(registry)
      /\ \A d \in Contexts \ {c} : (Awaits(d)' <=> Awaits(d)) /\ Top(d)' = Top(d) /\ Left(d)' = Left(d)
  BY <1>1, <1>2, <1>3, TopShows
<1>5. ~Awaits(c) /\ Left(c) = {}
  BY DEF Awaits, Left
<1>6. Range(registry)' = {} /\ IsInjective(registry)'
  BY DEF Range, IsInjective
<1>7. Apart'
  <2>1. ASSUME NEW d \in Contexts, Awaits(d)'
        PROVE  IsInjective(Top(d).left)'
    <3>1. CASE d = c
      <4>1. Top(d)'.left = registry
        BY <1>2, <1>4, <3>1
      <4>2. IsInjective(registry)
        BY <1>1 DEF Apart
      <4>. QED
        BY <4>1, <4>2
    <3>2. CASE d # c
      <4>1. Awaits(d) /\ Top(d)' = Top(d)
        BY <1>4, <2>1, <3>2
      <4>2. IsInjective(Top(d).left)
        BY <1>1, <4>1 DEF Apart
      <4>. QED
        BY <4>1, <4>2
    <3>. QED
      BY <3>1, <3>2
  <2>2. \A d \in Contexts : Left(d)' \intersect Range(registry)' = {}
    BY <1>6
  <2>3. \A d, e \in Contexts : d # e => Left(d)' \intersect Left(e)' = {}
    BY <1>1, <1>4 DEF Apart
  <2>. QED
    BY <1>6, <2>1, <2>2, <2>3 DEF Apart
<1>8. \A p : Kept(p)' <=> Kept(p)
  BY <1>4, <1>5, <1>6 DEF Kept
<1>9. Known'
  BY <1>1, <1>8 DEF Known, Running
<1>10. Alone'
  BY <1>1, <1>2, <1>3, StillAlone
<1>. QED
  BY <1>4, <1>7, <1>9, <1>10

(* The first of those it waits for has ended, and others are left. *)
LEMMA WaitsForTheNext ==
  ASSUME ProducersInv, NEW c \in Contexts, Awaits(c), Len(Top(c).left) # 1, ~Running(Head(Top(c).left)),
         Changes(c, WaitingFor(Top(c), Tail(Top(c).left))), UNCHANGED <<inherited, registry, substitution, mixed>>,
         \A i \in 1 .. Len(stack[c]) - 1 : stack'[c][i] = stack[c][i]
  PROVE  OnlyTopWaits' /\ Apart' /\ Known' /\ Alone'
<1>1. ProgramTypes /\ OnlyTopWaits /\ Apart /\ Known /\ Alone
  BY DEF ProducersInv
<1>. DEFINE left == Top(c).left
            rest == Tail(left)
            command == WaitingFor(Top(c), rest)
<1>2. left \in Seq(ProducerIds) /\ left # <<>> /\ Left(c) = Range(left)
  BY <1>1, KeptTypes
<1>3. IsInjective(left)
  BY <1>1 DEF Apart
<1>4. /\ rest \in Seq(ProducerIds) /\ rest # <<>> /\ IsInjective(rest)
      /\ Range(rest) \subseteq Range(left) /\ Range(left) \subseteq Range(rest) \union {Head(left)}
  <2>. HIDE DEF left
  <2>1. Len(left) \in Nat /\ Len(left) # 1 /\ Len(left) # 0
    BY <1>2 DEF left
  <2>2. rest \in Seq(ProducerIds) /\ Len(rest) = Len(left) - 1 /\ \A i \in 1 .. Len(left) - 1 : rest[i] = left[i + 1]
    BY <1>2
  <2>. HIDE DEF rest
  <2>3. rest # <<>>
    BY <2>1, <2>2
  <2>4. DOMAIN rest = 1 .. Len(left) - 1 /\ DOMAIN left = 1 .. Len(left) /\ Head(left) = left[1]
    BY <1>2, <2>2
  <2>5. \A i, j \in DOMAIN left : left[i] = left[j] => i = j
    BY <1>3 DEF IsInjective
  <2>6. IsInjective(rest)
    <3>. SUFFICES ASSUME NEW i \in DOMAIN rest, NEW j \in DOMAIN rest, rest[i] = rest[j]
                  PROVE  i = j
      BY DEF IsInjective
    <3>1. i + 1 \in DOMAIN left /\ j + 1 \in DOMAIN left /\ i \in Nat /\ j \in Nat
      BY <2>1, <2>4
    <3>2. left[i + 1] = left[j + 1]
      BY <2>2, <2>4
    <3>3. i + 1 = j + 1
      BY <2>5, <3>1, <3>2
    <3>. QED
      BY <3>1, <3>3
  <2>7. ASSUME NEW i \in DOMAIN rest
        PROVE  rest[i] \in Range(left)
    <3>1. i + 1 \in DOMAIN left /\ rest[i] = left[i + 1]
      BY <2>1, <2>2, <2>4
    <3>. QED
      BY <3>1 DEF Range
  <2>8. ASSUME NEW i \in DOMAIN left
        PROVE  left[i] \in Range(rest) \union {Head(left)}
    <3>1. CASE i = 1
      BY <2>4, <3>1
    <3>2. CASE i # 1
      <4>1. i - 1 \in DOMAIN rest /\ (i - 1) + 1 = i
        BY <2>1, <2>4, <3>2
      <4>2. rest[i - 1] = left[i]
        BY <2>2, <2>4, <4>1
      <4>. QED
        BY <4>1, <4>2 DEF Range
    <3>. QED
      BY <3>1, <3>2
  <2>9. Range(rest) \subseteq Range(left)
    BY <2>7 DEF Range
  <2>10. Range(left) \subseteq Range(rest) \union {Head(left)}
    BY <2>8 DEF Range
  <2>. QED
    BY <2>2, <2>3, <2>6, <2>9, <2>10
<1>5. command \in Commands /\ command.phase = "waits" /\ command.left = rest
  <2>1. Top(c) \in Commands
    BY <1>1, StackTypes DEF Changes
  <2>. QED
    BY <1>4, <2>1 DEF WaitingFor, Commands
<1>6. Changes(c, command)
  OBVIOUS
<1>7. ~Running(Head(left))
  OBVIOUS
<1>. HIDE DEF command, rest
<1>8. /\ OnlyTopWaits' /\ Awaits(c)' /\ Top(c)' = command
      /\ Left(c)' = Range(rest)
      /\ \A d \in Contexts \ {c} : (Awaits(d)' <=> Awaits(d)) /\ Top(d)' = Top(d) /\ Left(d)' = Left(d)
  BY <1>1, <1>4, <1>5, <1>6, TopShows
<1>9. \A d \in Contexts : Left(d)' \subseteq Left(d)
  BY <1>2, <1>4, <1>8
<1>10. Apart'
  <2>1. ASSUME NEW d \in Contexts, Awaits(d)'
        PROVE  IsInjective(Top(d).left)'
    <3>1. CASE d = c
      <4>1. Top(d)'.left = rest
        BY <1>5, <1>8, <3>1
      <4>. QED
        BY <1>4, <4>1
    <3>2. CASE d # c
      <4>1. Awaits(d) /\ Top(d)' = Top(d)
        BY <1>8, <2>1, <3>2
      <4>2. IsInjective(Top(d).left)
        BY <1>1, <4>1 DEF Apart
      <4>. QED
        BY <4>1, <4>2
    <3>. QED
      BY <3>1, <3>2
  <2>2. IsInjective(registry)' /\ Range(registry)' = Range(registry)
    BY <1>1 DEF Apart
  <2>3. \A d \in Contexts : Left(d)' \intersect Range(registry)' = {}
    BY <1>1, <1>9, <2>2 DEF Apart
  <2>4. \A d, e \in Contexts : d # e => Left(d)' \intersect Left(e)' = {}
    BY <1>1, <1>9 DEF Apart
  <2>. QED
    BY <2>1, <2>2, <2>3, <2>4 DEF Apart
<1>11. Known'
  <2>. SUFFICES ASSUME NEW p \in ProducerIds
                PROVE  /\ Running(p)' => Kept(p)'
                       /\ Kept(p)' => substitution'[p] # "unused"
    BY DEF Known
  <2>1. ASSUME Running(p)
        PROVE  Kept(p)'
    <3>1. Kept(p) /\ p # Head(left)
      BY <1>1, <1>7, <2>1 DEF Known
    <3>2. \A d \in Contexts : p \in Left(d) => p \in Left(d)'
      BY <1>2, <1>4, <1>8, <3>1
    <3>. QED
      BY <3>1, <3>2 DEF Kept
  <2>2. Kept(p)' => Kept(p)
    BY <1>9 DEF Kept
  <2>. QED
    BY <1>1, <2>1, <2>2 DEF Known, Running
<1>12. Alone'
  BY <1>1, <1>5, <1>6, StillAlone
<1>. QED
  BY <1>8, <1>10, <1>11, <1>12

(* A command gets a producer: nobody keeps one that was not started. *)
LEMMA SubstituteKeeps ==
  ASSUME ProducersInv, NEW c \in Contexts, NEW p \in ProducerIds, Substitute(c, p)
  PROVE  ProgramTypes' /\ OnlyTopWaits' /\ Apart' /\ Known' /\ Alone'
<1>1. ProgramTypes /\ OnlyTopWaits /\ Apart /\ Known /\ Alone
  BY DEF ProducersInv
<1>. DEFINE n == Len(stack[c])
            command == [Top(c) EXCEPT !.made = @ \union {p}]
<1>2. /\ stack[c] # <<>> /\ Top(c).phase = "runs" /\ substitution[p] = "unused"
      /\ substitution' = [substitution EXCEPT ![p] = "writing"]
      /\ registry' = Append(registry, p)
      /\ stack' = OnTop(c, command)
      /\ mixed' = (mixed \/ \E d \in Contexts \ {c} : stack[d] # <<>>)
      /\ UNCHANGED <<inherited, life>>
  BY DEF Substitute, Runs
<1>3. Top(c) \in Commands /\ Top(c) = stack[c][n] /\ n \in Nat /\ n >= 1
  BY <1>1, <1>2, StackTypes
<1>4. command \in Commands /\ command.phase = "runs" /\ command.made = Top(c).made \union {p}
  BY <1>2, <1>3 DEF Commands
<1>. HIDE DEF command
<1>5. Changes(c, command) /\ \A i \in 1 .. n - 1 : stack'[c][i] = stack[c][i]
  BY <1>1, <1>2, <1>4, TopChanges DEF Changes
<1>6. /\ OnlyTopWaits' /\ ~Awaits(c)' /\ Left(c)' = {}
      /\ \A d \in Contexts \ {c} : (Awaits(d)' <=> Awaits(d)) /\ Top(d)' = Top(d) /\ Left(d)' = Left(d)
  BY <1>1, <1>4, <1>5, TopShows
<1>7. Left(c) = {}
  BY <1>2 DEF Left, Awaits
<1>8. \A q \in ProducerIds : substitution'[q] = IF q = p THEN "writing" ELSE substitution[q]
  BY <1>1, <1>2 DEF ProgramTypes
<1>9. ~Kept(p)
  BY <1>1, <1>2 DEF Known
<1>10. /\ registry \in Seq(ProducerIds) /\ registry' \in Seq(ProducerIds)
       /\ DOMAIN registry = 1 .. Len(registry) /\ DOMAIN registry' = 1 .. Len(registry) + 1
       /\ \A i \in 1 .. Len(registry) : registry'[i] = registry[i]
       /\ registry'[Len(registry) + 1] = p
       /\ Len(registry) \in Nat
  BY <1>1, <1>2 DEF ProgramTypes
<1>11. Range(registry)' = Range(registry) \union {p}
  <2>1. ASSUME NEW i \in DOMAIN registry'
        PROVE  registry'[i] \in Range(registry) \union {p}
    <3>1. i \in DOMAIN registry \/ i = Len(registry) + 1
      BY <1>10
    <3>. QED
      BY <1>10, <3>1 DEF Range
  <2>2. ASSUME NEW i \in DOMAIN registry
        PROVE  registry[i] \in Range(registry)'
    <3>1. i \in DOMAIN registry' /\ registry'[i] = registry[i]
      BY <1>10
    <3>. QED
      BY <3>1 DEF Range
  <2>3. p \in Range(registry)'
    <3>1. Len(registry) + 1 \in DOMAIN registry'
      BY <1>10
    <3>. QED
      BY <1>10, <3>1 DEF Range
  <2>. QED
    BY <2>1, <2>2, <2>3 DEF Range
<1>12. IsInjective(registry)'
  <2>1. \A i, j \in DOMAIN registry : registry[i] = registry[j] => i = j
    BY <1>1 DEF Apart, IsInjective
  <2>2. \A i \in DOMAIN registry : registry[i] # p
    BY <1>9 DEF Kept, Range
  <2>. SUFFICES ASSUME NEW i \in DOMAIN registry', NEW j \in DOMAIN registry', registry'[i] = registry'[j]
                PROVE  i = j
    BY DEF IsInjective
  <2>3. /\ i \in DOMAIN registry \/ i = Len(registry) + 1
        /\ j \in DOMAIN registry \/ j = Len(registry) + 1
    BY <1>10
  <2>. QED
    BY <1>10, <2>1, <2>2, <2>3
<1>13. Apart'
  <2>1. ASSUME NEW d \in Contexts, Awaits(d)'
        PROVE  IsInjective(Top(d).left)'
    <3>1. Awaits(d) /\ Top(d)' = Top(d)
      BY <1>6, <2>1
    <3>2. IsInjective(Top(d).left)
      BY <1>1, <3>1 DEF Apart
    <3>. QED
      BY <3>1, <3>2
  <2>2. \A d \in Contexts : Left(d)' = Left(d)
    BY <1>6, <1>7
  <2>3. \A d \in Contexts : Left(d)' \intersect Range(registry)' = {}
    BY <1>1, <1>9, <1>11, <2>2 DEF Apart, Kept
  <2>4. \A d, e \in Contexts : d # e => Left(d)' \intersect Left(e)' = {}
    BY <1>1, <2>2 DEF Apart
  <2>. QED
    BY <1>12, <2>1, <2>3, <2>4 DEF Apart
<1>14. \A q : Kept(q)' <=> Kept(q) \/ q = p
  BY <1>6, <1>7, <1>11 DEF Kept
<1>15. Known'
  BY <1>1, <1>8, <1>14 DEF Known, Running
<1>16. Alone'
  <2>. SUFFICES ASSUME ~mixed'
                PROVE  /\ \A d \in Contexts : inherited'[d] = {}
                       /\ \A d \in Contexts : \A i \in 1 .. Len(stack'[d]) : Reads(d, i)' => Owner(d, i)'
    BY DEF Alone
  <2>1. ~mixed /\ \A d \in Contexts \ {c} : stack[d] = <<>>
    BY <1>2
  <2>2. /\ \A d \in Contexts : inherited[d] = {}
        /\ \A d \in Contexts : \A i \in 1 .. Len(stack[d]) : Reads(d, i) => Owner(d, i)
    BY <1>1, <2>1 DEF Alone
  <2>3. ASSUME NEW d \in Contexts, NEW i \in 1 .. Len(stack'[d]), Reads(d, i)'
        PROVE  Owner(d, i)'
    <3>1. d = c
      BY <1>5, <2>1, <2>3 DEF Changes
    <3>2. Len(stack'[c]) = n /\ stack'[c][n] = command
      BY <1>5 DEF Changes
    <3>3. i = n
      <4>. SUFFICES ASSUME i # n
                    PROVE  FALSE
        OBVIOUS
      <4>1. i \in 1 .. n - 1 /\ i \in 1 .. Len(stack[c])
        BY <1>3, <3>1, <3>2
      <4>2. Reads(c, i)
        BY <1>5, <2>3, <3>1, <4>1 DEF Reads
      <4>. QED
        BY <2>2, <4>1, <4>2 DEF Owner
    <3>4. n \in 1 .. Len(stack[c])
      BY <1>3
    <3>5. Top(c).made \subseteq Range(registry) /\ \A q \in Top(c).made : substitution[q] # "cancelled"
      <4>1. CASE Top(c).made = {}
        BY <4>1
      <4>2. CASE Top(c).made # {}
        <5>1. Reads(c, n)
          BY <1>2, <1>3, <4>2 DEF Reads
        <5>2. Owner(c, n)
          BY <2>2, <3>4, <5>1
        <5>. QED
          BY <1>3, <5>2 DEF Owner
      <4>. QED
        BY <4>1, <4>2
    <3>6. Top(c).made \subseteq ProducerIds
      BY <1>3 DEF Commands
    <3>7. \A q \in command.made : substitution'[q] # "cancelled"
      BY <1>4, <1>8, <3>5, <3>6
    <3>8. \A e \in Contexts \ {c} : stack'[e] = <<>>
      BY <1>5, <2>1 DEF Changes
    <3>9. command.made \subseteq Range(registry)'
      BY <1>4, <1>11, <3>5
    <3>. QED
      BY <3>1, <3>2, <3>3, <3>7, <3>8, <3>9 DEF Owner
  <2>. QED
    BY <1>2, <2>2, <2>3
<1>17. ProgramTypes'
  <2>1. substitution' \in [ProducerIds -> States]
    BY <1>1, <1>2 DEF ProgramTypes, States
  <2>2. mixed' \in BOOLEAN
    BY <1>1, <1>2 DEF ProgramTypes
  <2>3. stack' \in [Contexts -> Seq(Commands)]
    BY <1>5 DEF Changes
  <2>. QED
    BY <1>1, <1>2, <1>10, <2>1, <2>2, <2>3 DEF ProgramTypes, States
<1>. QED
  BY <1>6, <1>13, <1>15, <1>16, <1>17

(* With an empty registry nothing has producers to read from. *)
LEMMA NobodyReads ==
  ASSUME ProgramTypes, Alone, ~mixed, registry = <<>>
  PROVE  \A c \in Contexts : /\ inherited[c] = {} /\ Holds(c) = {}
                             /\ \A i \in 1 .. Len(stack[c]) : ~Reads(c, i)
<1>. SUFFICES ASSUME NEW c \in Contexts
              PROVE  /\ inherited[c] = {} /\ Holds(c) = {}
                     /\ \A i \in 1 .. Len(stack[c]) : ~Reads(c, i)
  OBVIOUS
<1>1. Range(registry) = {}
  BY DEF Range
<1>2. inherited[c] = {}
  BY DEF Alone
<1>3. \A i \in 1 .. Len(stack[c]) : ~Reads(c, i)
  BY <1>1 DEF Alone, Owner, Reads
<1>4. DOMAIN stack[c] = 1 .. Len(stack[c])
  BY StackTypes
<1>5. Holds(c) = {}
  BY <1>2, <1>3, <1>4 DEF Holds, Reads
<1>. QED
  BY <1>2, <1>3, <1>5

LEMMA BeginKeeps ==
  ASSUME ProducersInv, NEW c \in Contexts, NEW kind \in Kinds, Begin(c, kind)
  PROVE  ProgramTypes' /\ OnlyTopWaits' /\ Apart' /\ Known' /\ Alone'
<1>1. ProgramTypes /\ OnlyTopWaits /\ Apart /\ Known /\ Alone
  BY DEF ProducersInv
<1>. DEFINE n == Len(stack[c])
            more == Append(stack[c], Command(kind))
<1>2. /\ stack[c] # <<>> => Top(c).phase = "runs"
      /\ stack' = [stack EXCEPT ![c] = more]
      /\ mixed' = (mixed \/ registry # <<>>)
      /\ UNCHANGED <<inherited, life, registry, substitution>>
  BY DEF Begin, Shares, Runs
<1>3. n \in Nat /\ stack[c] \in Seq(Commands) /\ stack \in [Contexts -> Seq(Commands)]
  BY <1>1, StackTypes
<1>4. Command(kind) \in Commands /\ Command(kind).phase = "runs" /\ Command(kind).made = {}
  BY DEF Command, Commands, Kinds
<1>5. /\ more \in Seq(Commands) /\ Len(more) = n + 1 /\ more[n + 1] = Command(kind)
      /\ \A i \in 1 .. n : more[i] = stack[c][i]
  BY <1>3, <1>4
<1>. HIDE DEF more
<1>6. /\ stack' \in [Contexts -> Seq(Commands)] /\ stack'[c] = more
      /\ \A d \in Contexts \ {c} : stack'[d] = stack[d]
  BY <1>2, <1>3, <1>5
<1>7. \A i \in 1 .. n : stack[c][i].phase # "waits"
  <2>. SUFFICES ASSUME NEW i \in 1 .. n, stack[c][i].phase = "waits"
                PROVE  FALSE
    OBVIOUS
  <2>1. i = n
    BY <1>1 DEF OnlyTopWaits
  <2>2. stack[c] # <<>>
    BY <1>1, <2>1, StackTypes
  <2>3. Top(c) = stack[c][n]
    BY <1>1, <2>2, StackTypes
  <2>. QED
    BY <1>2, <2>1, <2>2, <2>3
<1>8. ~Awaits(c) /\ Left(c) = {}
  BY <1>2 DEF Awaits, Left
<1>9. ~Awaits(c)' /\ Left(c)' = {}
  <2>1. Top(c)' = Command(kind)
    BY <1>5, <1>6 DEF Top, Last
  <2>. QED
    BY <1>4, <2>1 DEF Awaits, Left
<1>10. \A d \in Contexts \ {c} : (Awaits(d)' <=> Awaits(d)) /\ Top(d)' = Top(d) /\ Left(d)' = Left(d)
  BY <1>6, SameWaits
<1>11. \A d \in Contexts : Left(d)' = Left(d)
  BY <1>8, <1>9, <1>10
<1>12. Apart'
  <2>1. ASSUME NEW d \in Contexts, Awaits(d)'
        PROVE  IsInjective(Top(d).left)'
    <3>1. Awaits(d) /\ Top(d)' = Top(d)
      BY <1>9, <1>10, <2>1
    <3>2. IsInjective(Top(d).left)
      BY <1>1, <3>1 DEF Apart
    <3>. QED
      BY <3>1, <3>2
  <2>2. IsInjective(registry)' /\ Range(registry)' = Range(registry)
    BY <1>1, <1>2 DEF Apart
  <2>3. \A d \in Contexts : Left(d)' \intersect Range(registry)' = {}
    BY <1>1, <1>11, <2>2 DEF Apart
  <2>4. \A d, e \in Contexts : d # e => Left(d)' \intersect Left(e)' = {}
    BY <1>1, <1>11 DEF Apart
  <2>. QED
    BY <2>1, <2>2, <2>3, <2>4 DEF Apart
<1>13. OnlyTopWaits'
  <2>. SUFFICES ASSUME NEW d \in Contexts, NEW i \in 1 .. Len(stack'[d]), stack'[d][i].phase = "waits"
                PROVE  i = Len(stack'[d]) /\ stack'[d][i].left # <<>>
    BY DEF OnlyTopWaits
  <2>1. d # c
    <3>. SUFFICES ASSUME d = c
                  PROVE  FALSE
      OBVIOUS
    <3>1. i \in 1 .. n + 1
      BY <1>5, <1>6
    <3>2. i \in 1 .. n \/ i = n + 1
      BY <1>3, <3>1
    <3>. QED
      BY <1>4, <1>5, <1>6, <1>7, <3>2
  <2>2. stack'[d] = stack[d]
    BY <1>6, <2>1
  <2>. QED
    BY <1>1, <2>2 DEF OnlyTopWaits
<1>14. Known'
  <2>1. \A p : Kept(p)' <=> Kept(p)
    BY <1>2, <1>11 DEF Kept
  <2>. QED
    BY <1>1, <1>2, <2>1 DEF Known, Running
<1>15. Alone'
  <2>. SUFFICES ASSUME ~mixed'
                PROVE  /\ \A d \in Contexts : inherited'[d] = {}
                       /\ \A d \in Contexts : \A i \in 1 .. Len(stack'[d]) : ~Reads(d, i)'
    BY DEF Alone
  <2>1. \A d \in Contexts : inherited[d] = {} /\ \A i \in 1 .. Len(stack[d]) : ~Reads(d, i)
    BY <1>1, <1>2, NobodyReads
  <2>2. ASSUME NEW d \in Contexts, NEW i \in 1 .. Len(stack'[d])
        PROVE  ~Reads(d, i)'
    <3>1. CASE d = c /\ i = n + 1
      BY <1>4, <1>5, <1>6, <3>1 DEF Reads
    <3>2. CASE d = c /\ i # n + 1
      <4>1. i \in 1 .. n + 1
        BY <1>5, <1>6, <3>2
      <4>2. i \in 1 .. n
        BY <1>3, <3>2, <4>1
      <4>3. ~Reads(c, i) /\ stack'[c][i] = stack[c][i]
        BY <1>5, <1>6, <2>1, <4>2
      <4>. QED
        BY <3>2, <4>3 DEF Reads
    <3>3. CASE d # c
      <4>1. stack'[d] = stack[d]
        BY <1>6, <3>3
      <4>2. ~Reads(d, i)
        BY <2>1, <4>1
      <4>. QED
        BY <4>1, <4>2 DEF Reads
    <3>. QED
      BY <3>1, <3>2, <3>3
  <2>. QED
    BY <1>2, <2>1, <2>2
<1>16. ProgramTypes'
  <2>1. mixed' \in BOOLEAN
    BY <1>1, <1>2 DEF ProgramTypes
  <2>. QED
    BY <1>1, <1>2, <1>6, <2>1 DEF ProgramTypes
<1>. QED
  BY <1>12, <1>13, <1>14, <1>15, <1>16

(* The list gets what the program holds: nothing until commands mix. *)
LEMMA SpawnListKeeps ==
  ASSUME ProducersInv, SpawnList
  PROVE  ProgramTypes' /\ OnlyTopWaits' /\ Apart' /\ Known' /\ Alone'
<1>1. ProgramTypes /\ OnlyTopWaits /\ Apart /\ Known /\ Alone
  BY DEF ProducersInv
<1>2. /\ life' = [life EXCEPT ![List] = "live"]
      /\ inherited' = [inherited EXCEPT ![List] = Holds(Program)]
      /\ mixed' = (mixed \/ registry # <<>>)
      /\ UNCHANGED <<stack, registry, substitution>>
  BY DEF SpawnList, Shares
<1>3. Holds(Program) \subseteq ProducerIds
  <2>1. Program \in Contexts /\ List \in Contexts
    BY DEF Contexts
  <2>2. \A i \in DOMAIN stack[Program] : stack[Program][i].made \subseteq ProducerIds
    <3>. SUFFICES ASSUME NEW i \in 1 .. Len(stack[Program])
                  PROVE  stack[Program][i].made \subseteq ProducerIds
      BY <1>1, <2>1, StackTypes
    <3>1. stack[Program][i] \in Commands
      BY <1>1, <2>1, StackTypes
    <3>. QED
      BY <3>1 DEF Commands
  <2>3. inherited[Program] \subseteq ProducerIds
    BY <1>1, <2>1 DEF ProgramTypes
  <2>. QED
    BY <2>2, <2>3 DEF Holds
<1>4. ProgramTypes'
  BY <1>1, <1>2, <1>3 DEF ProgramTypes
<1>5. \A d \in Contexts : (Awaits(d)' <=> Awaits(d)) /\ Top(d)' = Top(d) /\ Left(d)' = Left(d)
  BY <1>2, SameWaits
<1>6. OnlyTopWaits'
  BY <1>1, <1>2 DEF OnlyTopWaits
<1>7. Apart'
  <2>1. ASSUME NEW d \in Contexts, Awaits(d)'
        PROVE  IsInjective(Top(d).left)'
    <3>1. Awaits(d) /\ Top(d)' = Top(d)
      BY <1>5, <2>1
    <3>2. IsInjective(Top(d).left)
      BY <1>1, <3>1 DEF Apart
    <3>. QED
      BY <3>1, <3>2
  <2>2. IsInjective(registry)' /\ Range(registry)' = Range(registry)
    BY <1>1, <1>2 DEF Apart
  <2>3. \A d \in Contexts : Left(d)' \intersect Range(registry)' = {}
    BY <1>1, <1>5, <2>2 DEF Apart
  <2>4. \A d, e \in Contexts : d # e => Left(d)' \intersect Left(e)' = {}
    BY <1>1, <1>5 DEF Apart
  <2>. QED
    BY <2>1, <2>2, <2>3, <2>4 DEF Apart
<1>8. Known'
  <2>1. \A p : Kept(p)' <=> Kept(p)
    BY <1>2, <1>5 DEF Kept
  <2>. QED
    BY <1>1, <1>2, <2>1 DEF Known, Running
<1>9. Alone'
  <2>. SUFFICES ASSUME ~mixed'
                PROVE  /\ \A d \in Contexts : inherited'[d] = {}
                       /\ \A d \in Contexts : \A i \in 1 .. Len(stack[d]) : ~Reads(d, i)'
    BY <1>2 DEF Alone
  <2>1. \A d \in Contexts : /\ inherited[d] = {} /\ Holds(d) = {}
                            /\ \A i \in 1 .. Len(stack[d]) : ~Reads(d, i)
    BY <1>1, <1>2, NobodyReads
  <2>2. Program \in Contexts
    BY DEF Contexts
  <2>3. \A d \in Contexts : inherited'[d] = {}
    BY <1>1, <1>2, <2>1, <2>2 DEF ProgramTypes
  <2>4. \A d \in Contexts : \A i \in 1 .. Len(stack[d]) : ~Reads(d, i)'
    BY <1>2, <2>1 DEF Reads
  <2>. QED
    BY <2>3, <2>4
<1>. QED
  BY <1>4, <1>6, <1>7, <1>8, <1>9

(***************************************************************************)
(* The steps by which commands end without waiting.                        *)
(***************************************************************************)
LEMMA OverTypes ==
  ASSUME ProgramTypes, NEW c \in Contexts, NEW dropped, Over(c, dropped)
  PROVE  /\ life' \in [Contexts -> {"new", "live", "over"}]
         /\ inherited' \in [Contexts -> SUBSET ProducerIds]
         /\ \A d \in Contexts : inherited'[d] = inherited[d] \/ inherited'[d] = {}
         /\ registry' \in Seq(ProducerIds)
         /\ GoOn
         /\ \A p \in ProducerIds \intersect dropped : ~Running(p)'
         /\ \/ registry' = registry
            \/ registry' = <<>> /\ \A p \in Range(registry) : ~Running(p)'
<1>1. /\ life' = [life EXCEPT ![c] = "over"]
      /\ inherited' = [inherited EXCEPT ![List] = IF c = List THEN {} ELSE @]
      /\ substitution' = CancelledOf(dropped \union Orphans(c))
      /\ registry' = IF Orphans(c) = {} THEN registry ELSE <<>>
  BY DEF Over
<1>2. /\ GoOn
      /\ \A p \in ProducerIds \intersect (dropped \union Orphans(c)) : ~Running(p)'
  BY <1>1, CancelledOnes
<1>3. Range(registry) \subseteq ProducerIds
  BY DEF ProgramTypes, Range
<1>4. \/ registry' = registry
      \/ registry' = <<>> /\ \A p \in Range(registry) : ~Running(p)'
  <2>1. Orphans(c) = {} \/ Orphans(c) = Range(registry)
    BY DEF Orphans
  <2>. QED
    BY <1>1, <1>2, <1>3, <2>1
<1>5. List \in Contexts
  BY DEF Contexts
<1>6. /\ inherited' \in [Contexts -> SUBSET ProducerIds]
      /\ \A d \in Contexts : inherited'[d] = inherited[d] \/ inherited'[d] = {}
  BY <1>1, <1>5 DEF ProgramTypes
<1>7. life' \in [Contexts -> {"new", "live", "over"}] /\ registry' \in Seq(ProducerIds)
  BY <1>1 DEF ProgramTypes
<1>. QED
  BY <1>2, <1>4, <1>6, <1>7

(* A context whose commands all leave, without a subshell to stop at. *)
LEMMA UncaughtKeeps ==
  ASSUME ProducersInv, NEW c \in Contexts, stack[c] # <<>>, NEW dropped, Left(c) \subseteq dropped,
         Uncaught(c, dropped), UNCHANGED mixed
  PROVE  ProgramTypes' /\ OnlyTopWaits' /\ Apart' /\ Known' /\ Alone'
<1>1. ProgramTypes /\ OnlyTopWaits
  BY DEF ProducersInv
<1>2. Left(c) \subseteq ProducerIds
  BY <1>1, KeptTypes
<1>3. Uncaught(c, dropped) /\ UNCHANGED mixed
  OBVIOUS
<1>4. CutTo(c, 0)
  BY <1>1, EmptyCuts DEF Uncaught
<1>5. /\ life' \in [Contexts -> {"new", "live", "over"}]
      /\ inherited' \in [Contexts -> SUBSET ProducerIds]
      /\ \A d \in Contexts : inherited'[d] = inherited[d] \/ inherited'[d] = {}
      /\ registry' \in Seq(ProducerIds)
      /\ GoOn
      /\ \A p \in ProducerIds \intersect dropped : ~Running(p)'
      /\ \/ registry' = registry
         \/ registry' = <<>> /\ \A p \in Range(registry) : ~Running(p)'
  <2>1. CASE c = List
    BY <1>1, <1>3, <2>1, OverTypes DEF Uncaught
  <2>2. CASE c # List
    <3>1. substitution' = CancelledOf(dropped) /\ UNCHANGED <<inherited, life, registry>>
      BY <1>3, <2>2 DEF Uncaught
    <3>2. GoOn /\ \A p \in ProducerIds \intersect dropped : ~Running(p)'
      BY <1>1, <3>1, CancelledOnes
    <3>. QED
      BY <1>1, <3>1, <3>2 DEF ProgramTypes
  <2>. QED
    BY <2>1, <2>2
<1>6. \A p \in Left(c) : ~Running(p)'
  BY <1>2, <1>5
<1>7. OnlyTopWaits' /\ Apart' /\ Known' /\ Alone'
  BY <1>4, <1>5, <1>6, CutKeeps
<1>8. ProgramTypes'
  BY <1>1, <1>4, <1>5 DEF ProgramTypes, CutTo, GoOn, States
<1>. QED
  BY <1>7, <1>8

LEMMA UnwindKeeps ==
  ASSUME ProducersInv, NEW c \in Contexts, stack[c] # <<>>, NEW dropped, Left(c) \subseteq dropped,
         Unwind(c, dropped)
  PROVE  ProgramTypes' /\ OnlyTopWaits' /\ Apart' /\ Known' /\ Alone'
<1>1. ProgramTypes /\ OnlyTopWaits
  BY DEF ProducersInv
<1>2. Left(c) \subseteq ProducerIds /\ Range(registry) \subseteq ProducerIds
  BY <1>1, KeptTypes
<1>3. UNCHANGED mixed
  BY DEF Unwind
<1>4. CASE Catching(c) # {}
  <2>1. Caught(c, dropped)
    BY <1>4 DEF Unwind
  <2>2. PICK n \in Nat : CutTo(c, n)
    BY <1>1, <1>4, <2>1, CaughtCuts
  <2>3. substitution' = CancelledOf(dropped \union Range(registry)) /\ registry' = <<>> /\ UNCHANGED <<inherited, life>>
    BY <2>1 DEF Caught, TakeTasks
  <2>4. GoOn /\ \A p \in ProducerIds \intersect (dropped \union Range(registry)) : ~Running(p)'
    BY <1>1, <2>3, CancelledOnes
  <2>5. OnlyTopWaits' /\ Apart' /\ Known' /\ Alone'
    BY <1>2, <1>3, <2>2, <2>3, <2>4, CutKeeps
  <2>6. stack' \in [Contexts -> Seq(Commands)] /\ substitution' \in [ProducerIds -> States]
    BY <2>2, <2>4 DEF CutTo, GoOn
  <2>7. registry' \in Seq(ProducerIds)
    BY <2>3
  <2>8. UNCHANGED <<inherited, life, mixed>>
    BY <1>3, <2>3
  <2>9. ProgramTypes'
    BY <1>1, <2>6, <2>7, <2>8 DEF ProgramTypes, States
  <2>. QED
    BY <2>5, <2>9
<1>5. CASE Catching(c) = {}
  <2>1. Uncaught(c, dropped)
    BY <1>5 DEF Unwind
  <2>. QED
    BY <1>3, <2>1, UncaughtKeeps
<1>. QED
  BY <1>4, <1>5

LEMMA FailsKeeps ==
  ASSUME ProducersInv, NEW c \in Contexts, Fails(c)
  PROVE  ProgramTypes' /\ OnlyTopWaits' /\ Apart' /\ Known' /\ Alone'
<1>1. ProgramTypes /\ OnlyTopWaits
  BY DEF ProducersInv
<1>2. /\ stack[c] # <<>> /\ Top(c).phase = "runs" /\ stack' = Popped(c) /\ registry' = <<>>
      /\ substitution' = CancelledOf(Range(registry)) /\ UNCHANGED <<inherited, life, mixed>>
  BY DEF Fails, Executes, TakeTasks
<1>3. PICK n \in Nat : CutTo(c, n)
  BY <1>1, <1>2, PopCuts
<1>4. GoOn /\ \A p \in ProducerIds \intersect Range(registry) : ~Running(p)'
  BY <1>1, <1>2, CancelledOnes
<1>5. Range(registry) \subseteq ProducerIds
  BY <1>1, KeptTypes
<1>6. Left(c) = {}
  BY <1>2 DEF Left, Awaits
<1>7. OnlyTopWaits' /\ Apart' /\ Known' /\ Alone'
  BY <1>2, <1>3, <1>4, <1>5, <1>6, CutKeeps
<1>8. ProgramTypes'
  BY <1>1, <1>2, <1>3, <1>4 DEF ProgramTypes, CutTo, GoOn, States
<1>. QED
  BY <1>7, <1>8

LEMMA SucceedsKeeps ==
  ASSUME ProducersInv, NEW c \in Contexts, Succeeds(c)
  PROVE  ProgramTypes' /\ OnlyTopWaits' /\ Apart' /\ Known' /\ Alone'
<1>1. ProgramTypes /\ OnlyTopWaits
  BY DEF ProducersInv
<1>2. /\ stack[c] # <<>> /\ Top(c).phase = "runs" /\ registry' = <<>>
      /\ stack' = IF registry = <<>> THEN Popped(c) ELSE OnTop(c, WaitingFor(Top(c), registry))
      /\ UNCHANGED <<inherited, life, substitution, mixed>>
  BY DEF Succeeds, Executes, TakeTasks
<1>3. CASE registry = <<>>
  <2>1. PICK n \in Nat : CutTo(c, n)
    BY <1>1, <1>2, <1>3, PopCuts
  <2>2. GoOn
    BY <1>1, <1>2, SameProducers
  <2>3. Left(c) = {}
    BY <1>2 DEF Left, Awaits
  <2>4. OnlyTopWaits' /\ Apart' /\ Known' /\ Alone'
    BY <1>2, <1>3, <2>1, <2>2, <2>3, CutKeeps
  <2>5. ProgramTypes'
    BY <1>1, <1>2, <2>1 DEF ProgramTypes, CutTo
  <2>. QED
    BY <2>4, <2>5
<1>4. CASE registry # <<>>
  <2>. DEFINE command == WaitingFor(Top(c), registry)
  <2>1. command \in Commands /\ command.phase = "waits"
    <3>1. Top(c) \in Commands /\ registry \in Seq(ProducerIds)
      BY <1>1, <1>2, StackTypes DEF ProgramTypes
    <3>. QED
      BY <3>1 DEF WaitingFor, Commands
  <2>2. stack' = OnTop(c, command)
    BY <1>2, <1>4
  <2>3. Changes(c, command) /\ \A i \in 1 .. Len(stack[c]) - 1 : stack'[c][i] = stack[c][i]
    <3>. HIDE DEF command
    <3>. QED
      BY <1>1, <1>2, <2>1, <2>2, TopChanges DEF Changes
  <2>4. OnlyTopWaits' /\ Apart' /\ Known' /\ Alone'
    BY <1>2, <1>4, <2>3, StartsToWait
  <2>5. stack' \in [Contexts -> Seq(Commands)]
    BY <2>3 DEF Changes
  <2>6. ProgramTypes'
    BY <1>1, <1>2, <2>5 DEF ProgramTypes
  <2>. QED
    BY <2>4, <2>6
<1>. QED
  BY <1>3, <1>4

LEMMA JoinedKeeps ==
  ASSUME ProducersInv, NEW c \in Contexts, WaitGoesOn(c)
  PROVE  ProgramTypes' /\ OnlyTopWaits' /\ Apart' /\ Known' /\ Alone'
<1>1. ProgramTypes /\ OnlyTopWaits
  BY DEF ProducersInv
<1>2. /\ Awaits(c) /\ substitution[Head(Top(c).left)] = "ended"
      /\ stack' = IF Len(Top(c).left) = 1 THEN Popped(c) ELSE OnTop(c, WaitingFor(Top(c), Tail(Top(c).left)))
      /\ UNCHANGED <<inherited, life, registry, substitution, mixed>>
  BY DEF WaitGoesOn, Awaited
<1>3. stack[c] # <<>>
  BY <1>2 DEF Awaits
<1>4. Top(c).left \in Seq(ProducerIds) /\ Top(c).left # <<>> /\ Left(c) = Range(Top(c).left)
  BY <1>1, <1>2, KeptTypes
<1>5. ~Running(Head(Top(c).left))
  BY <1>2 DEF Running
<1>6. CASE Len(Top(c).left) = 1
  <2>1. PICK n \in Nat : CutTo(c, n)
    BY <1>1, <1>2, <1>3, <1>6, PopCuts
  <2>2. GoOn
    BY <1>1, <1>2, SameProducers
  <2>. DEFINE left == Top(c).left
  <2>3. left \in Seq(ProducerIds) /\ Len(left) = 1 /\ Left(c) = Range(left)
    BY <1>4, <1>6
  <2>4. ~Running(Head(left))
    BY <1>5
  <2>. HIDE DEF left
  <2>5. Left(c) = {Head(left)}
    BY <2>3 DEF Range
  <2>6. \A p \in Left(c) : ~Running(p)'
    BY <1>2, <2>4, <2>5 DEF Running
  <2>7. OnlyTopWaits' /\ Apart' /\ Known' /\ Alone'
    BY <1>2, <2>1, <2>2, <2>6, CutKeeps
  <2>8. ProgramTypes'
    BY <1>1, <1>2, <2>1 DEF ProgramTypes, CutTo
  <2>. QED
    BY <2>7, <2>8
<1>7. CASE Len(Top(c).left) # 1
  <2>. DEFINE command == WaitingFor(Top(c), Tail(Top(c).left))
  <2>1. command \in Commands /\ command.phase = "waits"
    <3>1. Top(c) \in Commands
      BY <1>1, <1>3, StackTypes
    <3>2. Tail(Top(c).left) \in Seq(ProducerIds)
      BY <1>4
    <3>. QED
      BY <3>1, <3>2 DEF WaitingFor, Commands
  <2>2. stack' = OnTop(c, command)
    BY <1>2, <1>7
  <2>3. Changes(c, command) /\ \A i \in 1 .. Len(stack[c]) - 1 : stack'[c][i] = stack[c][i]
    <3>. HIDE DEF command
    <3>. QED
      BY <1>1, <1>3, <2>1, <2>2, TopChanges DEF Changes
  <2>4. OnlyTopWaits' /\ Apart' /\ Known' /\ Alone'
    BY <1>2, <1>5, <1>7, <2>3, WaitsForTheNext
  <2>5. stack' \in [Contexts -> Seq(Commands)]
    BY <2>3 DEF Changes
  <2>6. ProgramTypes'
    BY <1>1, <1>2, <2>5 DEF ProgramTypes
  <2>. QED
    BY <2>4, <2>6
<1>. QED
  BY <1>6, <1>7

(* `exec` waits like a success, and another place keeps the pipes open. *)
LEMMA ExecKeeps ==
  ASSUME ProducersInv, NEW c \in Contexts, Exec(c)
  PROVE  ProgramTypes' /\ OnlyTopWaits' /\ Apart' /\ Known' /\ Alone'
<1>1. ProgramTypes /\ OnlyTopWaits
  BY DEF ProducersInv
<1>. DEFINE n == Len(stack[c])
            command == WaitingFor(Top(c), registry)
            waiting == OnTop(c, command)
            keeper == Innermost(Catching(c))
            top == [stack[c] EXCEPT ![n] = command]
            kept == [stack[c][keeper] EXCEPT !.made = Holds(c)]
            both == [top EXCEPT ![keeper] = kept]
<1>2. /\ stack[c] # <<>> /\ Top(c).phase = "runs" /\ registry # <<>>
      /\ registry' = <<>> /\ mixed' = TRUE /\ UNCHANGED <<life, substitution>>
  BY DEF Exec, Executes, TakeTasks
<1>3. /\ Catching(c) = {} => stack' = waiting /\ inherited' = [inherited EXCEPT ![c] = Holds(c)]
      /\ Catching(c) # {} => /\ stack' = [waiting EXCEPT ![c] = ReplaceAt(@, keeper, kept)]
                             /\ UNCHANGED inherited
  BY DEF Exec
<1>4. stack \in [Contexts -> Seq(Commands)] /\ stack[c] \in Seq(Commands) /\ n \in Nat /\ n >= 1
  BY <1>1, <1>2, StackTypes
<1>5. command \in Commands
  <2>1. Top(c) \in Commands /\ registry \in Seq(ProducerIds)
    BY <1>1, <1>2, StackTypes DEF ProgramTypes
  <2>. QED
    BY <2>1 DEF WaitingFor, Commands
<1>6. Holds(c) \subseteq ProducerIds
  <2>1. \A i \in DOMAIN stack[c] : stack[c][i].made \subseteq ProducerIds
    <3>1. \A i \in DOMAIN stack[c] : stack[c][i] \in Commands
      BY <1>4
    <3>. QED
      BY <3>1 DEF Commands
  <2>2. inherited[c] \subseteq ProducerIds
    BY <1>1 DEF ProgramTypes
  <2>. QED
    BY <2>1, <2>2 DEF Holds
<1>7. inherited' \in [Contexts -> SUBSET ProducerIds]
  BY <1>1, <1>3, <1>6 DEF ProgramTypes
<1>. HIDE DEF command
<1>8. Changes(c, command)
  <2>1. CASE Catching(c) = {}
    BY <1>1, <1>2, <1>3, <1>5, <2>1, TopChanges DEF Changes
  <2>2. CASE Catching(c) # {}
    <3>1. keeper \in 1 .. n - 1
      BY <1>1, <2>2, CatchingTop
    <3>. HIDE DEF keeper
    <3>2. /\ top \in Seq(Commands) /\ Len(top) = n /\ top[n] = command
          /\ \A i \in 1 .. n - 1 : top[i] = stack[c][i]
      BY <1>4, <1>5
    <3>3. waiting = [stack EXCEPT ![c] = top]
      BY DEF OnTop
    <3>. HIDE DEF top
    <3>4. waiting \in [Contexts -> Seq(Commands)] /\ waiting[c] = top /\ \A d \in Contexts \ {c} : waiting[d] = stack[d]
      BY <1>4, <3>2, <3>3
    <3>5. kept \in Commands /\ kept.phase = top[keeper].phase
      <4>1. stack[c][keeper] \in Commands /\ top[keeper] = stack[c][keeper]
        BY <1>4, <3>1, <3>2
      <4>. QED
        BY <1>6, <4>1 DEF Commands
    <3>. HIDE DEF kept, waiting
    <3>6. stack' = [waiting EXCEPT ![c] = both]
      BY <1>3, <2>2, <3>4 DEF ReplaceAt
    <3>7. both = [top EXCEPT ![keeper] = kept]
      OBVIOUS
    <3>. HIDE DEF both
    <3>9. /\ both \in Seq(Commands) /\ Len(both) = n /\ both[n] = command
          /\ \A i \in 1 .. n - 1 : both[i].phase = top[i].phase
      <4>1. keeper \in 1 .. n /\ keeper # n
        BY <1>4, <3>1
      <4>2. both \in Seq(Commands) /\ Len(both) = n /\ \A i \in 1 .. n : both[i] = IF i = keeper THEN kept ELSE top[i]
        BY <3>2, <3>5, <3>7, <4>1
      <4>3. \A i \in 1 .. n - 1 : i \in 1 .. n
        BY <1>4
      <4>4. n \in 1 .. n
        BY <1>4
      <4>. QED
        BY <3>2, <3>5, <4>1, <4>2, <4>3, <4>4
    <3>10. /\ stack' \in [Contexts -> Seq(Commands)] /\ stack'[c] = both
           /\ \A d \in Contexts \ {c} : stack'[d] = stack[d]
      BY <3>4, <3>6, <3>9
    <3>. QED
      BY <1>2, <3>2, <3>9, <3>10 DEF Changes
  <2>. QED
    BY <2>1, <2>2
<1>9. OnlyTopWaits' /\ Apart' /\ Known' /\ Alone'
  BY <1>2, <1>8, StartsToWait DEF command
<1>10. stack' \in [Contexts -> Seq(Commands)]
  BY <1>8 DEF Changes
<1>11. ProgramTypes'
  BY <1>1, <1>2, <1>7, <1>10 DEF ProgramTypes
<1>. QED
  BY <1>9, <1>11

(* The last context takes the registry and its producers with it. *)
LEMMA ContextEndsKeeps ==
  ASSUME ProducersInv, NEW c \in Contexts, stack[c] = <<>>, Over(c, {}), UNCHANGED <<stack, mixed>>
  PROVE  ProgramTypes' /\ OnlyTopWaits' /\ Apart' /\ Known' /\ Alone'
<1>1. ProgramTypes /\ OnlyTopWaits /\ OnlyLiveRun /\ Apart /\ Known /\ Alone
  BY DEF ProducersInv
<1>2. stack[c] = <<>> /\ Over(c, {}) /\ UNCHANGED <<stack, mixed>>
  OBVIOUS
<1>3. /\ life' \in [Contexts -> {"new", "live", "over"}]
      /\ inherited' \in [Contexts -> SUBSET ProducerIds]
      /\ \A d \in Contexts : inherited'[d] = inherited[d] \/ inherited'[d] = {}
      /\ registry' \in Seq(ProducerIds)
      /\ GoOn
  BY <1>1, <1>2, OverTypes
<1>4. ProgramTypes'
  BY <1>1, <1>2, <1>3 DEF ProgramTypes, GoOn, States
<1>5. substitution' = CancelledOf(Orphans(c)) /\ registry' = IF Orphans(c) = {} THEN registry ELSE <<>>
  BY <1>2 DEF Over, CancelledOf
<1>6. CASE Orphans(c) = {}
  <2>1. registry' = registry
    BY <1>5, <1>6
  <2>2. \A p \in ProducerIds : substitution'[p] = substitution[p]
    BY <1>1, <1>5, <1>6, CancelledOnes
  <2>. QED
    BY <1>2, <1>3, <1>4, <2>1, <2>2, ProducersGoOn
<1>7. CASE Orphans(c) # {}
  <2>1. registry' = <<>> /\ Orphans(c) = Range(registry) /\ \A d \in Contexts \ {c} : life[d] # "live"
    BY <1>5, <1>7 DEF Orphans
  <2>2. \A d \in Contexts : stack[d] = <<>> /\ stack'[d] = <<>>
    BY <1>1, <1>2, <2>1 DEF OnlyLiveRun
  <2>3. \A d \in Contexts : Left(d) = {} /\ ~Awaits(d)' /\ Left(d)' = {}
    BY <2>2 DEF Left, Awaits
  <2>4. Range(registry)' = {} /\ IsInjective(registry)'
    BY <2>1 DEF Range, IsInjective
  <2>5. Apart'
    BY <2>3, <2>4 DEF Apart
  <2>6. OnlyTopWaits'
    BY <1>1, <1>2 DEF OnlyTopWaits
  <2>7. Known'
    <3>1. \A p : ~Kept(p)'
      BY <2>3, <2>4 DEF Kept
    <3>2. \A p \in ProducerIds : ~Running(p)'
      <4>. SUFFICES ASSUME NEW p \in ProducerIds, Running(p)'
                    PROVE  FALSE
        OBVIOUS
      <4>1. Kept(p)
        BY <1>1, <1>3 DEF GoOn, Known
      <4>2. p \in Orphans(c)
        BY <2>1, <2>3, <4>1 DEF Kept
      <4>. QED
        BY <1>1, <1>5, <4>2, CancelledOnes
    <3>. QED
      BY <3>1, <3>2 DEF Known
  <2>8. Alone'
    <3>. SUFFICES ASSUME ~mixed'
                  PROVE  /\ \A d \in Contexts : inherited'[d] = {}
                         /\ \A d \in Contexts : \A i \in 1 .. Len(stack'[d]) : ~Reads(d, i)'
      BY DEF Alone
    <3>1. \A d \in Contexts : inherited'[d] = {}
      BY <1>1, <1>2, <1>3 DEF Alone
    <3>2. \A d \in Contexts : Len(stack'[d]) = 0
      BY <2>2
    <3>. QED
      BY <3>1, <3>2
  <2>. QED
    BY <1>4, <2>5, <2>6, <2>7, <2>8
<1>. QED
  BY <1>6, <1>7

(* The steps of the producers themselves. *)
LEMMA ProducerStepsKeep ==
  ASSUME ProducersInv, NEW p \in ProducerIds, NEW s \in {"writing", "blocked", "ended", "erred"},
         Running(p), substitution' = [substitution EXCEPT ![p] = s],
         UNCHANGED <<stack, inherited, life, registry, mixed>>
  PROVE  ProgramTypes' /\ OnlyTopWaits' /\ Apart' /\ Known' /\ Alone'
<1>1. ProgramTypes
  BY DEF ProducersInv
<1>2. \A q \in ProducerIds : substitution'[q] = IF q = p THEN s ELSE substitution[q]
  BY <1>1 DEF ProgramTypes
<1>3. substitution' \in [ProducerIds -> States]
  BY <1>1 DEF ProgramTypes, States
<1>4. GoOn
  BY <1>2, <1>3 DEF GoOn, Running
<1>5. \A q \in ProducerIds : substitution'[q] = "cancelled" => substitution[q] = "cancelled"
  BY <1>2
<1>6. OnlyTopWaits' /\ Apart' /\ Known' /\ Alone'
  BY <1>4, <1>5, ProducersGoOn
<1>7. ProgramTypes'
  BY <1>1, <1>3 DEF ProgramTypes, States
<1>. QED
  BY <1>6, <1>7

-----------------------------------------------------------------------------
(***************************************************************************)
(* Only contexts that live have commands, and the registry ends with them. *)
(***************************************************************************)
(* A list whose future is destroyed, in the middle of a command or not. *)
LEMMA ListDestroyedKeeps ==
  ASSUME ProducersInv, ListDestroyed
  PROVE  ProgramTypes' /\ OnlyTopWaits' /\ Apart' /\ Known' /\ Alone'
<1>1. List \in Contexts /\ stack \in [Contexts -> Seq(Commands)]
  BY DEF Contexts, ProducersInv, ProgramTypes
<1>2. /\ stack' = [stack EXCEPT ![List] = <<>>]
      /\ Over(List, Left(List)) /\ UNCHANGED mixed
  BY DEF ListDestroyed, Left
<1>3. CASE stack[List] = <<>>
  <2>1. UNCHANGED stack /\ Left(List) = {}
    BY <1>1, <1>2, <1>3 DEF Left, Awaits
  <2>. QED
    BY <1>1, <1>2, <1>3, <2>1, ContextEndsKeeps
<1>4. CASE stack[List] # <<>>
  <2>1. Uncaught(List, Left(List))
    BY <1>2 DEF Uncaught
  <2>. QED
    BY <1>1, <1>2, <1>4, <2>1, UncaughtKeeps
<1>. QED
  BY <1>3, <1>4

LEMMA LivesStay ==
  ASSUME ProducersInv, NEW c \in Contexts, life[c] = "live", UNCHANGED life,
         \A d \in Contexts \ {c} : stack'[d] = stack[d]
  PROVE  OnlyLiveRun' /\ EmptyAtTheEnd'
BY DEF ProducersInv, OnlyLiveRun, EmptyAtTheEnd

LEMMA LivesOver ==
  ASSUME ProducersInv, NEW c \in Contexts, NEW dropped, Over(c, dropped), stack'[c] = <<>>,
         \A d \in Contexts \ {c} : stack'[d] = stack[d]
  PROVE  OnlyLiveRun' /\ EmptyAtTheEnd'
<1>1. ProgramTypes /\ OnlyLiveRun
  BY DEF ProducersInv
<1>2. /\ life' = [life EXCEPT ![c] = "over"]
      /\ registry' = IF Orphans(c) = {} THEN registry ELSE <<>>
  BY DEF Over
<1>3. \A d \in Contexts \ {c} : life'[d] = life[d]
  BY <1>1, <1>2 DEF ProgramTypes
<1>4. OnlyLiveRun'
  BY <1>1, <1>3 DEF OnlyLiveRun
<1>5. EmptyAtTheEnd'
  <2>. SUFFICES ASSUME \A d \in Contexts : life'[d] # "live", registry' # <<>>
                PROVE  FALSE
    BY DEF EmptyAtTheEnd
  <2>1. \A d \in Contexts \ {c} : life[d] # "live"
    BY <1>3
  <2>2. Range(registry) = {} /\ registry # <<>>
    BY <1>2, <2>1 DEF Orphans
  <2>3. registry \in Seq(ProducerIds)
    BY <1>1 DEF ProgramTypes
  <2>4. 1 \in DOMAIN registry
    BY <2>2, <2>3
  <2>. QED
    BY <2>2, <2>4 DEF Range
<1>. QED
  BY <1>4, <1>5

LEMMA LivesOfUnwind ==
  ASSUME ProducersInv, NEW c \in Contexts, stack[c] # <<>>, NEW dropped, Unwind(c, dropped)
  PROVE  OnlyLiveRun' /\ EmptyAtTheEnd'
<1>1. stack \in [Contexts -> Seq(Commands)] /\ life[c] = "live"
  BY DEF ProducersInv, ProgramTypes, OnlyLiveRun
<1>2. CASE Catching(c) # {}
  <2>1. UNCHANGED life /\ \A d \in Contexts \ {c} : stack'[d] = stack[d]
    BY <1>1, <1>2 DEF Unwind, Caught
  <2>. QED
    BY <1>1, <2>1, LivesStay
<1>3. CASE Catching(c) = {}
  <2>1. stack'[c] = <<>> /\ \A d \in Contexts \ {c} : stack'[d] = stack[d]
    BY <1>1, <1>3 DEF Unwind, Uncaught
  <2>2. CASE c = List
    <3>1. Over(c, dropped)
      BY <1>3, <2>2 DEF Unwind, Uncaught
    <3>. QED
      BY <2>1, <3>1, LivesOver
  <2>3. CASE c # List
    <3>1. UNCHANGED life
      BY <1>3, <2>3 DEF Unwind, Uncaught
    <3>. QED
      BY <1>1, <2>1, <3>1, LivesStay
  <2>. QED
    BY <2>2, <2>3
<1>. QED
  BY <1>2, <1>3

-----------------------------------------------------------------------------
LEMMA ProducersInit == ProgramInit => ProducersInv
<1>. SUFFICES ASSUME ProgramInit
              PROVE  ProducersInv
  OBVIOUS
<1>1. /\ \A c \in Contexts : stack[c] = <<>> /\ inherited[c] = {}
      /\ registry = <<>> /\ mixed = FALSE
      /\ \A p \in ProducerIds : substitution[p] = "unused"
      /\ life[Program] = "live"
  BY DEF ProgramInit, Contexts
<1>2. ProgramTypes
  <2>1. <<>> \in Seq(Commands) /\ <<>> \in Seq(ProducerIds)
    OBVIOUS
  <2>. QED
    BY <2>1 DEF ProgramInit, ProgramTypes
<1>3. \A c \in Contexts : ~Awaits(c) /\ Left(c) = {} /\ Len(stack[c]) = 0
  BY <1>1 DEF Awaits, Left
<1>4. Range(registry) = {} /\ IsInjective(registry)
  BY <1>1 DEF Range, IsInjective
<1>5. Apart /\ Known
  BY <1>1, <1>3, <1>4 DEF Apart, Known, Kept, Running
<1>6. OnlyTopWaits /\ Alone
  BY <1>1, <1>3 DEF OnlyTopWaits, Alone
<1>7. OnlyLiveRun /\ EmptyAtTheEnd
  BY <1>1 DEF OnlyLiveRun, EmptyAtTheEnd
<1>. QED
  BY <1>2, <1>5, <1>6, <1>7 DEF ProducersInv

LEMMA ProducersNext == ProducersInv /\ [ProgramNext]_program_vars => ProducersInv'
<1>. SUFFICES ASSUME ProducersInv, [ProgramNext]_program_vars
              PROVE  ProducersInv'
  OBVIOUS
<1>. DEFINE Rest == ProgramTypes /\ OnlyTopWaits /\ Apart /\ Known /\ Alone
            Lives == OnlyLiveRun /\ EmptyAtTheEnd
<1>0. /\ stack \in [Contexts -> Seq(Commands)]
      /\ \A c \in Contexts : stack[c] # <<>> => life[c] = "live"
  BY DEF ProducersInv, ProgramTypes, OnlyLiveRun
<1>1. CASE SpawnList
  <2>1. Rest'
    BY <1>1, SpawnListKeeps
  <2>2. Lives'
    <3>1. List \in Contexts
      BY DEF Contexts
    <3>2. \A c \in Contexts : life[c] = "live" => life'[c] = "live"
      BY <1>1 DEF SpawnList, ProducersInv, ProgramTypes
    <3>3. life'[List] = "live" /\ UNCHANGED stack
      BY <1>1, <3>1 DEF SpawnList, ProducersInv, ProgramTypes
    <3>. QED
      BY <3>1, <3>2, <3>3 DEF ProducersInv, OnlyLiveRun, EmptyAtTheEnd
  <2>. QED
    BY <2>1, <2>2 DEF ProducersInv
<1>2. ASSUME NEW c \in Contexts, NEW kind \in Kinds, Begin(c, kind)
      PROVE  ProducersInv'
  <2>1. Rest'
    BY <1>2, BeginKeeps
  <2>2. Lives'
    <3>1. life[c] = "live" /\ UNCHANGED life /\ \A d \in Contexts \ {c} : stack'[d] = stack[d]
      BY <1>0, <1>2 DEF Begin, Runs
    <3>. QED
      BY <3>1, LivesStay
  <2>. QED
    BY <2>1, <2>2 DEF ProducersInv
<1>3. ASSUME NEW c \in Contexts, NEW p \in ProducerIds, Substitute(c, p)
      PROVE  ProducersInv'
  <2>1. Rest'
    BY <1>3, SubstituteKeeps
  <2>2. Lives'
    <3>1. life[c] = "live" /\ UNCHANGED life /\ \A d \in Contexts \ {c} : stack'[d] = stack[d]
      BY <1>0, <1>3 DEF Substitute, Runs, OnTop
    <3>. QED
      BY <3>1, LivesStay
  <2>. QED
    BY <2>1, <2>2 DEF ProducersInv
<1>4. ASSUME NEW p \in ProducerIds, NEW s \in {"writing", "blocked", "ended", "erred"},
             Running(p), substitution' = [substitution EXCEPT ![p] = s],
             UNCHANGED <<stack, inherited, life, registry, mixed>>
      PROVE  ProducersInv'
  <2>1. Rest'
    BY <1>4, ProducerStepsKeep
  <2>2. Lives'
    BY <1>4 DEF ProducersInv, OnlyLiveRun, EmptyAtTheEnd
  <2>. QED
    BY <2>1, <2>2 DEF ProducersInv
<1>5. ASSUME NEW c \in Contexts, NEW p \in ProducerIds, Read(c, p)
      PROVE  ProducersInv'
  BY <1>4, <1>5 DEF Read, Running
<1>6. ASSUME NEW p \in ProducerIds, Blocks(p)
      PROVE  ProducersInv'
  BY <1>4, <1>6 DEF Blocks, Running
<1>7. ASSUME NEW p \in ProducerIds, Finish(p)
      PROVE  ProducersInv'
  BY <1>4, <1>7 DEF Finish
<1>8. ASSUME NEW c \in Contexts, Succeeds(c)
      PROVE  ProducersInv'
  <2>1. Rest'
    BY <1>8, SucceedsKeeps
  <2>2. Lives'
    <3>1. life[c] = "live" /\ UNCHANGED life /\ \A d \in Contexts \ {c} : stack'[d] = stack[d]
      BY <1>0, <1>8 DEF Succeeds, Executes, Popped, OnTop
    <3>. QED
      BY <3>1, LivesStay
  <2>. QED
    BY <2>1, <2>2 DEF ProducersInv
<1>9. ASSUME NEW c \in Contexts, Exec(c)
      PROVE  ProducersInv'
  <2>1. Rest'
    BY <1>9, ExecKeeps
  <2>2. Lives'
    <3>1. life[c] = "live" /\ UNCHANGED life
      BY <1>0, <1>9 DEF Exec, Executes
    <3>2. \A d \in Contexts \ {c} : stack'[d] = stack[d]
      BY <1>0, <1>9 DEF Exec, Executes, OnTop
    <3>. QED
      BY <3>1, <3>2, LivesStay
  <2>. QED
    BY <2>1, <2>2 DEF ProducersInv
<1>10. ASSUME NEW c \in Contexts, Fails(c)
       PROVE  ProducersInv'
  <2>1. Rest'
    BY <1>10, FailsKeeps
  <2>2. Lives'
    <3>1. life[c] = "live" /\ UNCHANGED life /\ \A d \in Contexts \ {c} : stack'[d] = stack[d]
      BY <1>0, <1>10 DEF Fails, Executes, Popped
    <3>. QED
      BY <3>1, LivesStay
  <2>. QED
    BY <2>1, <2>2 DEF ProducersInv
<1>11. ASSUME NEW c \in Contexts, Errs(c)
       PROVE  ProducersInv'
  <2>1. stack[c] # <<>> /\ Left(c) \subseteq {} /\ Unwind(c, {})
    BY <1>11 DEF Errs, Executes, Left, Awaits
  <2>2. Rest'
    BY <2>1, UnwindKeeps
  <2>3. Lives'
    BY <2>1, LivesOfUnwind
  <2>. QED
    BY <2>2, <2>3 DEF ProducersInv
<1>12. ASSUME NEW c \in Contexts, WaitFails(c)
       PROVE  ProducersInv'
  <2>. DEFINE dropped == Range(Top(c).left)
  <2>1. stack[c] # <<>> /\ Left(c) \subseteq dropped /\ Unwind(c, dropped)
    BY <1>12 DEF WaitFails, Left, Awaits
  <2>. HIDE DEF dropped
  <2>2. Rest'
    BY <2>1, UnwindKeeps
  <2>3. Lives'
    BY <2>1, LivesOfUnwind
  <2>. QED
    BY <2>2, <2>3 DEF ProducersInv
<1>13. ASSUME NEW c \in Contexts, ContextEnds(c)
       PROVE  ProducersInv'
  <2>1. Rest'
    BY <1>13, ContextEndsKeeps DEF ContextEnds
  <2>2. Lives'
    <3>1. Over(c, {}) /\ stack'[c] = <<>> /\ \A d \in Contexts \ {c} : stack'[d] = stack[d]
      BY <1>13 DEF ContextEnds
    <3>. QED
      BY <3>1, LivesOver
  <2>. QED
    BY <2>1, <2>2 DEF ProducersInv
<1>14. ASSUME NEW c \in Contexts, WaitGoesOn(c)
       PROVE  ProducersInv'
  <2>1. Rest'
    BY <1>14, JoinedKeeps
  <2>2. Lives'
    <3>1. life[c] = "live" /\ UNCHANGED life /\ \A d \in Contexts \ {c} : stack'[d] = stack[d]
      BY <1>0, <1>14 DEF WaitGoesOn, Awaits, Popped, OnTop
    <3>. QED
      BY <3>1, LivesStay
  <2>. QED
    BY <2>1, <2>2 DEF ProducersInv
<1>15. CASE ListDestroyed
  <2>1. Rest'
    BY <1>15, ListDestroyedKeeps
  <2>2. Lives'
    <3>1. /\ Over(List, Left(List)) /\ stack'[List] = <<>> /\ List \in Contexts
          /\ \A d \in Contexts \ {List} : stack'[d] = stack[d]
      BY <1>0, <1>15 DEF ListDestroyed, Left, Contexts
    <3>. QED
      BY <3>1, LivesOver
  <2>. QED
    BY <2>1, <2>2 DEF ProducersInv
<1>16. CASE UNCHANGED program_vars
  <2>1. ProgramTypes'
    BY <1>16 DEF program_vars, ProducersInv, ProgramTypes
  <2>2. GoOn
    BY <1>16, SameProducers DEF program_vars, ProducersInv
  <2>3. OnlyTopWaits' /\ Apart' /\ Known' /\ Alone'
    BY <1>16, <2>2, ProducersGoOn DEF program_vars
  <2>4. Lives'
    BY <1>16 DEF program_vars, ProducersInv, OnlyLiveRun, EmptyAtTheEnd
  <2>. QED
    BY <2>1, <2>3, <2>4 DEF ProducersInv
<1>. QED
  BY <1>1, <1>2, <1>3, <1>5, <1>6, <1>7, <1>8, <1>9, <1>10, <1>11, <1>12, <1>13, <1>14, <1>15, <1>16 DEF ProgramNext

(***************************************************************************)
(* In every execution the invariant holds of contexts, registry and        *)
(* producers, for any bounds.                                              *)
(***************************************************************************)
THEOREM ProducersInvariant == ProgramSpec => []ProducersInv
BY ProducersInit, ProducersNext, PTL DEF ProgramSpec

LEMMA JobNext == ProducersInv /\ JobTypes /\ [ProgramNext]_program_vars => JobTypes'
<1>. SUFFICES ASSUME ProducersInv, JobTypes, [ProgramNext]_program_vars
              PROVE  JobTypes'
  OBVIOUS
<1>1. CASE SpawnList
  <2>. DEFINE S == Subshells(Program)
              n == Len(stack[Program])
  <2>1. n \in Nat /\ S \in SUBSET (0 .. n)
    BY DEF Contexts, Subshells, ProducersInv, ProgramTypes
  <2>2. stopped' = stopped /\ home' = IF S = {} THEN 0 ELSE Innermost(S)
    BY <1>1 DEF SpawnList
  <2>. HIDE DEF S, n
  <2>3. S # {} => \E i \in S : \A j \in S : j <= i
    BY <2>1, GreatestExists
  <2>4. S # {} => Innermost(S) \in S
    BY <2>3 DEF Innermost
  <2>. QED
    BY <2>1, <2>2, <2>4 DEF JobTypes
<1>2. CASE \/ UNCHANGED <<home, stopped>>
           \/ \E c, n : ShellsDropped(c, n)
           \/ \E c, dropped : Over(c, dropped)
  <2>. home \in Nat /\ stopped \in BOOLEAN
    BY DEF JobTypes
  <2>1. CASE UNCHANGED <<home, stopped>>
    BY <2>1 DEF JobTypes
  <2>2. ASSUME NEW c, NEW n, ShellsDropped(c, n)
        PROVE  JobTypes'
    <3>1. home' = home /\ stopped' \in BOOLEAN
      BY <2>2 DEF ShellsDropped
    <3>. QED
      BY <3>1 DEF JobTypes
  <2>3. ASSUME NEW c, NEW dropped, Over(c, dropped)
        PROVE  JobTypes'
    <3>1. home' \in Nat /\ stopped' \in BOOLEAN
      BY <2>3 DEF Over
    <3>. QED
      BY <3>1 DEF JobTypes
  <2>. QED
    BY <1>2, <2>1, <2>2, <2>3
<1>3. ASSUME NEW c \in Contexts,
             \/ \E kind \in Kinds : Begin(c, kind)
             \/ \E p \in ProducerIds : Substitute(c, p) \/ Read(c, p)
             \/ Exec(c) \/ WaitGoesOn(c)
      PROVE  JobTypes'
  BY <1>2, <1>3 DEF Begin, Substitute, Read, Exec, WaitGoesOn
<1>4. CASE \E c \in Contexts : Succeeds(c) \/ Fails(c)
  BY <1>2, <1>4 DEF Succeeds, Fails
<1>5. CASE \E c \in Contexts : Errs(c) \/ WaitFails(c)
  <2>1. PICK c \in Contexts : Errs(c) \/ WaitFails(c)
    BY <1>5
  <2>2. PICK dropped : Unwind(c, dropped)
    BY <2>1 DEF Errs, WaitFails
  <2>3. CASE Caught(c, dropped)
    BY <1>2, <2>3 DEF Caught
  <2>4. CASE Uncaught(c, dropped)
    BY <1>2, <2>4 DEF Uncaught
  <2>. QED
    BY <2>2, <2>3, <2>4 DEF Unwind
<1>6. CASE ListDestroyed \/ \E c \in Contexts : ContextEnds(c)
  BY <1>2, <1>6 DEF ListDestroyed, ContextEnds
<1>7. CASE (\E p \in ProducerIds : Blocks(p) \/ Finish(p)) \/ UNCHANGED program_vars
  BY <1>2, <1>7 DEF Blocks, Finish, program_vars
<1>8. CASE ProgramNext
  <2>1. CASE \E c \in Contexts :
               \/ \E kind \in Kinds : Begin(c, kind)
               \/ \E p \in ProducerIds : Substitute(c, p) \/ Read(c, p)
               \/ Succeeds(c) \/ Exec(c) \/ Fails(c) \/ Errs(c) \/ ContextEnds(c)
               \/ WaitGoesOn(c) \/ WaitFails(c)
    <3>1. PICK c \in Contexts :
                 \/ \/ \E kind \in Kinds : Begin(c, kind)
                    \/ \E p \in ProducerIds : Substitute(c, p) \/ Read(c, p)
                    \/ Exec(c) \/ WaitGoesOn(c)
                 \/ Succeeds(c) \/ Fails(c)
                 \/ Errs(c) \/ WaitFails(c)
                 \/ ContextEnds(c)
      BY <2>1, Zenon
    <3>2. CASE \/ \E kind \in Kinds : Begin(c, kind)
               \/ \E p \in ProducerIds : Substitute(c, p) \/ Read(c, p)
               \/ Exec(c) \/ WaitGoesOn(c)
      BY <3>2, <1>3, Zenon
    <3>3. CASE Succeeds(c) \/ Fails(c)
      BY <3>3, <1>4, Zenon
    <3>4. CASE Errs(c) \/ WaitFails(c)
      BY <3>4, <1>5, Zenon
    <3>5. CASE ContextEnds(c)
      BY <3>5, <1>6, Zenon
    <3>. QED
      BY <3>1, <3>2, <3>3, <3>4, <3>5, Zenon
  <2>2. CASE \E p \in ProducerIds : Blocks(p) \/ Finish(p)
    BY <2>2, <1>7
  <2>. QED
    BY <1>8, <2>1, <2>2, <1>1, <1>6, Zenon DEF ProgramNext
<1>. QED
  BY <1>7, <1>8

(* Every variable keeps its type (the state of Command::execute_in_pipeline). *)
THEOREM ProducerTypes == ProgramSpec => [](ProgramTypes /\ JobTypes)
<1>1. ProgramInit => JobTypes
  <2>. SUFFICES ASSUME ProgramInit
                PROVE  home \in Nat /\ stopped \in BOOLEAN
    BY DEF JobTypes
  <2>1. home = 0 /\ stopped = FALSE
    BY DEF ProgramInit
  <2>. QED
    BY <2>1
<1>2. ProducersInv => ProgramTypes
  BY DEF ProducersInv
<1>. QED
  BY <1>1, <1>2, JobNext, ProducersInvariant, PTL DEF ProgramSpec

-----------------------------------------------------------------------------
(* The keepers are the registry and the contexts that wait. *)
LEMMA KeeperOf ==
  ASSUME ProducersInv, NEW p \in ProducerIds, Kept(p)
  PROVE  Cardinality(KeepersOf(p)) = 1
<1>1. Apart /\ ProgramTypes /\ OnlyTopWaits
  BY DEF ProducersInv
<1>. DEFINE here == <<"registry", registry>>
            at(c) == <<c, Top(c).left>>
<1>2. \A c \in Contexts : Awaits(c) => Left(c) = Range(Top(c).left)
  BY DEF Left
<1>3. \A k : k \in KeepersOf(p) <=> \/ k = here /\ p \in Range(registry)
                                    \/ \E c \in Contexts : Awaits(c) /\ k = at(c) /\ p \in Left(c)
  BY <1>2 DEF KeepersOf, Keepers
<1>. HIDE DEF here, at
<1>4. CASE p \in Range(registry)
  <2>1. \A c \in Contexts : p \notin Left(c)
    BY <1>1, <1>4 DEF Apart
  <2>2. KeepersOf(p) = {here}
    BY <1>3, <1>4, <2>1
  <2>. QED
    BY <2>2, FS_Singleton
<1>5. CASE p \notin Range(registry)
  <2>1. PICK c \in Contexts : p \in Left(c)
    BY <1>5 DEF Kept
  <2>2. Awaits(c)
    BY <2>1 DEF Left
  <2>3. \A d \in Contexts : p \in Left(d) => d = c
    BY <1>1, <2>1 DEF Apart
  <2>4. KeepersOf(p) = {at(c)}
    BY <1>3, <1>5, <2>1, <2>2, <2>3
  <2>. QED
    BY <2>4, FS_Singleton
<1>. QED
  BY <1>4, <1>5

(***************************************************************************)
(* A producer that runs is in exactly one place from which it is waited    *)
(* for or cancelled, none is kept twice, and none is left when the last    *)
(* context has ended: execute_in_pipeline and what `?` leaves behind.      *)
(***************************************************************************)
THEOREM ProducersKeptOnce == ProgramSpec => []KeptOnce
<1>1. ProducersInv => KeptOnce
  <2>. SUFFICES ASSUME ProducersInv
                PROVE  KeptOnce
    OBVIOUS
  <2>1. \A p \in ProducerIds : Running(p) => Cardinality(KeepersOf(p)) = 1
    BY KeeperOf DEF ProducersInv, Known
  <2>2. \A k \in Keepers : IsInjective(k[2])
    BY DEF ProducersInv, Apart, Keepers
  <2>. QED
    BY <2>1, <2>2 DEF ProducersInv, EmptyAtTheEnd, KeptOnce
<1>. QED
  BY <1>1, ProducersInvariant, PTL

(***************************************************************************)
(* As long as each command is alone with its producers, none is cancelled  *)
(* while the command it was made for can still read from it.               *)
(***************************************************************************)
THEOREM CancelledOnlyUnread == ProgramSpec => []AloneCancelledWithItsConsumer
<1>1. ProducersInv => AloneCancelledWithItsConsumer
  <2>. SUFFICES ASSUME ProducersInv, ~mixed, NEW p \in ProducerIds, HasReader(p)
                PROVE  substitution[p] # "cancelled"
    BY DEF AloneCancelledWithItsConsumer, CancelledWithItsConsumer
  <2>1. ProgramTypes /\ Alone
    BY DEF ProducersInv
  <2>2. PICK c \in Contexts : p \in Holds(c)
    BY DEF HasReader
  <2>3. inherited[c] = {} /\ DOMAIN stack[c] = 1 .. Len(stack[c])
    BY <2>1, StackTypes DEF Alone
  <2>4. PICK i \in 1 .. Len(stack[c]) : stack[c][i].phase = "runs" /\ p \in stack[c][i].made
    BY <2>2, <2>3 DEF Holds
  <2>5. Owner(c, i)
    BY <2>1, <2>4 DEF Alone, Reads
  <2>. QED
    BY <2>4, <2>5 DEF Owner
<1>. QED
  BY <1>1, ProducersInvariant, PTL

=============================================================================
