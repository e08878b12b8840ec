----------------------------- MODULE JobsProofs -----------------------------
(***************************************************************************)
(* Proofs about module Jobs, for any number of jobs and tasks: JobsInv is  *)
(* inductive, hence the type invariant, DesignatorsNameNewest and          *)
(* NoOrphanTask hold; with ResultsKept added it implies                    *)
(* ReportIsFinalStatus; and the table implements module JobTable.          *)
(***************************************************************************)
EXTENDS Jobs, NatFacts

USE JobsAssumption

-----------------------------------------------------------------------------
(* The newest job of a set of jobs. *)

LEMMA NewestIn ==
  ASSUME NEW S \in SUBSET Ids, S # {}
  PROVE  Newest(S) \in S /\ \A x \in S : x <= Newest(S)
<1>1. S \in SUBSET (0 .. MaxJobs)
  BY DEF Ids
<1>2. \E m \in S : \A x \in S : x <= m
  BY <1>1, GreatestExists
<1>. QED
  BY <1>2 DEF Newest

LEMMA NewestIs ==
  ASSUME NEW S \in SUBSET Ids, NEW m \in S, \A x \in S : x <= m
  PROVE  Newest(S) = m
<1>1. Newest(S) \in S /\ m <= Newest(S)
  BY NewestIn
<1>2. Newest(S) <= m
  BY <1>1
<1>3. Newest(S) \in Nat /\ m \in Nat
  <2>1. Ids \subseteq Nat
    BY DEF Ids
  <2>. QED
    BY <1>1, <2>1
<1>. QED
  BY <1>1, <1>2, <1>3

LEMMA NewestNone == Newest({}) = NoJob
BY DEF Newest

LEMMA NewestType ==
  ASSUME NEW S \in SUBSET Ids
  PROVE  Newest(S) \in Ids \union {NoJob}
BY NewestIn, NewestNone

LEMMA NoJobIsNoId == NoJob \notin Ids
BY DEF Ids

(* Patching the designators as a job arrives names the newest two again. *)
LEMMA ArrivalDesignators ==
  ASSUME NEW L \in SUBSET Ids, NEW id \in Ids, \A j \in L : j < id,
         NEW c, c = Newest(L)
  PROVE  /\ RefreshedCurrent(L \union {id}, id) = Newest(L \union {id})
         /\ Newest(L \union {id}) = id
         /\ RefreshedPrevious(L \union {id}, id, IF c \in L THEN c ELSE NoJob)
              = Newest((L \union {id}) \ {id})
<1>. DEFINE M == L \union {id}
<1>1. M \in SUBSET Ids /\ M \ {id} = L /\ id \notin L
  BY DEF Ids
<1>2. \A x \in M : x <= id
  BY DEF Ids
<1>3. Newest(M) = id
  BY <1>1, <1>2, NewestIs
<1>4. RefreshedCurrent(M, id) = Newest(M)
  BY <1>3 DEF RefreshedCurrent
<1>5. RefreshedPrevious(M, id, IF c \in L THEN c ELSE NoJob) = Newest(M \ {id})
  <2>1. CASE L = {}
    BY <2>1, <1>1, NoJobIsNoId DEF RefreshedPrevious
  <2>2. CASE L # {}
    <3>1. c \in L
      BY <2>2, NewestIn
    <3>. QED
      BY <3>1, <1>1 DEF RefreshedPrevious
  <2>. QED
    BY <2>1, <2>2
<1>. QED
  BY <1>3, <1>4, <1>5

(* So does patching them as any job leaves. *)
LEMMA DepartureDesignators ==
  ASSUME NEW L \in SUBSET Ids, NEW id \in L,
         NEW c, c = Newest(L), NEW p, p = Newest(L \ {c})
  PROVE  /\ RefreshedCurrent(L \ {id}, IF c = id THEN NoJob ELSE c) = Newest(L \ {id})
         /\ RefreshedPrevious(L \ {id}, Newest(L \ {id}), IF p = id THEN NoJob ELSE p)
              = Newest((L \ {id}) \ {Newest(L \ {id})})
<1>. DEFINE M  == L \ {id}
            c0 == IF c = id THEN NoJob ELSE c
            p0 == IF p = id THEN NoJob ELSE p
<1>1. c \in L /\ \A x \in L : x <= c
  BY NewestIn
<1>2. M \in SUBSET Ids /\ NoJob \notin M
  BY NoJobIsNoId
<1>3. CASE c # id
  <2>1. c \in M /\ \A x \in M : x <= c
    BY <1>1, <1>3
  <2>2. Newest(M) = c
    BY <2>1, <1>2, NewestIs
  <2>3. RefreshedCurrent(M, c0) = Newest(M)
    BY <2>1, <2>2, <1>3 DEF RefreshedCurrent
  <2>4. CASE p = id \/ p \notin L
    <3>1. p0 \notin M
      BY <2>4, <1>2
    <3>. QED
      BY <3>1, <2>2, <2>3 DEF RefreshedPrevious
  <2>5. CASE p # id /\ p \in L
    <3>1. L \ {c} # {}
      BY <2>5, NewestNone, NoJobIsNoId
    <3>2. p \in L \ {c} /\ \A x \in L \ {c} : x <= p
      BY <3>1, NewestIn
    <3>3. p \in M \ {c} /\ \A x \in M \ {c} : x <= p
      BY <3>2, <2>5
    <3>4. Newest(M \ {c}) = p
      BY <3>3, <1>2, NewestIs
    <3>5. RefreshedPrevious(M, c, p0) = p
      BY <3>3, <2>5 DEF RefreshedPrevious
    <3>. QED
      BY <3>4, <3>5, <2>2, <2>3
  <2>. QED
    BY <2>4, <2>5
<1>4. CASE c = id
  <2>1. RefreshedCurrent(M, c0) = Newest(M)
    BY <1>4, <1>2 DEF RefreshedCurrent
  <2>2. p = Newest(M)
    BY <1>4
  <2>3. p # id
    <3>1. CASE M = {}
      BY <3>1, <2>2, NewestNone, NoJobIsNoId
    <3>2. CASE M # {}
      BY <3>2, <2>2, <1>2, NewestIn
    <3>. QED
      BY <3>1, <3>2
  <2>4. RefreshedPrevious(M, Newest(M), p0) = Newest(M \ {Newest(M)})
    BY <2>2, <2>3 DEF RefreshedPrevious
  <2>. QED
    BY <2>1, <2>4
<1>. QED
  BY <1>3, <1>4

-----------------------------------------------------------------------------
(* Which job the shell's loops visit next. *)

LEMMA NextJobIn ==
  ASSUME TypeOK, NEW j \in Nat
  PROVE  \/ NextJob(j) = NoJob
         \/ NextJob(j) \in DOMAIN jobs /\ NextJob(j) > j
<1>. DEFINE later == {i \in DOMAIN jobs : i > j}
<1>1. CASE later = {}
  BY <1>1 DEF NextJob
<1>2. CASE later # {}
  <2>1. later \in SUBSET Nat
    BY DEF TypeOK, Ids
  <2>2. \E m \in later : \A x \in later : m <= x
    BY <1>2, <2>1, LeastExists
  <2>. QED
    BY <1>2, <2>2 DEF NextJob
<1>. QED
  BY <1>1, <1>2

LEMMA OldestJobIn ==
  ASSUME TypeOK, DOMAIN jobs # {}
  PROVE  NextJob(NoJob) \in DOMAIN jobs
<1>. DEFINE later == {i \in DOMAIN jobs : i > NoJob}
<1>1. later \in SUBSET Nat /\ later # {} /\ later \subseteq DOMAIN jobs
  BY DEF TypeOK, Ids
<1>2. \E m \in later : \A x \in later : m <= x
  BY <1>1, LeastExists
<1>. QED
  BY <1>1, <1>2 DEF NextJob

(* refresh_annotations changes nothing of a job but its flag. *)
LEMMA RefreshedTable ==
  ASSUME NEW js, NEW c, NEW p, refresh_annotations(js, c, p),
         \A j \in DOMAIN js : js[j] \in JobRecord
  PROVE  /\ DOMAIN jobs' = DOMAIN js
         /\ \A j \in DOMAIN js :
              /\ jobs'[j] \in JobRecord
              /\ jobs'[j].head = js[j].head
              /\ jobs'[j].size = js[j].size
              /\ jobs'[j].result = js[j].result
              /\ jobs'[j].annotation = Annotation(j, current_job_id', previous_job_id')
         /\ current_job_id' = RefreshedCurrent(DOMAIN js, c)
         /\ previous_job_id' = RefreshedPrevious(DOMAIN js, current_job_id', p)
<1>1. \A j, a, b : Annotation(j, a, b) \in {"None", "Current", "Previous"}
  BY DEF Annotation
<1>2. jobs' = [j \in DOMAIN js |->
                [js[j] EXCEPT !.annotation =
                   Annotation(j, current_job_id', previous_job_id')]]
  BY DEF refresh_annotations
<1>3. ASSUME NEW j \in DOMAIN js
      PROVE  /\ jobs'[j] \in JobRecord
             /\ jobs'[j].head = js[j].head
             /\ jobs'[j].size = js[j].size
             /\ jobs'[j].result = js[j].result
             /\ jobs'[j].annotation = Annotation(j, current_job_id', previous_job_id')
  <2>1. jobs'[j] = [js[j] EXCEPT !.annotation =
                      Annotation(j, current_job_id', previous_job_id')]
    BY <1>2
  <2>. QED
    BY <1>1, <2>1 DEF JobRecord
<1>. QED
  BY <1>2, <1>3 DEF refresh_annotations

(* What a report about a job of the table is. *)
Reports == [job: Ids \union {NoJob}, value: Outcomes \union {"none"}, truth: TaskStates]

LEMMA ReportedType ==
  ASSUME JobsInv, NEW j \in DOMAIN jobs, NEW r \in Outcomes
  PROVE  Reported(j, r) \in Reports
<1>. DEFINE staged == {k \in Slots : task[j][k] # "none"}
<1>1. j \in Ids /\ jobs[j] \in JobRecord /\ task \in [Ids -> [Slots -> TaskStates]]
  BY DEF JobsInv, TypeOK
<1>2. 1 \in Slots /\ 1 <= jobs[j].size
  BY <1>1 DEF JobRecord, Slots
<1>3. 1 \in staged
  BY <1>2 DEF JobsInv, StagesTracked
<1>4. Newest(staged) \in staged
  <2>1. staged \in SUBSET (0 .. MaxTasks)
    BY DEF Slots
  <2>2. \E m \in staged : \A x \in staged : x <= m
    BY <1>3, <2>1, GreatestExists
  <2>. QED
    BY <1>3, <2>2 DEF Newest
<1>5. LastStage(j) \in TaskStates
  BY <1>1, <1>4 DEF LastStage
<1>6. TrueStatus(j) \in TaskStates
  BY <1>5 DEF TrueStatus, TaskStates, Outcomes, Codes
<1>. QED
  BY <1>1, <1>6 DEF Reported, Reports

LEMMA NoReportType == NoReport \in Reports /\ NoSuchJob \in Reports
BY DEF NoReport, NoSuchJob, Reports, TaskStates, Outcomes, Codes

-----------------------------------------------------------------------------
(* The inductive step, one lemma per kind of step. *)

(* A step that changes the head, state or result of one job j only. *)
LEMMA JobProgress ==
  ASSUME JobsInv, NEW j \in DOMAIN jobs, UNCHANGED table,
         DOMAIN jobs' = DOMAIN jobs,
         \A i \in DOMAIN jobs : i # j => jobs'[i] = jobs[i],
         jobs'[j] \in JobRecord,
         jobs'[j].annotation = jobs[j].annotation
  PROVE  /\ DesignatorsNameNewest'
         /\ NumbersFresh'
         /\ \A i \in DOMAIN jobs' : jobs'[i] \in JobRecord
<1>1. \A i \in DOMAIN jobs : /\ jobs'[i].annotation = jobs[i].annotation
                             /\ jobs'[i] \in JobRecord
  BY DEF JobsInv, TypeOK
<1>. QED
  BY <1>1 DEF JobsInv, DesignatorsNameNewest, NumbersFresh, table

LEMMA InitInv == Init => JobsInv
<1>. SUFFICES ASSUME Init PROVE JobsInv
  OBVIOUS
<1>1. DOMAIN jobs = {}
  BY DEF Init, EmptyTable
<1>2. TypeOK
  BY <1>1, NoReportType
  DEF Init, TypeOK, Idle, TaskStates, Outcomes, Codes, Reports
<1>3. BusyWithLiveJob
  BY DEF Init, BusyWithLiveJob, Idle
<1>4. NumbersFresh /\ StagesTracked
  BY <1>1 DEF NumbersFresh, StagesTracked
<1>5. DesignatorsNameNewest
  <2>1. DOMAIN jobs \ {current_job_id} = {}
    BY <1>1
  <2>. QED
    BY <1>1, <2>1, NewestNone DEF Init, DesignatorsNameNewest
<1>6. NoOrphanTask
  BY DEF Init, NoOrphanTask
<1>. QED
  BY <1>2, <1>3, <1>4, <1>5, <1>6 DEF JobsInv

LEMMA AddInv ==
  ASSUME JobsInv, NEW n \in Slots, add_as_current(n)
  PROVE  JobsInv'
<1>. DEFINE id == next_job_id
            js == [j \in DOMAIN jobs \union {id} |-> IF j = id THEN NewJob(n) ELSE jobs[j]]
            p0 == IF current_job_id \in DOMAIN jobs THEN current_job_id ELSE NoJob
<1>1. /\ id \in Ids /\ DOMAIN jobs \in SUBSET Ids /\ \A j \in DOMAIN jobs : j < id
      /\ current_job_id = Newest(DOMAIN jobs)
  BY DEF add_as_current, JobsInv, TypeOK, NumbersFresh, DesignatorsNameNewest
<1>2. NewJob(n) \in JobRecord
  BY DEF NewJob, JobRecord, Slots
<1>3. \A j \in DOMAIN js : js[j] \in JobRecord
  BY <1>2 DEF JobsInv, TypeOK
<1>4. refresh_annotations(js, id, p0)
  BY DEF add_as_current
<1>. HIDE DEF js
<1>5. /\ DOMAIN jobs' = DOMAIN js
      /\ \A j \in DOMAIN js :
           /\ jobs'[j] \in JobRecord
           /\ jobs'[j].head = js[j].head
           /\ jobs'[j].size = js[j].size
           /\ jobs'[j].annotation = Annotation(j, current_job_id', previous_job_id')
      /\ current_job_id' = RefreshedCurrent(DOMAIN js, id)
      /\ previous_job_id' = RefreshedPrevious(DOMAIN js, current_job_id', p0)
  BY <1>3, <1>4, RefreshedTable
<1>6. DOMAIN js = DOMAIN jobs \union {id} /\ DOMAIN js \in SUBSET Ids
  BY <1>1 DEF js
<1>7. /\ current_job_id' = Newest(DOMAIN js)
      /\ current_job_id' = id
      /\ previous_job_id' = Newest(DOMAIN js \ {id})
  BY <1>1, <1>5, <1>6, ArrivalDesignators
<1>8. DesignatorsNameNewest'
  BY <1>5, <1>7 DEF DesignatorsNameNewest
<1>9. TypeOK'
  <2>1. current_job_id' \in Ids \union {NoJob} /\ previous_job_id' \in Ids \union {NoJob}
    BY <1>6, <1>7, NewestType
  <2>2. next_job_id' \in 1 .. MaxJobs + 1
    BY <1>1 DEF add_as_current, Ids
  <2>3. task' \in [Ids -> [Slots -> TaskStates]]
    BY DEF add_as_current, JobsInv, TypeOK, TaskStates
  <2>4. report' \in Reports
    BY NoReportType DEF add_as_current, Silent
  <2>. QED
    BY <1>5, <1>6, <2>1, <2>2, <2>3, <2>4
    DEF add_as_current, JobsInv, TypeOK, Reports
<1>10. BusyWithLiveJob'
  BY DEF add_as_current, BusyWithLiveJob, Idle
<1>11. NumbersFresh'
  <2>1. id \in Nat /\ next_job_id' = id + 1 /\ \A j \in DOMAIN jobs : j \in Nat
    BY <1>1 DEF add_as_current, Ids
  <2>. QED
    BY <1>1, <1>5, <1>6, <2>1 DEF NumbersFresh
<1>12. /\ task' = [task EXCEPT ![id] = [k \in Slots |-> IF k <= n THEN "running" ELSE "none"]]
       /\ task \in [Ids -> [Slots -> TaskStates]]
  BY DEF add_as_current, JobsInv, TypeOK
<1>13. \A j \in DOMAIN jobs : j # id /\ js[j] = jobs[j] /\ task'[j] = task[j]
  BY <1>1, <1>12 DEF js, Ids
<1>14. js[id] = NewJob(n) /\ \A k \in Slots : task'[id][k] = IF k <= n THEN "running" ELSE "none"
  BY <1>1, <1>12 DEF js
<1>15. StagesTracked'
  <2>1. ASSUME NEW j \in DOMAIN jobs', NEW k \in Slots
        PROVE  task'[j][k] # "none" <=> k <= jobs'[j].size
    <3>1. CASE j = id
      <4>1. jobs'[j].size = n
        BY <1>5, <1>14, <3>1 DEF NewJob
      <4>. QED
        BY <4>1, <1>14, <3>1
    <3>2. CASE j # id
      BY <1>5, <1>6, <1>13, <3>2 DEF JobsInv, StagesTracked
    <3>. QED
      BY <3>1, <3>2
  <2>. QED
    BY <2>1 DEF StagesTracked
<1>16. NoOrphanTask'
  <2>1. ASSUME NEW j \in Ids, NEW k \in Slots, task'[j][k] = "running"
        PROVE  j \in DOMAIN jobs' /\ k \in jobs'[j].head .. jobs'[j].size
    <3>1. CASE j = id
      <4>1. jobs'[j].size = n /\ jobs'[j].head = 1 /\ k <= n
        BY <1>5, <1>6, <1>14, <2>1, <3>1 DEF NewJob
      <4>. QED
        BY <4>1, <1>5, <1>6, <3>1 DEF Slots
    <3>2. CASE j # id
      <4>1. task[j][k] = "running"
        BY <1>12, <2>1, <3>2
      <4>2. j \in DOMAIN jobs /\ k \in jobs[j].head .. jobs[j].size
        BY <4>1 DEF JobsInv, NoOrphanTask
      <4>. QED
        BY <4>2, <1>5, <1>6, <1>13
    <3>. QED
      BY <3>1, <3>2
  <2>. QED
    BY <2>1 DEF NoOrphanTask
<1>. QED
  BY <1>8, <1>9, <1>10, <1>11, <1>15, <1>16 DEF JobsInv

(* A job of which no task runs leaves the table. *)
LEMMA RemoveInv ==
  ASSUME JobsInv, NEW j \in DOMAIN jobs,
         NEW js, DOMAIN js = DOMAIN jobs,
         \A i \in DOMAIN jobs : i # j => js[i] = jobs[i],
         remove_job(js, j),
         NEW row \in [Slots -> TaskStates], \A k \in Slots : row[k] # "running",
         task' = [task EXCEPT ![j] = row]
  PROVE  /\ DOMAIN jobs' = DOMAIN jobs \ {j}
         /\ \A i \in DOMAIN jobs' : jobs'[i] \in JobRecord
         /\ next_job_id' = next_job_id
         /\ current_job_id' \in Ids \union {NoJob}
         /\ previous_job_id' \in Ids \union {NoJob}
         /\ task' \in [Ids -> [Slots -> TaskStates]]
         /\ NumbersFresh' /\ StagesTracked' /\ DesignatorsNameNewest' /\ NoOrphanTask'
<1>. DEFINE L  == DOMAIN jobs
            M  == L \ {j}
            ms == [i \in M |-> js[i]]
            c0 == IF current_job_id = j THEN NoJob ELSE current_job_id
            p0 == IF previous_job_id = j THEN NoJob ELSE previous_job_id
<1>1. /\ L \in SUBSET Ids /\ M \in SUBSET Ids
      /\ current_job_id = Newest(L) /\ previous_job_id = Newest(L \ {current_job_id})
  BY DEF JobsInv, TypeOK, DesignatorsNameNewest
<1>2. DOMAIN ms = M /\ \A i \in M : ms[i] = jobs[i] /\ ms[i] \in JobRecord
  BY DEF JobsInv, TypeOK
<1>3. refresh_annotations(ms, c0, p0) /\ next_job_id' = next_job_id
  BY DEF remove_job
<1>. HIDE DEF ms
<1>4. /\ DOMAIN jobs' = M
      /\ \A i \in M :
           /\ jobs'[i] \in JobRecord
           /\ jobs'[i].head = jobs[i].head
           /\ jobs'[i].size = jobs[i].size
           /\ jobs'[i].annotation = Annotation(i, current_job_id', previous_job_id')
      /\ current_job_id' = RefreshedCurrent(M, c0)
      /\ previous_job_id' = RefreshedPrevious(M, current_job_id', p0)
  BY <1>2, <1>3, RefreshedTable
<1>5. /\ current_job_id' = Newest(M)
      /\ previous_job_id' = Newest(M \ {current_job_id'})
  <2>1. /\ RefreshedCurrent(M, c0) = Newest(M)
        /\ RefreshedPrevious(M, Newest(M), p0) = Newest(M \ {Newest(M)})
    <3>1. j \in L
      OBVIOUS
    <3>. HIDE DEF L
    <3>. QED
      BY ONLY <1>1, <3>1, DepartureDesignators
  <2>. QED
    BY <2>1, <1>4
<1>6. DesignatorsNameNewest'
  BY <1>4, <1>5 DEF DesignatorsNameNewest
<1>7. current_job_id' \in Ids \union {NoJob} /\ previous_job_id' \in Ids \union {NoJob}
  BY <1>1, <1>5, NewestType
<1>8. NumbersFresh'
  BY <1>3, <1>4 DEF JobsInv, NumbersFresh
<1>9. /\ task \in [Ids -> [Slots -> TaskStates]]
      /\ task' \in [Ids -> [Slots -> TaskStates]]
      /\ task'[j] = row /\ \A i \in Ids \ {j} : task'[i] = task[i]
  BY <1>1 DEF JobsInv, TypeOK
<1>10. StagesTracked'
  BY <1>1, <1>4, <1>9 DEF JobsInv, StagesTracked
<1>11. NoOrphanTask'
  <2>1. ASSUME NEW i \in Ids, NEW k \in Slots, task'[i][k] = "running"
        PROVE  i \in DOMAIN jobs' /\ k \in jobs'[i].head .. jobs'[i].size
    <3>1. i # j /\ task[i][k] = "running"
      BY <1>9, <2>1
    <3>2. i \in L /\ k \in jobs[i].head .. jobs[i].size
      BY <3>1 DEF JobsInv, NoOrphanTask
    <3>. QED
      BY <1>4, <3>1, <3>2
  <2>. QED
    BY <2>1 DEF NoOrphanTask
<1>. QED
  BY <1>3, <1>4, <1>6, <1>7, <1>8, <1>9, <1>10, <1>11

(* Cancelling and forgetting rows of tasks. *)
LEMMA RowTypes ==
  ASSUME NEW row \in [Slots -> TaskStates]
  PROVE  /\ Cancelled(row) \in [Slots -> TaskStates]
         /\ Forgotten(row) \in [Slots -> TaskStates]
         /\ \A k \in Slots : Cancelled(row)[k] # "running"
         /\ \A k \in Slots : Cancelled(row)[k] = "none" <=> row[k] = "none"
         /\ \A k \in Slots : Forgotten(row)[k] = "running" <=> row[k] = "running"
BY DEF Cancelled, Forgotten, TaskStates

LEMMA SweepInv == JobsInv /\ SweepStep => JobsInv'
<1>. SUFFICES ASSUME JobsInv, SweepStep PROVE JobsInv'
  OBVIOUS
<1>. DEFINE j == shell.at
<1>1. j \in DOMAIN jobs /\ j \in Ids /\ j \in Nat
  BY DEF SweepStep, JobsInv, BusyWithLiveJob, TypeOK, Ids
<1>2. report' \in Reports
  BY NoReportType DEF SweepStep, Silent
<1>3. /\ shell' \in [op: {"idle", "sweep"}, at: Ids \union {NoJob}, got: {"none"}]
      /\ IF shell'.op = "idle" THEN shell' = Idle ELSE shell'.at \in DOMAIN jobs \ {j}
  BY <1>1, NextJobIn DEF SweepStep, At, Idle, JobsInv, TypeOK
<1>4. CASE TasksEmpty(j) /\ remove_job(jobs, j) /\ Forget(j)
  <2>1. \A k \in Slots : task[j][k] # "running"
    BY <1>1, <1>4 DEF TasksEmpty, JobsInv, NoOrphanTask, TypeOK, JobRecord, Slots
  <2>2. task[j] \in [Slots -> TaskStates]
    BY <1>1 DEF JobsInv, TypeOK
  <2>3. task' = [task EXCEPT ![j] = Forgotten(task[j])]
    BY <1>1, <1>4 DEF Forget, JobsInv, TypeOK
  <2>4. /\ DOMAIN jobs' = DOMAIN jobs \ {j}
        /\ \A i \in DOMAIN jobs' : jobs'[i] \in JobRecord
        /\ next_job_id' = next_job_id
        /\ current_job_id' \in Ids \union {NoJob}
        /\ previous_job_id' \in Ids \union {NoJob}
        /\ task' \in [Ids -> [Slots -> TaskStates]]
        /\ NumbersFresh' /\ StagesTracked' /\ DesignatorsNameNewest' /\ NoOrphanTask'
    <3>1. /\ Forgotten(task[j]) \in [Slots -> TaskStates]
          /\ \A k \in Slots : Forgotten(task[j])[k] # "running"
      BY <2>1, <2>2, RowTypes
    <3>. QED
      BY <1>1, <1>4, <2>3, <3>1, RemoveInv
  <2>5. TypeOK'
    BY <1>2, <1>3, <2>4 DEF JobsInv, TypeOK, Reports
  <2>6. BusyWithLiveJob'
    BY <1>3, <2>4 DEF BusyWithLiveJob
  <2>. QED
    BY <2>4, <2>5, <2>6 DEF JobsInv
<1>5. CASE UNCHANGED <<jobs, table, task>>
  <2>1. TypeOK'
    BY <1>2, <1>3, <1>5 DEF JobsInv, TypeOK, Reports, table
  <2>. QED
    BY <1>3, <1>5, <2>1
    DEF JobsInv, BusyWithLiveJob, NumbersFresh, StagesTracked,
        DesignatorsNameNewest, NoOrphanTask, table
<1>. QED
  BY <1>4, <1>5 DEF SweepStep

(* A step that only moves the shell on, or reports. *)
LEMMA QuietInv ==
  ASSUME JobsInv, UNCHANGED <<jobs, table, task>>,
         report' \in Reports,
         shell' \in [op: {"idle", "wait", "wait_all", "poll", "sweep"},
                    at: Ids \union {NoJob}, got: Codes \union {"none"}],
         IF shell'.op = "idle" THEN shell' = Idle ELSE shell'.at \in DOMAIN jobs
  PROVE  JobsInv'
<1>1. TypeOK'
  BY DEF JobsInv, TypeOK, Reports, table
<1>. QED
  BY <1>1
  DEF JobsInv, BusyWithLiveJob, NumbersFresh, StagesTracked,
      DesignatorsNameNewest, NoOrphanTask, table

ShellStates == [op: {"idle", "wait", "wait_all", "poll", "sweep"},
                at: Ids \union {NoJob}, got: Codes \union {"none"}]

(* Where the shell may go from a job of the table. *)
LEMMA MovesOn ==
  ASSUME JobsInv, NEW j \in DOMAIN jobs, NEW s,
         s \in {Idle, AfterJob(j), AfterPolled(j)}, Waiting \/ s # AfterJob(j)
  PROVE  /\ s \in ShellStates
         /\ IF s.op = "idle" THEN s = Idle ELSE s.at \in DOMAIN jobs
<1>1. TypeOK /\ j \in Ids /\ j \in Nat
  BY DEF JobsInv, TypeOK, Ids
<1>2. NextJob(j) = NoJob \/ NextJob(j) \in DOMAIN jobs
  BY <1>1, NextJobIn
<1>3. NextJob(NoJob) \in DOMAIN jobs
  BY <1>1, OldestJobIn
<1>4. DOMAIN jobs \subseteq Ids
  BY <1>1 DEF TypeOK
<1>5. CASE s = Idle
  BY <1>5 DEF Idle, ShellStates
<1>6. CASE s = AfterJob(j)
  BY <1>2, <1>3, <1>4, <1>6 DEF AfterJob, At, Idle, ShellStates
<1>7. CASE s = AfterPolled(j)
  BY <1>2, <1>4, <1>7 DEF AfterPolled, At, Idle, ShellStates
<1>. QED
  BY <1>5, <1>6, <1>7

LEMMA TaskEndsInv ==
  ASSUME JobsInv, NEW id \in Ids, NEW k \in Slots, NEW o \in Outcomes, TaskEnds(id, k, o)
  PROVE  JobsInv'
<1>1. /\ task \in [Ids -> [Slots -> TaskStates]] /\ task[id][k] = "running"
      /\ task' = [task EXCEPT ![id] = [task[id] EXCEPT ![k] = o]]
      /\ o \in TaskStates /\ o # "none" /\ o # "running"
      /\ UNCHANGED <<jobs, table, shell>>
  BY DEF TaskEnds, JobsInv, TypeOK, TaskStates, Outcomes, Codes
<1>2. task' \in [Ids -> [Slots -> TaskStates]]
  BY <1>1
<1>a. ASSUME NEW i \in Ids, NEW n \in Slots
      PROVE  task'[i][n] = IF i = id /\ n = k THEN o ELSE task[i][n]
  <2>1. CASE i = id
    BY <1>1, <2>1
  <2>2. CASE i # id
    BY <1>1, <2>2
  <2>. QED
    BY <2>1, <2>2
<1>3. report' \in Reports
  BY NoReportType DEF TaskEnds, Silent
<1>4. TypeOK'
  BY <1>1, <1>2, <1>3 DEF JobsInv, TypeOK, Reports, table
<1>5. StagesTracked'
  BY <1>1, <1>a DEF JobsInv, TypeOK, StagesTracked
<1>6. NoOrphanTask'
  BY <1>1, <1>a DEF JobsInv, NoOrphanTask
<1>. QED
  BY <1>1, <1>4, <1>5, <1>6
  DEF JobsInv, BusyWithLiveJob, NumbersFresh, DesignatorsNameNewest, table

LEMMA StoredResultType ==
  ASSUME JobsInv, NEW j \in DOMAIN jobs
  PROVE  StoredResult(j) \in Outcomes
BY DEF JobsInv, TypeOK, JobRecord, StoredResult, Outcomes, Codes

LEMMA WaitAnsweredInv ==
  ASSUME JobsInv, NEW s \in Specs, WaitAnswered(s)
  PROVE  JobsInv'
<1>1. resolve_job_spec(s) \in DOMAIN jobs \union {NoJob}
  BY DEF resolve_job_spec
<1>2. report' \in Reports
  BY <1>1, NoReportType, ReportedType, StoredResultType DEF WaitAnswered
<1>3. UNCHANGED <<jobs, table, task>> /\ shell' = Idle
  BY DEF WaitAnswered
<1>4. shell' \in ShellStates
  BY <1>3 DEF ShellStates, Idle
<1>. QED
  BY <1>2, <1>3, <1>4, QuietInv DEF ShellStates, Idle

LEMMA WaitBeginsInv ==
  ASSUME JobsInv, NEW s \in Specs, WaitBegins(s)
  PROVE  JobsInv'
<1>. DEFINE j == resolve_job_spec(s)
<1>1. j \in DOMAIN jobs /\ j \in Ids
  BY DEF resolve_job_spec, WaitBegins, JobsInv, TypeOK
<1>2. report' \in Reports /\ UNCHANGED <<jobs, table, task>>
  BY NoReportType DEF WaitBegins, Silent
<1>. HIDE DEF j
<1>3. shell' = At("wait", j)
  BY DEF WaitBegins, j
<1>. QED
  BY <1>1, <1>2, <1>3, QuietInv DEF At

LEMMA LoopBeginsInv ==
  ASSUME JobsInv, WaitAllBegins \/ PollBegins
  PROVE  JobsInv'
<1>1. NextJob(NoJob) \in DOMAIN jobs /\ NextJob(NoJob) \in Ids
  BY OldestJobIn DEF WaitAllBegins, PollBegins, JobsInv, TypeOK
<1>2. report' \in Reports /\ UNCHANGED <<jobs, table, task>>
  BY NoReportType DEF WaitAllBegins, PollBegins, Silent
<1>3. \E op \in {"wait_all", "poll"} : shell' = At(op, NextJob(NoJob))
  BY DEF WaitAllBegins, PollBegins
<1>. QED
  BY <1>1, <1>2, <1>3, QuietInv DEF At

LEMMA MovesInv ==
  ASSUME JobsInv, WaitSkips \/ PollPending
  PROVE  JobsInv'
<1>1. shell.at \in DOMAIN jobs
  BY DEF WaitSkips, PollPending, JobsInv, BusyWithLiveJob
<1>2. report' \in Reports /\ UNCHANGED <<jobs, table, task>>
  BY NoReportType DEF WaitSkips, PollPending, Silent
<1>3. /\ shell' \in ShellStates
      /\ IF shell'.op = "idle" THEN shell' = Idle ELSE shell'.at \in DOMAIN jobs
  <2>1. CASE WaitSkips
    BY <1>1, <2>1, MovesOn DEF WaitSkips, Waiting
  <2>2. CASE PollPending
    <3>1. shell' = AfterPolled(shell.at)
      BY <2>2 DEF PollPending
    <3>2. AfterPolled(shell.at) # AfterJob(shell.at)
      BY <1>1, <2>2 DEF PollPending, AfterPolled, AfterJob, At
    <3>. QED
      BY <1>1, <3>1, <3>2, MovesOn
  <2>. QED
    BY <2>1, <2>2
<1>. QED
  BY <1>2, <1>3, QuietInv DEF ShellStates

(* The front task of a job of the table is one of its stages. *)
LEMMA FrontType ==
  ASSUME JobsInv, NEW j \in DOMAIN jobs, ~TasksEmpty(j)
  PROVE  /\ j \in Ids /\ jobs[j] \in JobRecord
         /\ jobs[j].head \in Slots
         /\ jobs[j].head <= jobs[j].size
BY DEF TasksEmpty, JobsInv, TypeOK, JobRecord, Slots

(* Popping a front task that runs no more loses no running task. *)
LEMMA PopKeeps ==
  ASSUME JobsInv, NEW j \in DOMAIN jobs, ~TasksEmpty(j), Front(j) # "running",
         UNCHANGED task, DOMAIN jobs' = DOMAIN jobs,
         \A i \in DOMAIN jobs : i # j => jobs'[i] = jobs[i],
         jobs'[j].head = jobs[j].head + 1, jobs'[j].size = jobs[j].size
  PROVE  NoOrphanTask' /\ StagesTracked'
<1>1. /\ j \in Ids /\ jobs[j] \in JobRecord
      /\ jobs[j].head \in Slots
      /\ jobs[j].head <= jobs[j].size
  BY FrontType
<1>2. task[j][jobs[j].head] # "running"
  BY DEF Front
<1>3. ASSUME NEW i \in Ids, NEW k \in Slots, task'[i][k] = "running"
      PROVE  i \in DOMAIN jobs' /\ k \in jobs'[i].head .. jobs'[i].size
  <2>1. i \in DOMAIN jobs /\ k \in jobs[i].head .. jobs[i].size
    BY <1>3 DEF JobsInv, NoOrphanTask
  <2>2. CASE i = j
    <3>1. k # jobs[j].head
      BY <1>2, <1>3, <2>2
    <3>. QED
      BY <1>1, <2>1, <2>2, <3>1 DEF Slots, JobRecord
  <2>3. CASE i # j
    BY <2>1, <2>3
  <2>. QED
    BY <2>2, <2>3
<1>4. NoOrphanTask'
  BY <1>3 DEF NoOrphanTask
<1>5. StagesTracked'
  BY DEF JobsInv, StagesTracked
<1>. QED
  BY <1>4, <1>5

LEMMA WaitTaskInv == JobsInv /\ WaitTask => JobsInv'
<1>. SUFFICES ASSUME JobsInv, WaitTask PROVE JobsInv'
  OBVIOUS
<1>. DEFINE j == shell.at
<1>1. Waiting /\ ~TasksEmpty(j) /\ j \in DOMAIN jobs
  BY DEF WaitTask, Waiting, JobsInv, BusyWithLiveJob
<1>2. /\ j \in Ids /\ jobs[j] \in JobRecord
      /\ jobs[j].head \in Slots /\ jobs[j].head <= jobs[j].size
  BY <1>1, FrontType
<1>3. Front(j) \in Codes /\ Front(j) # "running" /\ Front(j) \in Outcomes
  BY DEF WaitTask, Codes, Outcomes
<1>4. /\ DOMAIN jobs' = DOMAIN jobs
      /\ \A i \in DOMAIN jobs : i # j => jobs'[i] = jobs[i]
      /\ jobs'[j].head = jobs[j].head + 1
      /\ jobs'[j].size = jobs[j].size
      /\ jobs'[j].annotation = jobs[j].annotation
      /\ jobs'[j] \in JobRecord
  BY <1>1, <1>2, <1>3 DEF WaitTask, PopFront, JobRecord, Slots
<1>5. UNCHANGED table /\ UNCHANGED task
  BY DEF WaitTask
<1>6. NoOrphanTask' /\ StagesTracked'
  BY <1>1, <1>3, <1>4, <1>5, PopKeeps
<1>7. /\ DesignatorsNameNewest' /\ NumbersFresh'
      /\ \A i \in DOMAIN jobs' : jobs'[i] \in JobRecord
  BY <1>1, <1>4, <1>5, JobProgress
<1>8. report' \in Reports
  BY <1>1, <1>3, NoReportType, ReportedType DEF WaitTask
<1>9. /\ shell' \in ShellStates
      /\ IF shell'.op = "idle" THEN shell' = Idle ELSE shell'.at \in DOMAIN jobs
  <2>1. CASE shell' = AfterJob(j)
    BY <1>1, <2>1, MovesOn
  <2>2. CASE shell' = shell
    BY <1>1, <2>2 DEF JobsInv, TypeOK, BusyWithLiveJob, ShellStates
  <2>. QED
    BY <2>1, <2>2 DEF WaitTask
<1>10. TypeOK'
  BY <1>4, <1>5, <1>7, <1>8, <1>9 DEF JobsInv, TypeOK, Reports, ShellStates, table
<1>11. BusyWithLiveJob'
  BY <1>4, <1>9 DEF BusyWithLiveJob
<1>. QED
  BY <1>6, <1>7, <1>10, <1>11 DEF JobsInv

LEMMA WaitStoppedInv == JobsInv /\ WaitStopped => JobsInv'
<1>. SUFFICES ASSUME JobsInv, WaitStopped PROVE JobsInv'
  OBVIOUS
<1>. DEFINE j == shell.at
            h == jobs[shell.at].head
<1>1. Waiting /\ ~TasksEmpty(j) /\ j \in DOMAIN jobs
  BY DEF WaitStopped, Waiting, JobsInv, BusyWithLiveJob
<1>2. j \in Ids /\ jobs[j] \in JobRecord /\ h \in Slots
  BY <1>1, FrontType
<1>3. /\ DOMAIN jobs' = DOMAIN jobs
      /\ \A i \in DOMAIN jobs : i # j => jobs'[i] = jobs[i]
      /\ jobs'[j].head = jobs[j].head
      /\ jobs'[j].size = jobs[j].size
      /\ jobs'[j].annotation = jobs[j].annotation
      /\ jobs'[j] \in JobRecord
  BY <1>1, <1>2 DEF WaitStopped, JobRecord
<1>4. UNCHANGED table /\ task[j][h] = "code148"
  BY DEF WaitStopped, Front
<1>5. /\ task \in [Ids -> [Slots -> TaskStates]]
      /\ task' = [task EXCEPT ![j] = [task[j] EXCEPT ![h] = "joined"]]
      /\ "joined" \in TaskStates
  BY DEF WaitStopped, JobsInv, TypeOK, TaskStates
<1>6. task' \in [Ids -> [Slots -> TaskStates]]
  BY <1>2, <1>5
<1>7. ASSUME NEW i \in Ids, NEW k \in Slots
      PROVE  task'[i][k] = IF i = j /\ k = h THEN "joined" ELSE task[i][k]
  <2>1. CASE i = j
    BY <1>5, <2>1
  <2>2. CASE i # j
    BY <1>5, <2>2
  <2>. QED
    BY <2>1, <2>2
<1>8. NoOrphanTask'
  BY <1>2, <1>3, <1>7 DEF JobsInv, NoOrphanTask
<1>9. StagesTracked'
  BY <1>1, <1>2, <1>3, <1>4, <1>7 DEF JobsInv, TypeOK, StagesTracked
<1>10. /\ DesignatorsNameNewest' /\ NumbersFresh'
       /\ \A i \in DOMAIN jobs' : jobs'[i] \in JobRecord
  BY <1>1, <1>3, <1>4, JobProgress
<1>11. report' \in Reports
  <2>1. "code148" \in Outcomes
    BY DEF Outcomes, Codes
  <2>. QED
    BY <1>1, <2>1, NoReportType, ReportedType DEF WaitStopped
<1>12. /\ shell' \in ShellStates
       /\ IF shell'.op = "idle" THEN shell' = Idle ELSE shell'.at \in DOMAIN jobs
  BY <1>1, MovesOn DEF WaitStopped
<1>13. TypeOK'
  BY <1>3, <1>4, <1>6, <1>10, <1>11, <1>12 DEF JobsInv, TypeOK, Reports, ShellStates, table
<1>14. BusyWithLiveJob'
  BY <1>3, <1>12 DEF BusyWithLiveJob
<1>. QED
  BY <1>8, <1>9, <1>10, <1>13, <1>14 DEF JobsInv

LEMMA WaitFailsInv == JobsInv /\ WaitFails => JobsInv'
<1>. SUFFICES ASSUME JobsInv, WaitFails PROVE JobsInv'
  OBVIOUS
<1>. DEFINE j == shell.at
<1>1. ~TasksEmpty(j) /\ j \in DOMAIN jobs
  BY DEF WaitFails, Waiting, JobsInv, BusyWithLiveJob
<1>2. j \in Ids /\ jobs[j] \in JobRecord
  BY <1>1, FrontType
<1>3. /\ DOMAIN jobs' = DOMAIN jobs
      /\ \A i \in DOMAIN jobs : i # j => jobs'[i] = jobs[i]
      /\ jobs'[j].size = jobs[j].size
      /\ jobs'[j].annotation = jobs[j].annotation
      /\ jobs'[j] \in JobRecord
  BY <1>1, <1>2 DEF WaitFails, FailedJob, JobRecord, Slots
<1>4. UNCHANGED table /\ shell' = Idle
  BY DEF WaitFails
<1>5. /\ task \in [Ids -> [Slots -> TaskStates]]
      /\ task' = [task EXCEPT ![j] = Cancelled(task[j])]
  BY DEF WaitFails, CancelRest, JobsInv, TypeOK
<1>6. /\ Cancelled(task[j]) \in [Slots -> TaskStates]
      /\ \A k \in Slots : Cancelled(task[j])[k] # "running"
      /\ \A k \in Slots : Cancelled(task[j])[k] = "none" <=> task[j][k] = "none"
  BY <1>2, <1>5, RowTypes
<1>7. /\ task' \in [Ids -> [Slots -> TaskStates]]
      /\ task'[j] = Cancelled(task[j])
      /\ \A i \in Ids \ {j} : task'[i] = task[i]
  BY <1>2, <1>5, <1>6
<1>8. NoOrphanTask'
  BY <1>3, <1>6, <1>7 DEF JobsInv, NoOrphanTask
<1>9. StagesTracked'
  BY <1>3, <1>6, <1>7 DEF JobsInv, TypeOK, StagesTracked
<1>10. /\ DesignatorsNameNewest' /\ NumbersFresh'
       /\ \A i \in DOMAIN jobs' : jobs'[i] \in JobRecord
  BY <1>1, <1>3, <1>4, JobProgress
<1>11. report' \in Reports
  <2>1. "error" \in Outcomes
    BY DEF Outcomes
  <2>. QED
    BY <1>1, <2>1, ReportedType DEF WaitFails
<1>12. TypeOK'
  BY <1>3, <1>4, <1>7, <1>10, <1>11 DEF JobsInv, TypeOK, Reports, Idle, table
<1>13. BusyWithLiveJob'
  BY <1>4 DEF BusyWithLiveJob, Idle
<1>. QED
  BY <1>8, <1>9, <1>10, <1>12, <1>13 DEF JobsInv

LEMMA PollPopsInv == JobsInv /\ PollPops => JobsInv'
<1>. SUFFICES ASSUME JobsInv, PollPops PROVE JobsInv'
  OBVIOUS
<1>. DEFINE j == shell.at
<1>1. ~TasksEmpty(j) /\ j \in DOMAIN jobs /\ shell.op = "poll"
  BY DEF PollPops, JobsInv, BusyWithLiveJob
<1>2. /\ j \in Ids /\ jobs[j] \in JobRecord
      /\ jobs[j].head \in Slots /\ jobs[j].head <= jobs[j].size
  BY <1>1, FrontType
<1>3. Front(j) \in Codes /\ Front(j) # "running"
  BY DEF PollPops, Codes
<1>4. /\ DOMAIN jobs' = DOMAIN jobs
      /\ \A i \in DOMAIN jobs : i # j => jobs'[i] = jobs[i]
      /\ jobs'[j].head = jobs[j].head + 1
      /\ jobs'[j].size = jobs[j].size
      /\ jobs'[j].annotation = jobs[j].annotation
      /\ jobs'[j] \in JobRecord
  BY <1>1, <1>2 DEF PollPops, PopFront, JobRecord, Slots
<1>5. UNCHANGED table /\ UNCHANGED task
  BY DEF PollPops
<1>6. NoOrphanTask' /\ StagesTracked'
  BY <1>1, <1>3, <1>4, <1>5, PopKeeps
<1>7. /\ DesignatorsNameNewest' /\ NumbersFresh'
      /\ \A i \in DOMAIN jobs' : jobs'[i] \in JobRecord
  BY <1>1, <1>4, <1>5, JobProgress
<1>8. report' \in Reports
  BY NoReportType DEF PollPops, Silent
<1>9. shell' \in ShellStates /\ shell'.op = "poll" /\ shell'.at = j
  BY <1>1, <1>3 DEF PollPops, JobsInv, TypeOK, ShellStates
<1>10. TypeOK'
  BY <1>4, <1>5, <1>7, <1>8, <1>9 DEF JobsInv, TypeOK, Reports, ShellStates, table
<1>11. BusyWithLiveJob'
  BY <1>1, <1>4, <1>9 DEF BusyWithLiveJob
<1>. QED
  BY <1>6, <1>7, <1>10, <1>11 DEF JobsInv

(* Where the poll goes once its job has left. *)
LEMMA PolledJobLeft ==
  ASSUME JobsInv, NEW j \in DOMAIN jobs, shell' = AfterPolled(j),
         DOMAIN jobs' = DOMAIN jobs \ {j}
  PROVE  shell' \in ShellStates /\ BusyWithLiveJob'
<1>1. TypeOK /\ j \in Ids /\ j \in Nat
  BY DEF JobsInv, TypeOK, Ids
<1>2. \/ NextJob(j) = NoJob
      \/ NextJob(j) \in DOMAIN jobs /\ NextJob(j) > j
  BY <1>1, NextJobIn
<1>3. CASE NextJob(j) = NoJob
  BY <1>3 DEF AfterPolled, At, Idle, ShellStates, BusyWithLiveJob
<1>4. CASE NextJob(j) \in DOMAIN jobs /\ NextJob(j) > j
  <2>1. NextJob(j) \in Ids /\ NextJob(j) # j /\ NextJob(j) # NoJob
    BY <1>1, <1>4, NoJobIsNoId DEF TypeOK
  <2>. QED
    BY <1>4, <2>1 DEF AfterPolled, At, ShellStates, BusyWithLiveJob
<1>. QED
  BY <1>2, <1>3, <1>4

LEMMA PollFailsInv == JobsInv /\ PollFails => JobsInv'
<1>. SUFFICES ASSUME JobsInv, PollFails PROVE JobsInv'
  OBVIOUS
<1>. DEFINE j   == shell.at
            row == Forgotten(Cancelled(task[j]))
<1>1. j \in DOMAIN jobs /\ j \in Ids /\ task[j] \in [Slots -> TaskStates]
  BY DEF PollFails, JobsInv, BusyWithLiveJob, TypeOK
<1>2. row \in [Slots -> TaskStates] /\ \A k \in Slots : row[k] # "running"
  <2>1. /\ Cancelled(task[j]) \in [Slots -> TaskStates]
        /\ \A k \in Slots : Cancelled(task[j])[k] # "running"
    BY <1>1, RowTypes
  <2>. QED
    BY <2>1, RowTypes
<1>3. task' = [task EXCEPT ![j] = row]
  BY DEF PollFails
<1>4. /\ DOMAIN FailedJob(j) = DOMAIN jobs
      /\ \A i \in DOMAIN jobs : i # j => FailedJob(j)[i] = jobs[i]
  BY DEF FailedJob
<1>5. remove_job(FailedJob(j), j) /\ shell' = AfterPolled(j)
  BY DEF PollFails
<1>6. /\ DOMAIN jobs' = DOMAIN jobs \ {j}
      /\ \A i \in DOMAIN jobs' : jobs'[i] \in JobRecord
      /\ next_job_id' = next_job_id
      /\ current_job_id' \in Ids \union {NoJob}
      /\ previous_job_id' \in Ids \union {NoJob}
      /\ task' \in [Ids -> [Slots -> TaskStates]]
      /\ NumbersFresh' /\ StagesTracked' /\ DesignatorsNameNewest' /\ NoOrphanTask'
  <2>. HIDE DEF row
  <2>. QED
    BY <1>1, <1>2, <1>3, <1>4, <1>5, RemoveInv
<1>7. report' \in Reports
  <2>1. "error" \in Outcomes
    BY DEF Outcomes
  <2>. QED
    BY <1>1, <2>1, ReportedType DEF PollFails
<1>8. shell' \in ShellStates /\ BusyWithLiveJob'
  BY <1>1, <1>5, <1>6, PolledJobLeft
<1>9. TypeOK'
  BY <1>6, <1>7, <1>8 DEF JobsInv, TypeOK, Reports, ShellStates
<1>. QED
  BY <1>6, <1>8, <1>9 DEF JobsInv

LEMMA PollDoneInv == JobsInv /\ PollDone => JobsInv'
<1>. SUFFICES ASSUME JobsInv, PollDone PROVE JobsInv'
  OBVIOUS
<1>. DEFINE j == shell.at
<1>1. j \in DOMAIN jobs /\ j \in Ids /\ task[j] \in [Slots -> TaskStates] /\ TasksEmpty(j)
  BY DEF PollDone, JobsInv, BusyWithLiveJob, TypeOK
<1>2. \A k \in Slots : task[j][k] # "running"
  BY <1>1 DEF TasksEmpty, JobsInv, NoOrphanTask, TypeOK, JobRecord, Slots
<1>3. /\ Forgotten(task[j]) \in [Slots -> TaskStates]
      /\ \A k \in Slots : Forgotten(task[j])[k] # "running"
  BY <1>1, <1>2, RowTypes
<1>4. /\ task' = [task EXCEPT ![j] = Forgotten(task[j])]
      /\ remove_job(jobs, j) /\ shell' = AfterPolled(j)
  BY DEF PollDone, Forget
<1>5. /\ DOMAIN jobs' = DOMAIN jobs \ {j}
      /\ \A i \in DOMAIN jobs' : jobs'[i] \in JobRecord
      /\ next_job_id' = next_job_id
      /\ current_job_id' \in Ids \union {NoJob}
      /\ previous_job_id' \in Ids \union {NoJob}
      /\ task' \in [Ids -> [Slots -> TaskStates]]
      /\ NumbersFresh' /\ StagesTracked' /\ DesignatorsNameNewest' /\ NoOrphanTask'
  BY <1>1, <1>3, <1>4, RemoveInv
<1>6. report' \in Reports
  <2>1. (IF shell.got # "none" THEN shell.got ELSE StoredResult(j)) \in Outcomes
    BY <1>1, StoredResultType DEF JobsInv, TypeOK, Outcomes
  <2>. QED
    BY <1>1, <2>1, ReportedType DEF PollDone
<1>7. shell' \in ShellStates /\ BusyWithLiveJob'
  BY <1>1, <1>4, <1>5, PolledJobLeft
<1>8. TypeOK'
  BY <1>5, <1>6, <1>7 DEF JobsInv, TypeOK, Reports, ShellStates
<1>. QED
  BY <1>5, <1>7, <1>8 DEF JobsInv

LEMMA StutterInv == JobsInv /\ UNCHANGED vars => JobsInv'
BY DEF vars, table, JobsInv, TypeOK, BusyWithLiveJob, NumbersFresh, StagesTracked,
       DesignatorsNameNewest, NoOrphanTask

LEMMA NextInv == JobsInv /\ [Next]_vars => JobsInv'
<1>. SUFFICES ASSUME JobsInv, [Next]_vars PROVE JobsInv'
  OBVIOUS
<1>1. CASE \E n \in Slots : add_as_current(n)
  BY <1>1, AddInv
<1>2. CASE Environment
  BY <1>2, TaskEndsInv DEF Environment
<1>3. CASE \E s \in Specs : WaitAnswered(s) \/ WaitBegins(s)
  BY <1>3, WaitAnsweredInv, WaitBeginsInv
<1>4. CASE WaitAllBegins \/ PollBegins
  BY <1>4, LoopBeginsInv
<1>5. CASE Answer
  BY <1>5, MovesInv, WaitTaskInv, WaitStoppedInv, WaitFailsInv DEF Answer
<1>6. CASE Work
  BY <1>6, SweepInv, PollPopsInv, MovesInv, PollFailsInv, PollDoneInv DEF Work
<1>7. CASE UNCHANGED vars
  BY <1>7, StutterInv
<1>. QED
  BY <1>1, <1>2, <1>3, <1>4, <1>5, <1>6, <1>7 DEF Next

(***************************************************************************)
(* JobsInv holds in every state of every behaviour, for any number of jobs *)
(* and tasks.                                                              *)
(***************************************************************************)
THEOREM Invariance == Spec => []JobsInv
BY InitInv, NextInv, PTL DEF Spec

(***************************************************************************)
(* The fields of the job table and the shell's place in its loops keep     *)
(* their types (jobs.rs, builtins/wait.rs).                                *)
(***************************************************************************)
THEOREM TypeCorrect == Spec => []TypeOK
<1>1. JobsInv => TypeOK
  BY DEF JobsInv
<1>. QED
  BY <1>1, Invariance, PTL

(***************************************************************************)
(* `%+` and `%-` name the newest job and the newest but one, and the flags *)
(* agree (refresh_annotations, remove_job_at, add_as_current).             *)
(***************************************************************************)
THEOREM DesignatorsCorrect == Spec => []DesignatorsNameNewest
<1>1. JobsInv => DesignatorsNameNewest
  BY DEF JobsInv
<1>. QED
  BY <1>1, Invariance, PTL

(***************************************************************************)
(* No running task is lost: the job it belongs to is in the table and has  *)
(* it in its queue (cleanup_remaining_tasks, Job::wait, Job::poll_done).   *)
(***************************************************************************)
THEOREM TasksStayReachable == Spec => []NoOrphanTask
<1>1. JobsInv => NoOrphanTask
  BY DEF JobsInv
<1>. QED
  BY <1>1, Invariance, PTL

-----------------------------------------------------------------------------
(* What the answers about a job rest on: the result stored for a job whose *)
(* queue is empty, or the one the poll just took off it, is that of the    *)
(* last stage.  A job with an error or a stop is left out, for the stages  *)
(* behind the error are cancelled and a stopped stage is never popped.     *)

Clean(j) == \A k \in Slots : task[j][k] \notin {"error", "code148", "joined"}

PolledTo(j) == shell.op = "poll" /\ shell.at = j /\ shell.got # "none"

Kept(j) ==
  /\ jobs[j].head <= jobs[j].size + 1
  /\ Clean(j) /\ TasksEmpty(j) => PolledTo(j) \/ jobs[j].result = task[j][jobs[j].size]
  /\ Clean(j) /\ PolledTo(j) => jobs[j].head > 1 /\ shell.got = task[j][jobs[j].head - 1]

ResultsKept == \A j \in DOMAIN jobs : Kept(j)

StatusInv == JobsInv /\ ResultsKept /\ ReportIsFinalStatus

LEMMA StatusOf ==
  ASSUME JobsInv, NEW j \in DOMAIN jobs
  PROVE  /\ Clean(j) => TrueStatus(j) = task[j][jobs[j].size]
         /\ ~Clean(j) => TrueStatus(j) \in {"error", "code148"}
<1>. DEFINE staged == {k \in Slots : task[j][k] # "none"}
<1>1. jobs[j].size \in Slots
  BY DEF JobsInv, TypeOK, JobRecord
<1>2. staged = 1 .. jobs[j].size
  BY <1>1 DEF JobsInv, StagesTracked, Slots
<1>3. Newest(staged) = jobs[j].size
  <2>1. jobs[j].size \in staged /\ \A x \in staged : x <= jobs[j].size
    BY <1>1, <1>2 DEF Slots
  <2>2. staged \in SUBSET (0 .. MaxTasks) /\ staged \subseteq Nat
    BY DEF Slots
  <2>3. Newest(staged) = CHOOSE m \in staged : \A x \in staged : x <= m
    BY <2>1 DEF Newest
  <2>. HIDE DEF staged
  <2>4. Newest(staged) \in staged /\ \A x \in staged : x <= Newest(staged)
    BY <2>1, <2>3
  <2>5. /\ Newest(staged) \in Nat /\ jobs[j].size \in Nat
        /\ Newest(staged) <= jobs[j].size /\ jobs[j].size <= Newest(staged)
    <3>1. \A x \in staged : x \in Nat
      BY <2>2
    <3>. QED
      BY <2>1, <2>4, <3>1
  <2>. QED
    BY <2>5
<1>4. LastStage(j) = task[j][jobs[j].size]
  BY <1>3 DEF LastStage
<1>5. \A v : v # "none" => (v \in StageStates(j) <=> \E k \in Slots : task[j][k] = v)
  BY DEF StageStates
<1>. QED
  BY <1>4, <1>5 DEF Clean, TrueStatus

LEMMA TruthReported ==
  ASSUME JobsInv, NEW j \in DOMAIN jobs, NEW r, report' = Reported(j, r),
         Clean(j) => r = task[j][jobs[j].size]
  PROVE  ReportIsFinalStatus'
<1>1. report'.value = r /\ report'.truth = TrueStatus(j)
  BY DEF Reported
<1>. QED
  BY <1>1, StatusOf DEF ReportIsFinalStatus

LEMMA NothingReported ==
  ASSUME report' \in {NoReport, NoSuchJob}
  PROVE  ReportIsFinalStatus'
<1>1. CASE report' = NoReport
  BY <1>1 DEF NoReport, ReportIsFinalStatus
<1>2. CASE report' = NoSuchJob
  BY <1>2 DEF NoSuchJob, ReportIsFinalStatus
<1>. QED
  BY <1>1, <1>2

(* A step that changes nothing of a job's queue keeps what is said of it. *)
LEMMA KeptSame ==
  ASSUME NEW i, Kept(i), task'[i] = task[i],
         jobs'[i].head = jobs[i].head, jobs'[i].size = jobs[i].size,
         jobs'[i].result = jobs[i].result,
         ~PolledTo(i)', ~PolledTo(i) \/ ~TasksEmpty(i)
  PROVE  Kept(i)'
BY DEF Kept, Clean, TasksEmpty

LEMMA InitStatus == Init => StatusInv
<1>. SUFFICES ASSUME Init PROVE StatusInv
  OBVIOUS
<1>1. JobsInv
  BY InitInv
<1>2. ResultsKept
  BY DEF Init, EmptyTable, ResultsKept
<1>3. ReportIsFinalStatus
  BY DEF Init, NoReport, ReportIsFinalStatus
<1>. QED
  BY <1>1, <1>2, <1>3 DEF StatusInv

LEMMA AddStatus ==
  ASSUME StatusInv, NEW n \in Slots, add_as_current(n)
  PROVE  ResultsKept' /\ ReportIsFinalStatus'
<1>. DEFINE id == next_job_id
            js == [j \in DOMAIN jobs \union {id} |-> IF j = id THEN NewJob(n) ELSE jobs[j]]
            p0 == IF current_job_id \in DOMAIN jobs THEN current_job_id ELSE NoJob
<1>1. JobsInv /\ \A j \in DOMAIN jobs : j < id /\ jobs[j] \in JobRecord
  BY DEF StatusInv, JobsInv, NumbersFresh, TypeOK
<1>2. NewJob(n) \in JobRecord /\ id \in Ids /\ n \in Nat
  BY DEF add_as_current, NewJob, JobRecord, Slots
<1>3. \A j \in DOMAIN js : js[j] \in JobRecord
  BY <1>1, <1>2
<1>4. refresh_annotations(js, id, p0) /\ shell' = shell /\ shell.op = "idle"
  BY DEF add_as_current, Idle
<1>5. /\ task' = [task EXCEPT ![id] = [k \in Slots |-> IF k <= n THEN "running" ELSE "none"]]
      /\ task \in [Ids -> [Slots -> TaskStates]]
  BY <1>1 DEF add_as_current, JobsInv, TypeOK
<1>6. DOMAIN js = DOMAIN jobs \union {id} /\ \A j \in DOMAIN jobs : j # id /\ js[j] = jobs[j]
  <2>1. \A j \in DOMAIN jobs : j \in Nat
    BY <1>1 DEF JobsInv, TypeOK, Ids
  <2>2. id \in Nat
    BY <1>2 DEF Ids
  <2>. QED
    BY <1>1, <2>1, <2>2
<1>7. js[id] = NewJob(n)
  OBVIOUS
<1>. HIDE DEF js
<1>8. /\ DOMAIN jobs' = DOMAIN js
      /\ \A j \in DOMAIN js : /\ jobs'[j].head = js[j].head
                              /\ jobs'[j].size = js[j].size
                              /\ jobs'[j].result = js[j].result
  BY <1>3, <1>4, RefreshedTable
<1>9. ASSUME NEW j \in DOMAIN jobs'
      PROVE  Kept(j)'
  <2>1. CASE j = id
    <3>1. jobs'[j].head = 1 /\ jobs'[j].size = n
      BY <1>6, <1>7, <1>8, <2>1 DEF NewJob
    <3>2. n \in Nat /\ n >= 1
      BY DEF Slots
    <3>. QED
      BY <1>4, <3>1, <3>2 DEF Kept, TasksEmpty, PolledTo
  <2>2. CASE j # id
    <3>1. j \in DOMAIN jobs /\ j \in Ids /\ task'[j] = task[j] /\ Kept(j)
      BY <1>1, <1>5, <1>6, <1>8, <2>2 DEF StatusInv, ResultsKept, JobsInv, TypeOK
    <3>2. ~PolledTo(j) /\ ~PolledTo(j)'
      BY <1>4 DEF PolledTo
    <3>. QED
      BY <1>6, <1>8, <3>1, <3>2, KeptSame
  <2>. QED
    BY <2>1, <2>2
<1>10. ReportIsFinalStatus'
  BY NothingReported DEF add_as_current, Silent
<1>. QED
  BY <1>9, <1>10 DEF ResultsKept

LEMMA TaskEndsStatus ==
  ASSUME StatusInv, NEW id \in Ids, NEW k \in Slots, NEW o \in Outcomes, TaskEnds(id, k, o)
  PROVE  ResultsKept' /\ ReportIsFinalStatus'
<1>1. /\ jobs' = jobs /\ shell' = shell /\ shell.op # "poll"
      /\ task' = [task EXCEPT ![id] = [task[id] EXCEPT ![k] = o]]
      /\ task[id][k] = "running"
  BY DEF TaskEnds, Synchronous
<1>2. ASSUME NEW j \in DOMAIN jobs'
      PROVE  Kept(j)'
  <2>1. Kept(j) /\ j \in DOMAIN jobs /\ jobs[j] \in JobRecord
    BY <1>1 DEF StatusInv, ResultsKept, JobsInv, TypeOK
  <2>2. ~PolledTo(j) /\ ~PolledTo(j)'
    BY <1>1 DEF PolledTo
  <2>3. CASE j = id
    <3>1. k \in jobs[j].head .. jobs[j].size
      BY <1>1, <2>3 DEF StatusInv, JobsInv, NoOrphanTask
    <3>2. jobs[j].head \in Nat /\ jobs[j].size \in Nat
      BY <2>1 DEF JobRecord, Slots
    <3>3. ~TasksEmpty(j)'
      BY <1>1, <3>1, <3>2 DEF TasksEmpty
    <3>. QED
      BY <1>1, <2>1, <2>2, <3>3 DEF Kept
  <2>4. CASE j # id
    <3>1. task'[j] = task[j]
      BY <1>1, <2>4
    <3>. QED
      BY <1>1, <2>1, <2>2, <3>1, KeptSame
  <2>. QED
    BY <2>3, <2>4
<1>3. ReportIsFinalStatus'
  BY NothingReported DEF TaskEnds, Silent
<1>. QED
  BY <1>2, <1>3 DEF ResultsKept

(* A step that only moves the shell on keeps what is said of every job. *)
LEMMA QuietKept ==
  ASSUME StatusInv, jobs' = jobs, task' = task,
         shell'.op # "poll" \/ shell'.got = "none",
         shell.op = "poll" => ~TasksEmpty(shell.at)
  PROVE  ResultsKept'
<1>1. ASSUME NEW j \in DOMAIN jobs'
      PROVE  Kept(j)'
  <2>1. Kept(j) /\ ~PolledTo(j)' /\ (~PolledTo(j) \/ ~TasksEmpty(j))
    BY DEF StatusInv, ResultsKept, PolledTo
  <2>. QED
    BY <2>1, KeptSame
<1>. QED
  BY <1>1 DEF ResultsKept

LEMMA WaitAnsweredStatus ==
  ASSUME StatusInv, NEW s \in Specs, WaitAnswered(s)
  PROVE  ResultsKept' /\ ReportIsFinalStatus'
<1>. DEFINE j == resolve_job_spec(s)
<1>1. jobs' = jobs /\ task' = task /\ shell' = shell /\ shell.op = "idle"
  BY DEF WaitAnswered, Idle
<1>2. ResultsKept'
  BY <1>1, QuietKept
<1>3. CASE j = NoJob /\ report' = NoSuchJob
  BY <1>2, <1>3, NothingReported
<1>4. CASE j # NoJob /\ Settled(j) /\ report' = Reported(j, StoredResult(j))
  <2>1. j \in DOMAIN jobs
    BY <1>4 DEF resolve_job_spec
  <2>2. Kept(j) /\ TasksEmpty(j) /\ ~PolledTo(j)
    BY <1>1, <1>4, <2>1 DEF StatusInv, ResultsKept, Settled, PolledTo
  <2>3. ASSUME Clean(j) PROVE StoredResult(j) = task[j][jobs[j].size]
    <3>1. jobs[j].result = task[j][jobs[j].size]
      BY <2>2, <2>3 DEF Kept
    <3>2. jobs[j].size \in Slots
      BY <2>1 DEF StatusInv, JobsInv, TypeOK, JobRecord
    <3>3. task[j][jobs[j].size] # "none"
      BY <2>1, <3>2 DEF StatusInv, JobsInv, StagesTracked, Slots
    <3>. QED
      BY <3>1, <3>3 DEF StoredResult
  <2>. HIDE DEF j
  <2>4. ReportIsFinalStatus'
    BY <1>4, <2>1, <2>3, TruthReported DEF StatusInv
  <2>. QED
    BY <1>2, <2>4
<1>. QED
  BY <1>3, <1>4 DEF WaitAnswered

(* The steps on which the shell only moves on. *)
LEMMA MovesStatus ==
  ASSUME StatusInv,
         \/ \E s \in Specs : WaitBegins(s)
         \/ WaitAllBegins \/ PollBegins \/ WaitSkips \/ PollPending
         \/ SweepStep /\ ~TasksEmpty(shell.at)
  PROVE  ResultsKept' /\ ReportIsFinalStatus'
<1>1. report' = NoReport
  BY DEF WaitBegins, WaitAllBegins, PollBegins, WaitSkips, PollPending, SweepStep, Silent
<1>2. jobs' = jobs /\ task' = task
  BY DEF WaitBegins, WaitAllBegins, PollBegins, WaitSkips, PollPending, SweepStep
<1>3. shell'.got = "none"
  BY DEF WaitBegins, WaitAllBegins, PollBegins, WaitSkips, PollPending, SweepStep,
         AfterJob, AfterPolled, At, Idle
<1>4. shell.op = "poll" => ~TasksEmpty(shell.at)
  BY DEF WaitBegins, WaitAllBegins, PollBegins, WaitSkips, PollPending, SweepStep, Idle
<1>. QED
  BY <1>1, <1>2, <1>3, <1>4, QuietKept, NothingReported

(* A step about one job of the table: the others keep what is said of them. *)
LEMMA OthersKept ==
  ASSUME StatusInv, NEW j, shell.op = "poll" => shell.at = j,
         shell'.op = "poll" => shell'.at = j \/ shell'.got = "none",
         DOMAIN jobs' \subseteq DOMAIN jobs,
         \A i \in DOMAIN jobs' \ {j} : /\ jobs'[i].head = jobs[i].head
                                       /\ jobs'[i].size = jobs[i].size
                                       /\ jobs'[i].result = jobs[i].result
                                       /\ task'[i] = task[i],
         j \in DOMAIN jobs' => Kept(j)'
  PROVE  ResultsKept'
<1>1. ASSUME NEW i \in DOMAIN jobs' \ {j}
      PROVE  Kept(i)'
  <2>1. Kept(i) /\ ~PolledTo(i) /\ ~PolledTo(i)'
    BY DEF StatusInv, ResultsKept, PolledTo
  <2>. QED
    BY <2>1, KeptSame
<1>. QED
  BY <1>1 DEF ResultsKept

LEMMA WaitTaskStatus ==
  ASSUME StatusInv, WaitTask
  PROVE  ResultsKept' /\ ReportIsFinalStatus'
<1>0. PICK j : j = shell.at
  OBVIOUS
<1>1. Waiting /\ ~TasksEmpty(j) /\ j \in DOMAIN jobs /\ shell.op # "poll"
  BY <1>0 DEF WaitTask, Waiting, StatusInv, JobsInv, BusyWithLiveJob
<1>2. /\ jobs[j] \in JobRecord /\ jobs[j].head \in Slots
      /\ jobs[j].head <= jobs[j].size /\ jobs[j].size \in Nat /\ jobs[j].head \in Nat
  BY <1>1, FrontType DEF StatusInv, JobRecord, Slots
<1>3. Front(j) = task[j][jobs[j].head]
  BY <1>0 DEF WaitTask, Front, Codes
<1>4. shell'.op # "poll"
  BY <1>0, <1>1 DEF WaitTask, AfterJob, At, Idle
<1>5. /\ DOMAIN jobs' = DOMAIN jobs /\ task' = task
      /\ \A i \in DOMAIN jobs : i # j => jobs'[i] = jobs[i]
      /\ jobs'[j].head = jobs[j].head + 1
      /\ jobs'[j].size = jobs[j].size
      /\ jobs[j].head = jobs[j].size => jobs'[j].result = Front(j)
  BY <1>0, <1>1, <1>2 DEF WaitTask, PopFront, JobRecord
<1>6. Kept(j)'
  <2>1. ~PolledTo(j)'
    BY <1>4 DEF PolledTo
  <2>2. TasksEmpty(j)' => jobs[j].head = jobs[j].size
    BY <1>2, <1>5 DEF TasksEmpty
  <2>. QED
    BY <1>2, <1>3, <1>5, <2>1, <2>2 DEF Kept
<1>7. ResultsKept'
  BY <1>1, <1>4, <1>5, <1>6, OthersKept
<1>8. ReportIsFinalStatus'
  <2>1. CASE report' = NoReport
    BY <2>1, NothingReported
  <2>2. CASE jobs[j].head = jobs[j].size /\ report' = Reported(j, Front(j))
    BY <1>1, <1>3, <2>2, TruthReported DEF StatusInv
  <2>. QED
    BY <1>0, <2>1, <2>2 DEF WaitTask
<1>. QED
  BY <1>7, <1>8

LEMMA WaitStoppedStatus ==
  ASSUME StatusInv, WaitStopped
  PROVE  ResultsKept' /\ ReportIsFinalStatus'
<1>0. PICK j, h : j = shell.at /\ h = jobs[j].head
  OBVIOUS
<1>1. Waiting /\ ~TasksEmpty(j) /\ j \in DOMAIN jobs /\ shell.op # "poll"
  BY <1>0 DEF WaitStopped, Waiting, StatusInv, JobsInv, BusyWithLiveJob
<1>2. j \in Ids /\ jobs[j] \in JobRecord /\ h \in Slots
  BY <1>0, <1>1, FrontType DEF StatusInv
<1>3. task[j][h] = "code148"
  BY <1>0 DEF WaitStopped, Front
<1>4. ~Clean(j)
  BY <1>2, <1>3 DEF Clean
<1>5. /\ task \in [Ids -> [Slots -> TaskStates]]
      /\ task' = [task EXCEPT ![j] = [task[j] EXCEPT ![h] = "joined"]]
  BY <1>0 DEF WaitStopped, StatusInv, JobsInv, TypeOK
<1>6. task'[j][h] = "joined" /\ \A i \in Ids : i # j => task'[i] = task[i]
  BY <1>2, <1>5
<1>7. /\ DOMAIN jobs' = DOMAIN jobs
      /\ \A i \in DOMAIN jobs : i # j => jobs'[i] = jobs[i]
      /\ jobs'[j].head = h
      /\ jobs'[j].size = jobs[j].size
  BY <1>0, <1>1, <1>2 DEF WaitStopped, JobRecord
<1>8. shell'.op # "poll" /\ ~PolledTo(j)'
  BY <1>0, <1>1 DEF WaitStopped, AfterJob, At, Idle, PolledTo
<1>9. Kept(j)'
  <2>1. ~Clean(j)'
    BY <1>2, <1>6 DEF Clean
  <2>2. h <= jobs[j].size + 1
    BY <1>0, <1>1 DEF StatusInv, ResultsKept, Kept
  <2>. QED
    BY <1>7, <2>1, <2>2 DEF Kept
<1>10. \A i \in DOMAIN jobs : i \in Ids
  BY <1>0 DEF StatusInv, JobsInv, TypeOK
<1>11. ResultsKept'
  BY <1>1, <1>6, <1>7, <1>8, <1>9, <1>10, OthersKept
<1>12. ReportIsFinalStatus'
  BY <1>0, <1>1, <1>4, NothingReported, TruthReported DEF WaitStopped, StatusInv
<1>. QED
  BY <1>11, <1>12

LEMMA WaitFailsStatus ==
  ASSUME StatusInv, WaitFails
  PROVE  ResultsKept' /\ ReportIsFinalStatus'
<1>0. PICK j, h : j = shell.at /\ h = jobs[j].head
  OBVIOUS
<1>1. Waiting /\ ~TasksEmpty(j) /\ j \in DOMAIN jobs /\ shell.op # "poll"
  BY <1>0 DEF WaitFails, Waiting, StatusInv, JobsInv, BusyWithLiveJob
<1>2. j \in Ids /\ jobs[j] \in JobRecord /\ h \in Slots
  BY <1>0, <1>1, FrontType DEF StatusInv
<1>3. task[j][h] \in {"error", "joined"}
  BY <1>0 DEF WaitFails, Front
<1>4. ~Clean(j)
  BY <1>2, <1>3 DEF Clean
<1>5. /\ task \in [Ids -> [Slots -> TaskStates]]
      /\ task' = [task EXCEPT ![j] = Cancelled(task[j])]
  BY <1>0 DEF WaitFails, CancelRest, StatusInv, JobsInv, TypeOK
<1>6. task'[j][h] = task[j][h] /\ \A i \in Ids : i # j => task'[i] = task[i]
  BY <1>2, <1>3, <1>5 DEF Cancelled
<1>7. /\ DOMAIN jobs' = DOMAIN jobs
      /\ \A i \in DOMAIN jobs : i # j => jobs'[i] = jobs[i]
      /\ jobs'[j].head = jobs[j].size + 1
      /\ jobs'[j].size = jobs[j].size
  BY <1>0, <1>1, <1>2 DEF WaitFails, FailedJob, JobRecord
<1>8. shell'.op # "poll"
  BY <1>0 DEF WaitFails, Idle
<1>9. Kept(j)'
  <2>1. ~Clean(j)'
    BY <1>2, <1>3, <1>6 DEF Clean
  <2>2. jobs[j].size + 1 <= jobs[j].size + 1
    BY <1>2 DEF JobRecord, Slots
  <2>. QED
    BY <1>7, <2>1, <2>2 DEF Kept
<1>10. \A i \in DOMAIN jobs : i \in Ids
  BY <1>0 DEF StatusInv, JobsInv, TypeOK
<1>11. ResultsKept'
  BY <1>1, <1>6, <1>7, <1>8, <1>9, <1>10, OthersKept
<1>12. ReportIsFinalStatus'
  BY <1>0, <1>1, <1>4, TruthReported DEF WaitFails, StatusInv
<1>. QED
  BY <1>11, <1>12

LEMMA PollPopsStatus ==
  ASSUME StatusInv, PollPops
  PROVE  ResultsKept' /\ ReportIsFinalStatus'
<1>. DEFINE j == shell.at
<1>1. ~TasksEmpty(j) /\ j \in DOMAIN jobs /\ shell.op = "poll"
  BY DEF PollPops, StatusInv, JobsInv, BusyWithLiveJob
<1>2. /\ jobs[j] \in JobRecord /\ jobs[j].head \in Slots
      /\ jobs[j].head <= jobs[j].size /\ jobs[j].size \in Nat
      /\ jobs[j].head \in Nat /\ jobs[j].head >= 1
  BY <1>1, FrontType DEF StatusInv, JobRecord, Slots
<1>3. Front(j) = task[j][jobs[j].head]
  BY DEF PollPops, Front, Codes
<1>4. /\ DOMAIN jobs' = DOMAIN jobs /\ task' = task
      /\ \A i \in DOMAIN jobs : i # j => jobs'[i] = jobs[i]
      /\ jobs'[j].head = jobs[j].head + 1
      /\ jobs'[j].size = jobs[j].size
  BY <1>1, <1>2 DEF PollPops, PopFront, JobRecord
<1>5. shell'.op = "poll" /\ shell'.at = j /\ shell'.got = Front(j) /\ Front(j) # "none"
  BY <1>1 DEF PollPops, StatusInv, JobsInv, TypeOK, Codes
<1>6. Kept(j)'
  <2>1. PolledTo(j)'
    BY <1>5 DEF PolledTo
  <2>2. /\ jobs'[j].head - 1 = jobs[j].head /\ jobs'[j].head > 1
        /\ jobs'[j].head <= jobs'[j].size + 1
    BY <1>2, <1>4
  <2>. QED
    BY <1>3, <1>4, <1>5, <2>1, <2>2 DEF Kept
<1>7. ResultsKept'
  BY <1>1, <1>4, <1>5, <1>6, OthersKept
<1>8. ReportIsFinalStatus'
  BY NothingReported DEF PollPops, Silent
<1>. QED
  BY <1>7, <1>8

(* A job leaves the table, and its row is forgotten. *)
LEMMA RemovedKept ==
  ASSUME StatusInv, NEW j \in DOMAIN jobs, shell.op = "poll" => shell.at = j,
         shell'.got = "none",
         NEW js, DOMAIN js = DOMAIN jobs,
         \A i \in DOMAIN jobs : i # j => js[i] = jobs[i],
         remove_job(js, j), NEW row, task' = [task EXCEPT ![j] = row]
  PROVE  ResultsKept'
<1>. DEFINE M  == DOMAIN jobs \ {j}
            ms == [i \in M |-> js[i]]
            c0 == IF current_job_id = j THEN NoJob ELSE current_job_id
            p0 == IF previous_job_id = j THEN NoJob ELSE previous_job_id
<1>1. DOMAIN ms = M /\ \A i \in M : ms[i] = jobs[i] /\ ms[i] \in JobRecord
  BY DEF StatusInv, JobsInv, TypeOK
<1>2. refresh_annotations(ms, c0, p0)
  BY DEF remove_job
<1>. HIDE DEF ms
<1>3. /\ DOMAIN jobs' = M
      /\ \A i \in M : /\ jobs'[i].head = jobs[i].head
                      /\ jobs'[i].size = jobs[i].size
                      /\ jobs'[i].result = jobs[i].result
  BY <1>1, <1>2, RefreshedTable
<1>4. \A i \in M : task'[i] = task[i]
  BY DEF StatusInv, JobsInv, TypeOK
<1>. QED
  BY <1>3, <1>4, OthersKept

LEMMA SweepStatus ==
  ASSUME StatusInv, SweepStep
  PROVE  ResultsKept' /\ ReportIsFinalStatus'
<1>. DEFINE j == shell.at
<1>1. j \in DOMAIN jobs /\ shell.op # "poll"
  BY DEF SweepStep, StatusInv, JobsInv, BusyWithLiveJob
<1>2. report' = NoReport /\ shell'.got = "none"
  BY DEF SweepStep, Silent, At
<1>3. CASE TasksEmpty(j)
  <2>1. remove_job(jobs, j) /\ task' = [task EXCEPT ![j] = Forgotten(task[j])]
    BY <1>1, <1>3 DEF SweepStep, Forget, StatusInv, JobsInv, TypeOK
  <2>. QED
    BY <1>1, <1>2, <2>1, RemovedKept, NothingReported
<1>4. CASE ~TasksEmpty(j)
  BY <1>4, MovesStatus
<1>. QED
  BY <1>3, <1>4

LEMMA PollFailsStatus ==
  ASSUME StatusInv, PollFails
  PROVE  ResultsKept' /\ ReportIsFinalStatus'
<1>. DEFINE j == shell.at
            h == jobs[shell.at].head
<1>1. ~TasksEmpty(j) /\ j \in DOMAIN jobs
  BY DEF PollFails, StatusInv, JobsInv, BusyWithLiveJob
<1>2. h \in Slots /\ task[j][h] \in {"error", "joined"}
  BY <1>1, FrontType DEF StatusInv, PollFails, Front
<1>3. ~Clean(j)
  BY <1>2 DEF Clean
<1>4. /\ DOMAIN FailedJob(j) = DOMAIN jobs
      /\ \A i \in DOMAIN jobs : i # j => FailedJob(j)[i] = jobs[i]
  BY DEF FailedJob
<1>5. /\ remove_job(FailedJob(j), j) /\ shell'.got = "none"
      /\ task' = [task EXCEPT ![j] = Forgotten(Cancelled(task[j]))]
  BY DEF PollFails, AfterPolled, At, StatusInv, JobsInv, TypeOK
<1>6. ResultsKept'
  BY <1>1, <1>4, <1>5, RemovedKept
<1>7. ReportIsFinalStatus'
  BY <1>1, <1>3, TruthReported DEF PollFails, StatusInv
<1>. QED
  BY <1>6, <1>7

LEMMA PollDoneStatus ==
  ASSUME StatusInv, PollDone
  PROVE  ResultsKept' /\ ReportIsFinalStatus'
<1>. DEFINE j == shell.at
            r == IF shell.got # "none" THEN shell.got ELSE StoredResult(j)
<1>1. TasksEmpty(j) /\ j \in DOMAIN jobs /\ Kept(j)
  BY DEF PollDone, StatusInv, ResultsKept, JobsInv, BusyWithLiveJob
<1>2. /\ remove_job(jobs, j) /\ shell'.got = "none"
      /\ task' = [task EXCEPT ![j] = Forgotten(task[j])]
  BY DEF PollDone, Forget, AfterPolled, At, StatusInv, JobsInv, TypeOK
<1>3. ResultsKept'
  BY <1>1, <1>2, RemovedKept
<1>4. ASSUME Clean(j) PROVE r = task[j][jobs[j].size]
  <2>1. jobs[j].size \in Slots /\ jobs[j].head \in Nat /\ jobs[j].size \in Nat
    BY <1>1 DEF StatusInv, JobsInv, TypeOK, JobRecord, Slots
  <2>2. CASE PolledTo(j)
    <3>1. jobs[j].head = jobs[j].size + 1
      BY <1>1, <2>1 DEF Kept, TasksEmpty
    <3>2. jobs[j].head - 1 = jobs[j].size
      BY <2>1, <3>1
    <3>3. shell.got = task[j][jobs[j].head - 1] /\ shell.got # "none"
      BY <1>1, <1>4, <2>2 DEF Kept, PolledTo
    <3>. QED
      BY <3>2, <3>3
  <2>3. CASE ~PolledTo(j)
    <3>1. jobs[j].result = task[j][jobs[j].size]
      BY <1>1, <1>4, <2>3 DEF Kept
    <3>2. task[j][jobs[j].size] # "none"
      BY <1>1, <2>1 DEF StatusInv, JobsInv, StagesTracked
    <3>3. shell.got = "none"
      BY <2>3 DEF PollDone, PolledTo
    <3>. QED
      BY <3>1, <3>2, <3>3 DEF StoredResult
  <2>. QED
    BY <2>2, <2>3
<1>5. report' = Reported(j, r)
  BY DEF PollDone
<1>6. ReportIsFinalStatus'
  <2>. HIDE DEF r
  <2>. QED
    BY <1>1, <1>4, <1>5, TruthReported DEF StatusInv
<1>. QED
  BY <1>3, <1>6

LEMMA StutterStatus ==
  ASSUME StatusInv, UNCHANGED vars
  PROVE  ResultsKept' /\ ReportIsFinalStatus'
BY DEF StatusInv, vars, ResultsKept, Kept, Clean, TasksEmpty, PolledTo, ReportIsFinalStatus

LEMMA NextStatus == StatusInv /\ [Next]_vars => StatusInv'
<1>. SUFFICES ASSUME StatusInv, [Next]_vars PROVE StatusInv'
  OBVIOUS
<1>1. JobsInv'
  BY NextInv DEF StatusInv
<1>2. CASE \E n \in Slots : add_as_current(n)
  BY <1>1, <1>2, AddStatus DEF StatusInv
<1>3. CASE Environment
  BY <1>1, <1>3, TaskEndsStatus DEF Environment, StatusInv
<1>4. CASE \E s \in Specs : WaitAnswered(s) \/ WaitBegins(s)
  BY <1>1, <1>4, WaitAnsweredStatus, MovesStatus DEF StatusInv
<1>5. CASE WaitAllBegins \/ PollBegins
  BY <1>1, <1>5, MovesStatus DEF StatusInv
<1>6. CASE Answer
  BY <1>1, <1>6, MovesStatus, WaitTaskStatus, WaitStoppedStatus, WaitFailsStatus
  DEF Answer, StatusInv
<1>7. CASE Work
  BY <1>1, <1>7, SweepStatus, PollPopsStatus, MovesStatus, PollFailsStatus, PollDoneStatus
  DEF Work, StatusInv
<1>8. CASE UNCHANGED vars
  BY <1>1, <1>8, StutterStatus DEF StatusInv
<1>. QED
  BY <1>2, <1>3, <1>4, <1>5, <1>6, <1>7, <1>8 DEF Next

(***************************************************************************)
(* Whenever a `wait %n` or the prompt's poll answers about a job none of   *)
(* whose stages failed or stopped, it says the status of the job's last    *)
(* stage, however often and in whatever order the job was waited for and   *)
(* polled before (Job::wait, Job::poll_done, completion_result).           *)
(***************************************************************************)
THEOREM ReportsAreFinal == Spec => []ReportIsFinalStatus
<1>1. StatusInv => ReportIsFinalStatus
  BY DEF StatusInv
<1>. QED
  BY <1>1, InitStatus, NextStatus, PTL DEF Spec

-----------------------------------------------------------------------------
(* The refinement: every step of the shell is a step of module JobTable,   *)
(* or changes nothing the table shows.                                     *)

LEMMA NewestAgrees == \A S : Table!Newest(S) = Newest(S)
BY DEF Newest, Table!Newest

LEMMA InitRefines == Init => Table!TableInit
BY DEF Init, EmptyTable, Table!TableInit

LEMMA ArrivalRefines ==
  ASSUME JobsInv, JobsInv', NEW n \in Slots, add_as_current(n)
  PROVE  Table!Arrive
<1>1. /\ current_job_id' = Newest(DOMAIN jobs')
      /\ previous_job_id' = Newest(DOMAIN jobs' \ {current_job_id'})
  BY DEF JobsInv, DesignatorsNameNewest
<1>2. DOMAIN jobs' = DOMAIN jobs \union {next_job_id}
  BY DEF add_as_current, refresh_annotations
<1>3. next_job_id' = next_job_id + 1
  BY DEF add_as_current
<1>. QED
  BY <1>1, <1>2, <1>3, NewestAgrees DEF Table!Arrive, Table!Designators

LEMMA DepartureRefines ==
  ASSUME JobsInv, JobsInv', NEW js, NEW j \in DOMAIN jobs,
         DOMAIN js = DOMAIN jobs, remove_job(js, j)
  PROVE  Table!TableNext
<1>1. /\ current_job_id' = Newest(DOMAIN jobs')
      /\ previous_job_id' = Newest(DOMAIN jobs' \ {current_job_id'})
  BY DEF JobsInv, DesignatorsNameNewest
<1>2. DOMAIN jobs' = DOMAIN jobs \ {j} /\ next_job_id' = next_job_id
  BY DEF remove_job, refresh_annotations
<1>3. Table!Leave(j)
  BY <1>1, <1>2, NewestAgrees DEF Table!Leave, Table!Designators
<1>. QED
  BY <1>3 DEF Table!TableNext

LEMMA NextRefines ==
  ASSUME JobsInv, JobsInv', [Next]_vars
  PROVE  [Table!TableNext]_(Table!tableVars)
<1>. DEFINE Still == DOMAIN jobs' = DOMAIN jobs /\ UNCHANGED table
<1>0. Still => UNCHANGED Table!tableVars
  BY DEF table, Table!tableVars
<1>1. CASE \E n \in Slots : add_as_current(n)
  BY <1>1, ArrivalRefines DEF Table!TableNext
<1>2. CASE Environment
  BY <1>0, <1>2 DEF Environment, TaskEnds
<1>3. CASE \E s \in Specs : WaitAnswered(s) \/ WaitBegins(s)
  BY <1>0, <1>3 DEF WaitAnswered, WaitBegins
<1>4. CASE WaitAllBegins \/ PollBegins
  BY <1>0, <1>4 DEF WaitAllBegins, PollBegins
<1>5. CASE Answer
  <2>1. Still
    BY <1>5 DEF Answer, WaitSkips, WaitTask, WaitStopped, WaitFails, PopFront, FailedJob
  <2>. QED
    BY <1>0, <2>1
<1>6. CASE PollPops \/ PollPending
  BY <1>0, <1>6 DEF PollPops, PollPending, PopFront
<1>7. CASE SweepStep
  <2>1. shell.at \in DOMAIN jobs
    BY <1>7 DEF SweepStep, JobsInv, BusyWithLiveJob
  <2>. QED
    BY <1>0, <1>7, <2>1, DepartureRefines DEF SweepStep
<1>8. CASE PollFails \/ PollDone
  <2>1. shell.at \in DOMAIN jobs
    BY <1>8 DEF PollFails, PollDone, JobsInv, BusyWithLiveJob
  <2>2. DOMAIN FailedJob(shell.at) = DOMAIN jobs
    BY DEF FailedJob
  <2>. QED
    BY <1>8, <2>1, <2>2, DepartureRefines DEF PollFails, PollDone
<1>9. CASE UNCHANGED vars
  BY <1>0, <1>9 DEF vars, table
<1>. QED
  BY <1>1, <1>2, <1>3, <1>4, <1>5, <1>6, <1>7, <1>8, <1>9 DEF Next, Work

(***************************************************************************)
(* The patched table of JobManager implements the abstract table: numbers  *)
(* in order and never reused, designators always the newest two.           *)
(***************************************************************************)
THEOREM TableRefinement == Spec => ImplementsTable
<1>1. Init => Table!TableInit
  BY InitRefines
<1>2. JobsInv /\ JobsInv' /\ [Next]_vars => [Table!TableNext]_(Table!tableVars)
  BY NextRefines
<1>. QED
  BY <1>1, <1>2, Invariance, PTL DEF Spec, ImplementsTable, Table!TableSpec
=============================================================================
