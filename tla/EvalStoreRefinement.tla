------------------------ MODULE EvalStoreRefinement ------------------------
(* The proof that the tables implement the ledger, for every instance.     *)
(* Initial states map to the initial state of the ledger, and each         *)
(* transaction to one of its steps or to none (EvalStoreLedger says how).  *)
EXTENDS EvalStoreProofs

Outcomes(rows) == [t \in Task |-> LedgerOutcome(rows[t].state)]
Tries(rows) == [t \in Task |-> rows[t].attempt]
Verdicts == [j \in Job |-> jobs[j].state]

(* Which state of a row stands for which outcome, one by one.               *)
LEMMA OutcomeOf ==
  ASSUME NEW s \in TaskState \cup {"ABSENT"}
  PROVE  /\ (LedgerOutcome(s) = "none") <=> (s = "ABSENT")
         /\ (LedgerOutcome(s) = "waiting") <=> (s \in {"PENDING", "RETRYING"})
         /\ (LedgerOutcome(s) = "trying") <=> (s = "RUNNING")
         /\ (LedgerOutcome(s) = "done") <=> (s = "COMPLETED")
         /\ (LedgerOutcome(s) = "failed") <=> (s = "FAILED")
         /\ (LedgerOutcome(s) = "cancelled") <=> (s = "CANCELLED")
         /\ (LedgerOutcome(s) \in {"done", "failed", "cancelled"}) <=> (s \in TERMINAL)
<1>1. s \in {"ABSENT", "PENDING", "RETRYING", "RUNNING", "COMPLETED", "FAILED", "CANCELLED"}
  BY DEF TaskState, JobState, TERMINAL
<1>2. CASE s = "ABSENT"
  BY <1>2 DEF LedgerOutcome, TERMINAL
<1>3. CASE s = "PENDING"
  BY <1>3 DEF LedgerOutcome, TERMINAL
<1>4. CASE s = "RETRYING"
  BY <1>4 DEF LedgerOutcome, TERMINAL
<1>5. CASE s = "RUNNING"
  BY <1>5 DEF LedgerOutcome, TERMINAL
<1>6. CASE s = "COMPLETED"
  BY <1>6 DEF LedgerOutcome, TERMINAL
<1>7. CASE s = "FAILED"
  BY <1>7 DEF LedgerOutcome, TERMINAL
<1>8. CASE s = "CANCELLED"
  BY <1>8 DEF LedgerOutcome, TERMINAL
<1> QED BY <1>1, <1>2, <1>3, <1>4, <1>5, <1>6, <1>7, <1>8

(* The verdict of the ledger on a job that was not cancelled is the state   *)
(* refresh_job computes, although the one counts tries where the other      *)
(* looks for states other than PENDING.                                     *)
LEMMA VerdictAgrees ==
  ASSUME NEW rows \in [Task -> TaskRow], NEW log,
         \A t \in Task : TaskInv(rows[t], log[t]),
         NEW j \in Job, "CANCELLED" \notin StatesOf(j, rows)
  PROVE  Ledger!VerdictOn(j, Outcomes(rows), Tries(rows)) = RefreshedState(StatesOf(j, rows))
<1> DEFINE states == StatesOf(j, rows)
           members == {t \in Task : JobOf(t) = j /\ rows[t].state # "ABSENT"}
<1>1. \A t \in Task : rows[t].state \in TaskState \cup {"ABSENT"} /\ rows[t].attempt \in 0..MaxAttempts
  BY DEF TaskRow
<1>2. Ledger!Members(j, Outcomes(rows)) = members
  BY <1>1, OutcomeOf DEF Ledger!Members, Ledger!LedgerTask, Outcomes, Task, JobOf
<1>3. \A s : s \in states <=> \E t \in members : rows[t].state = s
  BY StatesMembers
<1>4. \A t \in members : t \in Task /\ rows[t].state \in TaskState \ {"CANCELLED"}
  BY <1>1, <1>3
<1>5. \A t \in members : rows[t].state # "PENDING" <=> rows[t].attempt > 0
  BY <1>1, <1>4, StoreAssumption
     DEF TaskInv, Budgeted, Retried, TaskState, JobState, TERMINAL, AttemptNo
<1>6. (\A t \in members : Outcomes(rows)[t] = "done") <=> states \subseteq {"COMPLETED"}
  BY <1>1, <1>3, OutcomeOf DEF Outcomes
<1>7. (\A t \in members : Outcomes(rows)[t] \in {"done", "failed", "cancelled"})
        <=> states \subseteq TERMINAL
  BY <1>1, <1>3, OutcomeOf DEF Outcomes
<1>8. (\E t \in members : Tries(rows)[t] > 0) <=> ~ (states \subseteq {"PENDING"})
  BY <1>3, <1>5 DEF Tries
<1> HIDE DEF states, members
<1> QED BY <1>2, <1>6, <1>7, <1>8
        DEF Ledger!VerdictOn, Ledger!Decided, RefreshedState, states


(* A write on some tasks of open jobs records the right verdicts.           *)
LEMMA RecordFits ==
  ASSUME StoreInv, StoreInv', NEW S \in SUBSET Task,
         \A t \in S : Open(tasks[t]) /\ jobs'[JobOf(t)].state \notin {"ABSENT", "CANCELLED"},
         \A j \in Job : (\A t \in S : JobOf(t) # j) => jobs'[j] = jobs[j]
  PROVE  Ledger!Record(S, Outcomes(tasks'), Tries(tasks'))
<1>1. TypeOK /\ JobMatchesTasks /\ TypeOK' /\ AllTasksInv' /\ JobMatchesTasks'
  BY DEF StoreInv, TablesFull, TablesInv
<1>2. \A t \in S : jobs[JobOf(t)].state \notin {"ABSENT", "CANCELLED"}
  BY <1>1, OpenTaskOpenJob DEF TERMINAL
<1>3. ASSUME NEW j \in Job, NEW t \in S, JobOf(t) = j
      PROVE  jobs'[j].state = Ledger!VerdictOn(j, Outcomes(tasks'), Tries(tasks'))
  <2>1. JobInv(jobs'[j], StatesOf(j, tasks'))
    BY <1>1, JobInvParts
  <2>2. jobs'[j].state \notin {"ABSENT", "CANCELLED"}
    BY <1>3
  <2>3. "CANCELLED" \notin StatesOf(j, tasks')
    BY <2>1, <2>2 DEF JobInv
  <2>4. tasks' \in [Task -> TaskRow] /\ \A s \in Task : TaskInv(tasks'[s], attempts'[s])
    BY <1>1 DEF TypeOK, AllTasksInv
  <2> QED BY <2>1, <2>2, <2>3, <2>4, VerdictAgrees DEF JobInv
<1> QED BY <1>2, <1>3 DEF Ledger!Record, Outcomes, Tries, JobOf, Task

-----------------------------------------------------------------------------
(* The steps *)

(* Recording with the ledger's own variables is recording in the tables.    *)
LEMMA LedgerVariables ==
  /\ \A t \in Task : /\ Outcomes(tasks)[t] = LedgerOutcome(tasks[t].state)
                     /\ Outcomes(tasks')[t] = LedgerOutcome(tasks'[t].state)
                     /\ Tries(tasks)[t] = tasks[t].attempt
                     /\ Tries(tasks')[t] = tasks'[t].attempt
  /\ Ledger!LedgerTask = Task
BY DEF Outcomes, Tries, Ledger!LedgerTask, Task

(* claim() is a try. *)
LEMMA ClaimTries ==
  ASSUME StoreInv, StoreInv', NEW w \in Worker, Claim(w),
         NEW t, t = wcall[w].task
  PROVE  t \in Task /\ Ledger!Try(t)
<1>1. TypeOK /\ CallsOK /\ AllTasksInv
  BY DEF StoreInv, TablesFull, TablesInv
<1>2. t \in Task /\ tasks[t].state \in {"PENDING", "RETRYING"} /\ tasks[t] \in TaskRow
  BY <1>1 DEF Claim, Claimable, CallsOK, TypeOK
<1>3. tasks[t].attempt < MaxAttempts /\ tasks[t].attempt \in Nat
  BY <1>1, <1>2, StoreAssumption DEF AllTasksInv, TaskInv, Budgeted, TaskRow
<1>4. PICK token : tasks' = [tasks EXCEPT ![t] = Claimed(tasks[t], token, wcall[w].now)]
  BY DEF Claim
<1>5. /\ tasks'[t].state = "RUNNING" /\ tasks'[t].attempt = tasks[t].attempt + 1
      /\ \A s \in Task : s # t => tasks'[s] = tasks[s]
  BY <1>1, <1>2, <1>4 DEF Claimed, TypeOK, TaskRow
<1>6. Outcomes(tasks') = [Outcomes(tasks) EXCEPT ![t] = "trying"]
  <2>1. LedgerOutcome(tasks'[t].state) = "trying"
    BY <1>5 DEF LedgerOutcome
  <2>2. \A s \in Task : s # t => LedgerOutcome(tasks'[s].state) = LedgerOutcome(tasks[s].state)
    BY <1>5
  <2> QED BY <1>2, <2>1, <2>2 DEF Outcomes
<1>7. Tries(tasks') = [Tries(tasks) EXCEPT ![t] = @ + 1]
  BY <1>2, <1>5 DEF Tries
<1>8. jobs'[JobOf(t)].state = "RUNNING" /\ \A j \in Job : j # JobOf(t) => jobs'[j] = jobs[j]
  BY <1>1, <1>2, TaskHasJob DEF Claim, TypeOK, JobRow
<1>9. Open(tasks[t])
  BY <1>2 DEF Open, TERMINAL
<1>10. Ledger!Record({t}, Outcomes(tasks'), Tries(tasks'))
  BY <1>2, <1>8, <1>9, RecordFits
<1>11. LedgerOutcome(tasks[t].state) = "waiting"
  BY <1>2 DEF LedgerOutcome
<1>12. Ledger!Record({t}, [Outcomes(tasks) EXCEPT ![t] = "trying"],
                        [Tries(tasks) EXCEPT ![t] = @ + 1])
  BY <1>6, <1>7, <1>10 DEF Ledger!Record
<1>13. Outcomes(tasks)[t] = "waiting" /\ Tries(tasks)[t] < MaxAttempts
  BY <1>2, <1>3, <1>11 DEF Outcomes, Tries
<1> QED BY <1>2, <1>12, <1>13 DEF Ledger!Try, Outcomes, Tries

(* _finish on running tasks records a success of one, or failures of many.  *)
LEMMA FinishRowsRecords ==
  ASSUME StoreInv, StoreInv', NEW S \in SUBSET {t \in Task : tasks[t].state = "RUNNING"},
         NEW now, NEW result, FinishRows(S, now, result)
  PROVE  /\ Ledger!Record(S, Outcomes(tasks'), Tries(tasks'))
         /\ Tries(tasks') = Tries(tasks)
         /\ \A t \in S : Outcomes(tasks)[t] = "trying"
         /\ Outcomes(tasks') =
              [t \in Task |-> IF t \notin S THEN Outcomes(tasks)[t]
                              ELSE IF result # 0 THEN "done"
                              ELSE IF Tries(tasks)[t] < MaxAttempts THEN "waiting"
                              ELSE "failed"]
<1>1. TypeOK /\ TypeOK' /\ AllTasksInv /\ JobMatchesTasks
  BY DEF StoreInv, TablesFull, TablesInv
<1>2. \A t \in S : Open(tasks[t])
  BY DEF Open, TERMINAL
<1>3. ASSUME NEW t \in S PROVE jobs'[JobOf(t)].state \notin {"ABSENT", "CANCELLED"}
  <2> DEFINE j == JobOf(t)
             state == RefreshedState({tasks'[s].state : s \in RowsOf(j, tasks')})
  <2>1. j \in Job /\ jobs[j].state # "CANCELLED" /\ jobs[j] \in JobRow
    BY <1>1, <1>2, TaskHasJob, OpenTaskOpenJob DEF TypeOK, TERMINAL
  <2>2. jobs'[j] = Refreshed(j, tasks', now)
    BY <2>1 DEF FinishRows
  <2>3. jobs'[j] = JudgedAs(jobs[j], state, now)
    BY <2>1, <2>2 DEF Refreshed
  <2>4. state \in {"COMPLETED", "FAILED", "PENDING", "RUNNING"}
    BY DEF RefreshedState
  <2> HIDE DEF state
  <2> QED BY <2>1, <2>3, <2>4 DEF JudgedAs, JobRow
<1>4. \A j \in Job : (\A t \in S : JobOf(t) # j) => jobs'[j] = jobs[j]
  BY DEF FinishRows
<1>5. ASSUME NEW t \in Task
      PROVE  /\ tasks'[t].attempt = tasks[t].attempt
             /\ t \notin S => tasks'[t] = tasks[t]
             /\ t \in S => tasks'[t].state =
                  IF result # 0 THEN "COMPLETED"
                  ELSE IF tasks[t].attempt >= MaxAttempts THEN "FAILED" ELSE "RETRYING"
  BY <1>1 DEF FinishRows, Settled, TypeOK, TaskRow
<1>6. \A t \in Task : tasks[t].attempt \in Nat
  BY <1>1 DEF TypeOK, TaskRow
<1>7. Tries(tasks') = Tries(tasks)
  BY <1>5 DEF Tries
<1>8. \A t \in S : Outcomes(tasks)[t] = "trying"
  BY DEF Outcomes, LedgerOutcome
<1>9. ASSUME NEW t \in Task
      PROVE  LedgerOutcome(tasks'[t].state) =
               IF t \notin S THEN Outcomes(tasks)[t]
               ELSE IF result # 0 THEN "done"
               ELSE IF Tries(tasks)[t] < MaxAttempts THEN "waiting"
               ELSE "failed"
  <2>1. CASE t \notin S
    BY <1>5, <2>1 DEF Outcomes
  <2>2. CASE t \in S /\ result # 0
    BY <1>5, <2>2 DEF LedgerOutcome
  <2>3. CASE t \in S /\ result = 0 /\ tasks[t].attempt >= MaxAttempts
    BY <1>5, <1>6, <2>3, StoreAssumption DEF LedgerOutcome, Tries
  <2>4. CASE t \in S /\ result = 0 /\ ~ (tasks[t].attempt >= MaxAttempts)
    BY <1>5, <1>6, <2>4, StoreAssumption DEF LedgerOutcome, Tries
  <2> QED BY <2>1, <2>2, <2>3, <2>4
<1>10. Ledger!Record(S, Outcomes(tasks'), Tries(tasks'))
  BY <1>2, <1>3, <1>4, RecordFits
<1> QED BY <1>7, <1>8, <1>9, <1>10 DEF Outcomes

(* finish() is a success or a failure of its task. *)
LEMMA FinishSettles ==
  ASSUME StoreInv, StoreInv', NEW w \in Worker,
         NEW result \in {0, wcall[w].attempt}, Finish(w, result),
         NEW t, t = wcall[w].task
  PROVE  t \in Task /\ (Ledger!Succeed(t) \/ Ledger!Fail({t}))
<1>1. TablesInv
  BY DEF StoreInv, TablesFull
<1>2. t \in Task /\ tasks[t].state = "RUNNING"
  BY <1>1, HolderIsLast DEF Finish
<1>3. FinishRows({t}, wcall[w].now, result)
  BY DEF Finish
<1>4. /\ Ledger!Record({t}, Outcomes(tasks'), Tries(tasks'))
      /\ Tries(tasks') = Tries(tasks)
      /\ Outcomes(tasks)[t] = "trying"
      /\ Outcomes(tasks') =
           [s \in Task |-> IF s \notin {t} THEN Outcomes(tasks)[s]
                           ELSE IF result # 0 THEN "done"
                           ELSE IF Tries(tasks)[s] < MaxAttempts THEN "waiting"
                           ELSE "failed"]
  BY <1>2, <1>3, FinishRowsRecords
<1>5. CASE result # 0
  <2>1. Outcomes(tasks') = [Outcomes(tasks) EXCEPT ![t] = "done"]
    BY <1>2, <1>4, <1>5 DEF Outcomes
  <2>2. Ledger!Record({t}, [Outcomes(tasks) EXCEPT ![t] = "done"], Tries(tasks))
    BY <1>4, <2>1 DEF Ledger!Record
  <2>3. Ledger!Succeed(t)
    BY <1>4, <2>2 DEF Ledger!Succeed, Outcomes, Tries
  <2> QED BY <1>2, <2>3
<1>6. CASE result = 0
  <2>1. Ledger!Record({t}, [s \in Task |-> IF s \notin {t} THEN Outcomes(tasks)[s]
                           ELSE IF Tries(tasks)[s] < MaxAttempts THEN "waiting"
                           ELSE "failed"], Tries(tasks))
    BY <1>4, <1>6 DEF Ledger!Record
  <2>2. Ledger!Fail({t})
    BY <1>4, <2>1 DEF Ledger!Fail, Ledger!LedgerTask, Task, Outcomes, Tries
  <2> QED BY <1>2, <2>2
<1> QED BY <1>5, <1>6

(* recover() is a failure of all expired tasks, or nothing. *)
LEMMA RecoverFails ==
  ASSUME StoreInv, StoreInv', Recover, NEW S, S = Expired(ccall.now)
  PROVE  \/ S \in SUBSET Task /\ Ledger!Fail(S)
         \/ UNCHANGED Ledger!ledger
<1>1. S \in SUBSET {t \in Task : tasks[t].state = "RUNNING"} /\ FinishRows(S, ccall.now, 0)
  BY DEF Recover, Expired
<1>2. /\ Ledger!Record(S, Outcomes(tasks'), Tries(tasks'))
      /\ Tries(tasks') = Tries(tasks)
      /\ \A t \in S : Outcomes(tasks)[t] = "trying"
      /\ Outcomes(tasks') =
           [t \in Task |-> IF t \notin S THEN Outcomes(tasks)[t]
                           ELSE IF Tries(tasks)[t] < MaxAttempts THEN "waiting"
                           ELSE "failed"]
  BY <1>1, FinishRowsRecords
<1>3. CASE S # {}
  <2>1. Ledger!Record(S, [t \in Task |-> IF t \notin S THEN Outcomes(tasks)[t]
                           ELSE IF Tries(tasks)[t] < MaxAttempts THEN "waiting"
                           ELSE "failed"], Tries(tasks))
    BY <1>2 DEF Ledger!Record
  <2>2. Ledger!Fail(S)
    BY <1>2, <1>3, <2>1 DEF Ledger!Fail, Ledger!LedgerTask, Task, Outcomes, Tries
  <2> QED BY <1>1, <2>2
<1>4. CASE S = {}
  <2>1. Outcomes(tasks') = Outcomes(tasks)
    BY <1>2, <1>4 DEF Outcomes
  <2>2. \A j \in Job : jobs'[j] = jobs[j]
    BY <1>1, <1>4 DEF FinishRows
  <2> QED BY <1>2, <2>1, <2>2 DEF Ledger!ledger, Outcomes, Tries
<1> QED BY <1>3, <1>4

(* Heartbeats and dispatches change nothing a client can tell. *)
LEMMA UnseenWrites ==
  ASSUME StoreInv, (\E w \in Worker : Heartbeat(w)) \/ DispatchDue
  PROVE  UNCHANGED Ledger!ledger
<1>1. TypeOK
  BY DEF StoreInv, TablesFull, TablesInv
<1>2. jobs' = jobs /\ \A t \in Task : /\ tasks'[t].state = tasks[t].state
                                     /\ tasks'[t].attempt = tasks[t].attempt
  <2>1. ASSUME NEW w \in Worker, Heartbeat(w)
        PROVE  jobs' = jobs /\ \A t \in Task : /\ tasks'[t].state = tasks[t].state
                                              /\ tasks'[t].attempt = tasks[t].attempt
    BY <1>1, <2>1 DEF Heartbeat, Renewed, TypeOK, TaskRow
  <2>2. CASE DispatchDue
    BY <1>1, <2>2 DEF DispatchDue, Dispatched, TypeOK, TaskRow
  <2> QED BY <2>1, <2>2
<1> QED BY <1>2 DEF Ledger!ledger

(* cancel() is a withdrawal. *)
LEMMA CancelWithdraws ==
  ASSUME StoreInv, NEW c \in Client, Cancel(c), NEW j, j = ucall[c].job
  PROVE  j \in Job /\ Ledger!Withdraw(j)
<1>1. TypeOK /\ CallsOK
  BY DEF StoreInv, TablesFull, TablesInv
<1>2. j \in Job /\ jobs[j].state \in {"PENDING", "RUNNING"} /\ jobs[j] \in JobRow
  BY <1>1 DEF Cancel, CallsOK, TypeOK, JobRow, JobState, TERMINAL
<1>3. Verdicts' = [Verdicts EXCEPT ![j] = "CANCELLED"]
  BY <1>1, <1>2 DEF Cancel, Verdicts, TypeOK, JudgedAs, JobRow
<1>4. ASSUME NEW t \in Task
      PROVE  /\ tasks'[t].attempt = tasks[t].attempt
             /\ LedgerOutcome(tasks'[t].state) =
                  IF JobOf(t) = j /\ LedgerOutcome(tasks[t].state) \in {"waiting", "trying"}
                  THEN "cancelled" ELSE LedgerOutcome(tasks[t].state)
  <2>1. tasks[t].state \in TaskState \cup {"ABSENT"} /\ tasks[t] \in TaskRow
    BY <1>1 DEF TypeOK, TaskRow
  <2>2. Open(tasks[t]) <=> LedgerOutcome(tasks[t].state) \in {"waiting", "trying"}
    BY <2>1, OutcomeOf DEF Open, TaskState, JobState, TERMINAL
  <2>3. tasks'[t] = IF JobOf(t) = j /\ Open(tasks[t]) THEN Withdrawn(tasks[t]) ELSE tasks[t]
    BY DEF Cancel
  <2>4. Withdrawn(tasks[t]).state = "CANCELLED" /\ Withdrawn(tasks[t]).attempt = tasks[t].attempt
    BY <2>1 DEF Withdrawn, TaskRow
  <2>5. LedgerOutcome("CANCELLED") = "cancelled"
    BY DEF LedgerOutcome
  <2> QED BY <2>2, <2>3, <2>4, <2>5
<1>5. Tries(tasks') = Tries(tasks)
  BY <1>4 DEF Tries
<1>6. Outcomes(tasks') =
        [t \in Task |-> IF t[1] = j /\ Outcomes(tasks)[t] \in {"waiting", "trying"}
                        THEN "cancelled" ELSE Outcomes(tasks)[t]]
  BY <1>4 DEF Outcomes, JobOf
<1> QED BY <1>2, <1>3, <1>5, <1>6
        DEF Ledger!Withdraw, Ledger!LedgerTask, Task, Outcomes, Tries, Verdicts

(* submit() that inserts is an admission. *)
LEMMA InsertAdmits ==
  ASSUME StoreInv, NEW c \in Client, NEW j \in Job, SubmitInsert(c, j),
         NEW configs, configs = ucall[c].request.configs
  PROVE  configs \in SUBSET Config /\ Ledger!Admit(j, configs)
<1>1. TypeOK /\ CallsOK /\ AllTasksInv /\ JobsKnown
  BY DEF StoreInv, TablesFull, TablesInv
<1>2. configs \in SUBSET Config /\ configs # {}
  BY <1>1 DEF SubmitInsert, CallsOK, Request
<1>3. jobs[j].state = "ABSENT" /\ Verdicts' = [Verdicts EXCEPT ![j] = "PENDING"]
  BY <1>1 DEF SubmitInsert, Verdicts, TypeOK
<1>4. ASSUME NEW t \in Task
      PROVE  /\ tasks'[t].attempt = tasks[t].attempt
             /\ LedgerOutcome(tasks'[t].state) =
                  IF t[1] = j /\ t[2] \in configs
                  THEN "waiting" ELSE LedgerOutcome(tasks[t].state)
  <2>1. tasks'[t] = IF JobOf(t) = j /\ t[2] \in configs THEN NewTask(ucall[c].now) ELSE tasks[t]
    BY DEF SubmitInsert
  <2>2. NewTask(ucall[c].now).state = "PENDING" /\ NewTask(ucall[c].now).attempt = 0
    BY DEF NewTask, AbsentTask
  <2>3. JobOf(t) = j => tasks[t].attempt = 0
    BY <1>1, <1>3 DEF JobsKnown, AllTasksInv, TaskInv, Budgeted
  <2>4. LedgerOutcome("PENDING") = "waiting"
    BY DEF LedgerOutcome
  <2> QED BY <2>1, <2>2, <2>3, <2>4 DEF JobOf
<1>5. Tries(tasks') = Tries(tasks)
  BY <1>4 DEF Tries
<1>6. Outcomes(tasks') = [t \in Task |-> IF t[1] = j /\ t[2] \in configs
                                         THEN "waiting" ELSE Outcomes(tasks)[t]]
  BY <1>4 DEF Outcomes
<1> QED BY <1>2, <1>3, <1>5, <1>6
        DEF Ledger!Admit, Ledger!LedgerTask, Task, Outcomes, Tries, Verdicts

-----------------------------------------------------------------------------
(* The refinement *)

(* The empty database is the empty ledger. *)
LEMMA InitRefines == Init => Ledger!LedgerInit
BY DEF Init, Ledger!LedgerInit, Ledger!LedgerTask, Task, AbsentTask, AbsentJob, LedgerOutcome

(* Every step of the store is a step of the ledger or changes nothing in it. *)
LEMMA StepRefines ==
  ASSUME StoreInv, StoreInv', [Next]_vars
  PROVE  [Ledger!LedgerNext]_(Ledger!ledger)
<1>1. CASE UNCHANGED db
  BY <1>1 DEF db, Ledger!ledger
<1>2. ASSUME NEW w \in Worker, Claim(w) PROVE Ledger!LedgerNext
  <2>1. PICK t : t = wcall[w].task
    OBVIOUS
  <2>2. t \in Task /\ Ledger!Try(t)
    BY <1>2, <2>1, ClaimTries
  <2> QED BY <2>2, LedgerVariables DEF Ledger!LedgerNext
<1>3. ASSUME NEW w \in Worker, NEW result \in {0, wcall[w].attempt}, Finish(w, result)
      PROVE  Ledger!LedgerNext
  <2>1. PICK t : t = wcall[w].task
    OBVIOUS
  <2>2. t \in Task /\ (Ledger!Succeed(t) \/ Ledger!Fail({t}))
    BY <1>3, <2>1, FinishSettles
  <2>3. CASE Ledger!Succeed(t)
    BY <2>2, <2>3, LedgerVariables DEF Ledger!LedgerNext
  <2>4. CASE Ledger!Fail({t})
    <3>1. {t} \in SUBSET Ledger!LedgerTask
      BY <2>2, LedgerVariables
    <3> QED BY <2>4, <3>1 DEF Ledger!LedgerNext
  <2> QED BY <2>2, <2>3, <2>4
<1>4. CASE Recover
  <2>1. PICK S : S = Expired(ccall.now)
    OBVIOUS
  <2>2. (S \in SUBSET Task /\ Ledger!Fail(S)) \/ UNCHANGED Ledger!ledger
    BY <1>4, <2>1, RecoverFails
  <2> QED BY <2>2, LedgerVariables DEF Ledger!LedgerNext
<1>5. ASSUME NEW c \in Client, Cancel(c) PROVE Ledger!LedgerNext
  <2>1. PICK j : j = ucall[c].job
    OBVIOUS
  <2>2. j \in Job /\ Ledger!Withdraw(j)
    BY <1>5, <2>1, CancelWithdraws
  <2> QED BY <2>2 DEF Ledger!LedgerNext
<1>6. ASSUME NEW c \in Client, NEW j \in Job, SubmitInsert(c, j) PROVE Ledger!LedgerNext
  <2>1. PICK configs : configs = ucall[c].request.configs
    OBVIOUS
  <2>2. configs \in SUBSET Config /\ Ledger!Admit(j, configs)
    BY <1>6, <2>1, InsertAdmits
  <2> QED BY <2>2 DEF Ledger!LedgerNext
<1>7. CASE (\E w \in Worker : Heartbeat(w)) \/ DispatchDue
  BY <1>7, UnseenWrites
<1> QED BY <1>1, <1>2, <1>3, <1>4, <1>5, <1>6, <1>7, TablesStep DEF Writes

(* The store keeps the promise of the ledger, in every instance: whatever   *)
(* the old clocks and the order of the calls in db.py, its transactions     *)
(* are admissions, tries, successes, failures and withdrawals.              *)
THEOREM StoreImplementsLedger == Spec => ImplementsLedger
<1>1. Init => Ledger!LedgerInit
  BY InitRefines
<1>2. StoreInv /\ StoreInv' /\ [Next]_vars => [Ledger!LedgerNext]_(Ledger!ledger)
  BY StepRefines
<1> QED BY <1>1, <1>2, StoreInvHolds, PTL DEF Spec, ImplementsLedger, Ledger!LedgerSpec
=============================================================================
