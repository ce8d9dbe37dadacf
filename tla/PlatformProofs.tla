--------------------------- MODULE PlatformProofs ---------------------------
(* The platform keeps the promise of the ledger and the bound of its queue, *)
(* for any jobs, workers, attempts and faults.                              *)
EXTENDS PlatformLedger, FiniteSetTheorems, TLAPS

(* What a row of tasks always satisfies: its attempts follow its state. *)
RowInv(row) ==
  /\ row \in TaskRow
  /\ row.state \in {"ABSENT", "PENDING"} => row.attempt = 0
  /\ row.state \in {"RUNNING", "RETRYING", "COMPLETED", "FAILED"} => row.attempt > 0
  /\ row.state = "RETRYING" => row.attempt < MaxAttempts

(* A job's rows are inserted together and cancelled together. *)
JobInv(rows, j) ==
  LET mine == {t \in Task : JobOf(t) = j}
  IN /\ \A t, u \in mine : rows[t].state = "ABSENT" => rows[u].state = "ABSENT"
     /\ (\E t \in mine : rows[t].state = "CANCELLED") => \A t \in mine : rows[t].state \in TERMINAL

RowsInv(rows) ==
  /\ rows \in [Task -> TaskRow]
  /\ \A t \in Task : RowInv(rows[t])
  /\ \A j \in Job : JobInv(rows, j)

(* A worker that is not idle works on a task. *)
Working ==
  /\ worker \in [Worker -> WorkerState]
  /\ \A w \in Worker : worker[w].at # "idle" => worker[w].task \in Task

PlatformInv == RowsInv(tasks) /\ Working

Outcomes(rows) == [t \in Task |-> PlatformOutcome(rows[t].state)]
Tries(rows) == [t \in Task |-> rows[t].attempt]
States(rows, j) == {rows[t].state : t \in {u \in Task : JobOf(u) = j}}
Verdict(states) ==
  IF "ABSENT" \in states THEN "ABSENT"
  ELSE IF "CANCELLED" \in states THEN "CANCELLED"
  ELSE IF states \subseteq {"COMPLETED"} THEN "COMPLETED"
  ELSE IF states \subseteq TERMINAL THEN "FAILED"
  ELSE IF states = {"PENDING"} THEN "PENDING" ELSE "RUNNING"

TaskStates == {"ABSENT", "PENDING", "RUNNING", "RETRYING", "COMPLETED", "FAILED", "CANCELLED"}

LEMMA StateOf == TaskStates = {"ABSENT", "PENDING", "RUNNING", "RETRYING"} \cup TERMINAL
BY DEF TaskStates, TERMINAL

LEMMA TaskOf == ASSUME NEW t \in Task PROVE JobOf(t) \in Job /\ t[1] = JobOf(t)
BY DEF Task, JobOf

(* Every job has tasks. *)
LEMMA JobHasTasks == ASSUME NEW j \in Job PROVE \E t \in Task : JobOf(t) = j
<1>1. PICK c \in Config : TRUE
  BY PlatformAssumption
<1>2. <<j, c>> \in Task /\ JobOf(<<j, c>>) = j
  BY DEF Task, JobOf
<1> QED BY <1>2

LEMMA OutcomeOf ==
  ASSUME NEW s \in TaskStates
  PROVE  /\ (PlatformOutcome(s) = "none") <=> (s = "ABSENT")
         /\ (PlatformOutcome(s) = "waiting") <=> (s \in {"PENDING", "RETRYING"})
         /\ (PlatformOutcome(s) = "trying") <=> (s = "RUNNING")
         /\ (PlatformOutcome(s) = "done") <=> (s = "COMPLETED")
         /\ (PlatformOutcome(s) = "failed") <=> (s = "FAILED")
         /\ (PlatformOutcome(s) = "cancelled") <=> (s = "CANCELLED")
<1>1. CASE s = "ABSENT"
  BY <1>1 DEF PlatformOutcome
<1>2. CASE s = "PENDING"
  BY <1>2 DEF PlatformOutcome
<1>3. CASE s = "RETRYING"
  BY <1>3 DEF PlatformOutcome
<1>4. CASE s = "RUNNING"
  BY <1>4 DEF PlatformOutcome
<1>5. CASE s = "COMPLETED"
  BY <1>5 DEF PlatformOutcome
<1>6. CASE s = "FAILED"
  BY <1>6 DEF PlatformOutcome
<1>7. CASE s = "CANCELLED"
  BY <1>7 DEF PlatformOutcome
<1> QED BY <1>1, <1>2, <1>3, <1>4, <1>5, <1>6, <1>7 DEF TaskStates

LEMMA RowState == ASSUME NEW row, RowInv(row) PROVE row.state \in TaskStates /\ row.attempt \in 0..MaxAttempts
BY StateOf DEF RowInv, TaskRow

LEMMA StatesMembers ==
  ASSUME NEW rows, NEW j
  PROVE  \A s : s \in States(rows, j) <=> \E t \in Task : JobOf(t) = j /\ rows[t].state = s
BY DEF States

(* The verdict of the ledger on a job that exists and was not cancelled is  *)
(* the one read off the states of its rows.                                 *)
LEMMA VerdictAgrees ==
  ASSUME NEW rows, RowsInv(rows), NEW j \in Job,
         "ABSENT" \notin States(rows, j), "CANCELLED" \notin States(rows, j)
  PROVE  Ledger!VerdictOn(j, Outcomes(rows), Tries(rows)) = Verdict(States(rows, j))
<1> DEFINE states == States(rows, j)
           mine == {t \in Task : JobOf(t) = j}
<1>1. \A t \in Task : rows[t].state \in TaskStates /\ rows[t].attempt \in 0..MaxAttempts
  BY RowState DEF RowsInv
<1>2. \A s : s \in states <=> \E t \in mine : rows[t].state = s
  BY StatesMembers
<1>3. \A t \in mine : t \in Task /\ rows[t].state \in TaskStates \ {"ABSENT", "CANCELLED"}
  BY <1>1, <1>2
<1>4. Ledger!Members(j, Outcomes(rows)) = mine
  BY <1>1, <1>3, OutcomeOf, TaskOf DEF Ledger!Members, Ledger!LedgerTask, Outcomes, Task
<1>5. \A t \in mine : (rows[t].state # "PENDING") <=> (rows[t].attempt > 0)
  BY <1>1, <1>3 DEF RowsInv, RowInv, TaskStates
<1>6. (\A t \in mine : Outcomes(rows)[t] = "done") <=> states \subseteq {"COMPLETED"}
  BY <1>1, <1>2, OutcomeOf DEF Outcomes
<1>7. (\A t \in mine : Outcomes(rows)[t] \in {"done", "failed", "cancelled"})
        <=> states \subseteq TERMINAL
  BY <1>1, <1>2, OutcomeOf DEF Outcomes, TERMINAL
<1>8. (\E t \in mine : Tries(rows)[t] > 0) <=> ~ (states \subseteq {"PENDING"})
  BY <1>2, <1>5 DEF Tries
<1>9. states # {}
  BY <1>2, JobHasTasks
<1> HIDE DEF states, mine
<1> QED BY <1>4, <1>6, <1>7, <1>8, <1>9 DEF Ledger!VerdictOn, Ledger!Decided, Verdict, states

LEMMA VerdictIs ==
  ASSUME NEW j
  PROVE  JobVerdict(j) = Verdict(States(tasks, j)) /\ JobVerdict(j)' = Verdict(States(tasks', j))
BY DEF JobVerdict, Verdict, States

-----------------------------------------------------------------------------
(* The kinds of writes *)

(* Nothing a client sees: states and attempts stay. *)
SameOutcomes(rows) == \A t \in Task : /\ rows[t].state = tasks[t].state
                                      /\ rows[t].attempt = tasks[t].attempt

LEMMA UnseenKeeps ==
  ASSUME RowsInv(tasks), tasks' \in [Task -> TaskRow], SameOutcomes(tasks')
  PROVE  RowsInv(tasks') /\ UNCHANGED Ledger!ledger
<1>1. \A t \in Task : RowInv(tasks'[t])
  BY DEF RowsInv, RowInv, SameOutcomes
<1>2. \A j \in Job : JobInv(tasks', j)
  BY DEF RowsInv, JobInv, SameOutcomes
<1>3. \A j \in Job : States(tasks', j) = States(tasks, j)
  BY DEF States, SameOutcomes
<1>4. \A j \in Job : JobVerdict(j)' = JobVerdict(j)
  BY <1>3, VerdictIs
<1>5. UNCHANGED Ledger!ledger
  <2>1. Outcomes(tasks') = Outcomes(tasks) /\ Tries(tasks') = Tries(tasks)
    BY DEF Outcomes, Tries, SameOutcomes
  <2> QED BY <1>4, <2>1 DEF Ledger!ledger, Outcomes, Tries
<1> QED BY <1>1, <1>2, <1>5 DEF RowsInv

(* The open tasks of S go on or are decided, but not withdrawn. *)
Moved(S) ==
  /\ tasks' \in [Task -> TaskRow]
  /\ \A t \in S : /\ Open(tasks[t]) /\ RowInv(tasks'[t])
                  /\ tasks'[t].state \notin {"ABSENT", "CANCELLED"}
  /\ \A t \in Task \ S : tasks'[t] = tasks[t]

LEMMA MovedKeeps ==
  ASSUME RowsInv(tasks), NEW S \in SUBSET Task, Moved(S)
  PROVE  RowsInv(tasks') /\ Ledger!Record(S, Outcomes(tasks'), Tries(tasks'))
<1>1. \A t \in Task : RowInv(tasks'[t])
  BY DEF RowsInv, Moved
<1>2. ASSUME NEW j \in Job PROVE JobInv(tasks', j)
  <2>1. CASE \A t \in S : JobOf(t) # j
    BY <2>1 DEF RowsInv, JobInv, Moved
  <2>2. CASE \E t \in S : JobOf(t) = j
    <3>1. \A t \in Task : JobOf(t) = j => tasks[t].state \notin {"ABSENT", "CANCELLED"}
      BY <2>2 DEF RowsInv, JobInv, Moved, Open
    <3>2. \A t \in Task : JobOf(t) = j => tasks'[t].state \notin {"ABSENT", "CANCELLED"}
      BY <3>1 DEF Moved
    <3> QED BY <3>2 DEF JobInv
  <2> QED BY <2>1, <2>2
<1>3. RowsInv(tasks')
  BY <1>1, <1>2 DEF RowsInv, Moved
<1>4. ASSUME NEW j \in Job
      PROVE  JobVerdict(j)' = IF (\E t \in S : t[1] = j) /\ JobVerdict(j) # "CANCELLED"
                              THEN Ledger!VerdictOn(j, Outcomes(tasks'), Tries(tasks'))
                              ELSE JobVerdict(j)
  <2>1. CASE \A t \in S : JobOf(t) # j
    <3>1. \A s : s \in States(tasks', j) <=> s \in States(tasks, j)
      BY <2>1, StatesMembers DEF Moved
    <3>2. States(tasks', j) = States(tasks, j)
      BY <3>1
    <3> QED BY <2>1, <3>2, VerdictIs, TaskOf
  <2>2. CASE \E t \in S : JobOf(t) = j
    <3>1. \A t \in Task : JobOf(t) = j => tasks[t].state \notin {"ABSENT", "CANCELLED"}
      BY <2>2 DEF RowsInv, JobInv, Moved, Open
    <3>2. \A t \in Task : JobOf(t) = j => tasks'[t].state \notin {"ABSENT", "CANCELLED"}
      BY <3>1 DEF Moved
    <3>3. {"ABSENT", "CANCELLED"} \cap States(tasks, j) = {}
      BY <3>1, StatesMembers
    <3>4. {"ABSENT", "CANCELLED"} \cap States(tasks', j) = {}
      BY <3>2, StatesMembers
    <3>5. JobVerdict(j) # "CANCELLED"
      BY <3>3, VerdictIs DEF Verdict
    <3>6. JobVerdict(j)' = Ledger!VerdictOn(j, Outcomes(tasks'), Tries(tasks'))
      BY <1>3, <3>4, VerdictIs, VerdictAgrees
    <3>7. \E t \in S : t[1] = j
      BY <2>2, TaskOf
    <3> QED BY <3>5, <3>6, <3>7
  <2> QED BY <2>1, <2>2
<1>5. Ledger!Record(S, Outcomes(tasks'), Tries(tasks'))
  BY <1>4 DEF Ledger!Record, Outcomes, Tries
<1> QED BY <1>3, <1>5

(* A worker goes on with the task it has, gets one, or becomes idle. *)
LEMMA WorkerMoves ==
  ASSUME Working, NEW w \in Worker, NEW row,
         worker' = [worker EXCEPT ![w] = row], row \in WorkerState,
         row.at # "idle" => row.task \in Task
  PROVE  Working'
BY DEF Working

(* A claim is a try. *)
LEMMA ClaimTries ==
  ASSUME PlatformInv, NEW w \in Worker, Claim(w), NEW t, t = worker[w].task
  PROVE  PlatformInv' /\ t \in Task /\ Ledger!Try(t)
<1>1. /\ t \in Task /\ Claimable(tasks[t]) /\ RowInv(tasks[t]) /\ tasks[t] \in TaskRow
      /\ tasks \in [Task -> TaskRow] /\ RowsInv(tasks)
  BY DEF Claim, PlatformInv, Working, RowsInv
<1>2. /\ tasks' = [tasks EXCEPT ![t].state = "RUNNING", ![t].attempt = @ + 1,
                               ![t].leased = TRUE]
      /\ worker' = [worker EXCEPT ![w].at = "prepare", ![w].attempt = tasks[t].attempt + 1]
  BY DEF Claim
<1>3. tasks[t].attempt \in 0..MaxAttempts /\ tasks[t].attempt < MaxAttempts
  <2>1. tasks[t].attempt \in 0..MaxAttempts
    BY <1>1 DEF TaskRow
  <2> QED BY <1>1, <2>1, PlatformAssumption DEF RowInv, Claimable
<1>4. tasks[t].attempt + 1 \in 1..MaxAttempts
  BY <1>3, PlatformAssumption
<1>5. /\ tasks' \in [Task -> TaskRow]
      /\ tasks'[t].state = "RUNNING" /\ tasks'[t].attempt = tasks[t].attempt + 1
      /\ \A u \in Task \ {t} : tasks'[u] = tasks[u]
  BY <1>1, <1>2, <1>4 DEF TaskRow
<1>6. Moved({t})
  <2>1. Open(tasks[t])
    BY <1>1 DEF Claimable, Open, TERMINAL
  <2>2. RowInv(tasks'[t])
    BY <1>1, <1>4, <1>5 DEF RowInv
  <2> QED BY <1>5, <2>1, <2>2 DEF Moved
<1>7. RowsInv(tasks') /\ Ledger!Record({t}, Outcomes(tasks'), Tries(tasks'))
  BY <1>1, <1>6, MovedKeeps
<1>8. Working'
  <2>1. tasks[t].attempt + 1 \in 0..MaxAttempts
    BY <1>4
  <2> DEFINE row == [worker[w] EXCEPT !.at = "prepare", !.attempt = tasks[t].attempt + 1]
  <2>2. worker[w] \in WorkerState
    BY DEF PlatformInv, Working
  <2>3. row \in WorkerState /\ row.task = worker[w].task
    BY <2>1, <2>2 DEF WorkerState
  <2>4. worker' = [worker EXCEPT ![w] = row]
    BY <1>2
  <2> HIDE DEF row
  <2> QED BY <1>1, <2>3, <2>4, WorkerMoves DEF PlatformInv
<1>9. Ledger!Record({t}, [Outcomes(tasks) EXCEPT ![t] = "trying"], [Tries(tasks) EXCEPT ![t] = @ + 1])
  <2>1. Outcomes(tasks') = [Outcomes(tasks) EXCEPT ![t] = "trying"]
    <3>1. PlatformOutcome(tasks'[t].state) = "trying"
      BY <1>5, OutcomeOf DEF TaskStates
    <3> QED BY <1>1, <1>5, <3>1 DEF Outcomes
  <2>2. Tries(tasks') = [Tries(tasks) EXCEPT ![t] = @ + 1]
    BY <1>1, <1>5 DEF Tries
  <2> QED BY <1>7, <2>1, <2>2 DEF Ledger!Record
<1>10. Outcomes(tasks)[t] = "waiting" /\ Tries(tasks)[t] < MaxAttempts
  BY <1>1, <1>3, OutcomeOf, RowState DEF Outcomes, Tries, Claimable
<1> QED BY <1>1, <1>7, <1>8, <1>9, <1>10 DEF Ledger!Try, Outcomes, Tries, PlatformInv

(* Attempts that fail, one in finish or many in recovery. *)
LEMMA FailuresFit ==
  ASSUME RowsInv(tasks), NEW S \in SUBSET Task, S # {},
         \A t \in S : tasks[t].state = "RUNNING",
         tasks' = [t \in Task |-> IF t \in S THEN Settled(tasks[t], FALSE) ELSE tasks[t]]
  PROVE  RowsInv(tasks') /\ Ledger!Fail(S)
<1> DEFINE o == [t \in Task |-> IF t \notin S THEN Outcomes(tasks)[t]
                                ELSE IF Tries(tasks)[t] < MaxAttempts THEN "waiting"
                                ELSE "failed"]
<1>1. ASSUME NEW t \in S
      PROVE  /\ RowInv(tasks[t]) /\ tasks[t] \in TaskRow /\ tasks[t].attempt \in 1..MaxAttempts
             /\ tasks'[t] = Settled(tasks[t], FALSE)
  <2>1. RowInv(tasks[t]) /\ tasks[t] \in TaskRow /\ tasks[t].attempt \in 0..MaxAttempts
    BY DEF RowsInv, TaskRow
  <2>2. tasks[t].attempt > 0 /\ t \in Task
    BY <2>1 DEF RowInv
  <2>3. tasks[t].attempt \in 1..MaxAttempts
    BY <2>1, <2>2, PlatformAssumption
  <2>4. tasks'[t] = Settled(tasks[t], FALSE)
    BY <2>2
  <2> QED BY <2>1, <2>3, <2>4
<1>2. ASSUME NEW t \in S
      PROVE  /\ Settled(tasks[t], FALSE) \in TaskRow
             /\ Settled(tasks[t], FALSE).attempt = tasks[t].attempt
             /\ Settled(tasks[t], FALSE).state =
                  IF tasks[t].attempt < MaxAttempts THEN "RETRYING" ELSE "FAILED"
  <2>1. tasks[t] \in TaskRow /\ tasks[t].attempt \in 1..MaxAttempts
    BY <1>1, <1>2
  <2>2. (tasks[t].attempt >= MaxAttempts) <=> ~ (tasks[t].attempt < MaxAttempts)
    BY <2>1, PlatformAssumption
  <2> QED BY <2>1, <2>2 DEF Settled, TaskRow, TERMINAL
<1>3. Moved(S)
  <2>1. tasks' \in [Task -> TaskRow]
    BY <1>2 DEF RowsInv
  <2>2. ASSUME NEW t \in S PROVE Open(tasks[t]) /\ RowInv(tasks'[t])
                                 /\ tasks'[t].state \notin {"ABSENT", "CANCELLED"}
    BY <1>1, <1>2, <2>2 DEF RowInv, Open, TERMINAL
  <2>3. \A t \in Task \ S : tasks'[t] = tasks[t]
    OBVIOUS
  <2> QED BY <2>1, <2>2, <2>3 DEF Moved
<1>4. RowsInv(tasks') /\ Ledger!Record(S, Outcomes(tasks'), Tries(tasks'))
  BY <1>3, MovedKeeps
<1>5. Tries(tasks') = Tries(tasks)
  BY <1>1, <1>2 DEF Tries
<1>6. Outcomes(tasks') = o
  <2>1. ASSUME NEW t \in S
        PROVE  PlatformOutcome(tasks'[t].state) =
                 IF tasks[t].attempt < MaxAttempts THEN "waiting" ELSE "failed"
    <3>1. tasks'[t].state = IF tasks[t].attempt < MaxAttempts THEN "RETRYING" ELSE "FAILED"
      BY <1>1, <1>2
    <3>2. PlatformOutcome("RETRYING") = "waiting" /\ PlatformOutcome("FAILED") = "failed"
      BY OutcomeOf DEF TaskStates
    <3> QED BY <3>1, <3>2
  <2>2. \A t \in Task \ S : tasks'[t] = tasks[t]
    OBVIOUS
  <2> QED BY <2>1, <2>2 DEF Outcomes, Tries
<1>7. \A t \in S : Outcomes(tasks)[t] = "trying"
  <2>1. PlatformOutcome("RUNNING") = "trying"
    BY OutcomeOf DEF TaskStates
  <2> QED BY <2>1 DEF Outcomes
<1> HIDE DEF o
<1>8. Ledger!Record(S, o, Tries(tasks))
  BY <1>4, <1>5, <1>6 DEF Ledger!Record
<1>9. Ledger!Fail(S)
  BY <1>7, <1>8 DEF Ledger!Fail, Ledger!LedgerTask, Task, Outcomes, Tries, o
<1> QED BY <1>4, <1>9

(* A result that is accepted. *)
LEMMA SuccessFits ==
  ASSUME RowsInv(tasks), NEW t \in Task, tasks[t].state = "RUNNING",
         tasks' = [tasks EXCEPT ![t] = Settled(@, TRUE)]
  PROVE  RowsInv(tasks') /\ Ledger!Succeed(t)
<1>1. RowInv(tasks[t]) /\ tasks[t] \in TaskRow
  BY DEF RowsInv
<1>2. /\ Settled(tasks[t], TRUE) \in TaskRow
      /\ Settled(tasks[t], TRUE).attempt = tasks[t].attempt
      /\ Settled(tasks[t], TRUE).state = "COMPLETED"
  BY <1>1 DEF Settled, TaskRow, TERMINAL
<1>3. /\ tasks' \in [Task -> TaskRow] /\ tasks'[t] = Settled(tasks[t], TRUE)
      /\ \A u \in Task \ {t} : tasks'[u] = tasks[u]
  BY <1>2 DEF RowsInv
<1>4. Moved({t})
  BY <1>1, <1>2, <1>3 DEF Moved, Open, TERMINAL, RowInv
<1>5. RowsInv(tasks') /\ Ledger!Record({t}, Outcomes(tasks'), Tries(tasks'))
  BY <1>4, MovedKeeps
<1>6. PlatformOutcome("COMPLETED") = "done" /\ PlatformOutcome("RUNNING") = "trying"
  BY OutcomeOf DEF TaskStates
<1>7. Outcomes(tasks') = [Outcomes(tasks) EXCEPT ![t] = "done"]
  BY <1>2, <1>3, <1>6 DEF Outcomes
<1>8. Tries(tasks') = Tries(tasks)
  BY <1>2, <1>3 DEF Tries
<1>9. Ledger!Record({t}, [Outcomes(tasks) EXCEPT ![t] = "done"], Tries(tasks))
  BY <1>5, <1>7, <1>8 DEF Ledger!Record
<1>10. Outcomes(tasks)[t] = "trying"
  BY <1>6 DEF Outcomes
<1> QED BY <1>5, <1>9, <1>10 DEF Ledger!Succeed, Outcomes, Tries

-----------------------------------------------------------------------------
(* The requests of clients *)

LEMMA SubmitAdmits ==
  ASSUME RowsInv(tasks), NEW j \in Job, Submit(j)
  PROVE  RowsInv(tasks') /\ Ledger!Admit(j, Config)
<1> DEFINE row == [AbsentTask EXCEPT !.state = "PENDING", !.due = TRUE]
<1>1. /\ \A t \in Task : JobOf(t) = j => tasks[t].state = "ABSENT"
      /\ tasks' = [t \in Task |-> IF JobOf(t) # j THEN tasks[t] ELSE row]
  BY DEF Submit
<1>2. row \in TaskRow /\ row.state = "PENDING" /\ row.attempt = 0
  <2>1. AbsentTask \in TaskRow /\ AbsentTask.attempt = 0
    <3>1. 0 \in 0..MaxAttempts
      BY PlatformAssumption
    <3> QED BY <3>1 DEF TaskRow, AbsentTask
  <2> QED BY <2>1 DEF TaskRow
<1>3. RowInv(row)
  BY <1>2 DEF RowInv
<1>4. tasks \in [Task -> TaskRow] /\ \A t \in Task : RowInv(tasks[t])
  BY DEF RowsInv
<1> HIDE DEF row
<1>5. ASSUME NEW i \in Job PROVE JobInv(tasks', i)
  <2>1. CASE i = j
    BY <1>1, <1>2, <2>1 DEF JobInv
  <2>2. CASE i # j
    BY <1>1, <2>2 DEF JobInv, RowsInv
  <2> QED BY <2>1, <2>2
<1>6. RowsInv(tasks')
  BY <1>1, <1>2, <1>3, <1>4, <1>5 DEF RowsInv
<1>7. States(tasks, j) = {"ABSENT"} /\ States(tasks', j) = {"PENDING"}
  BY <1>1, <1>2, JobHasTasks DEF States
<1>8. \A i \in Job : i # j => States(tasks', i) = States(tasks, i)
  BY <1>1 DEF States
<1>9. JobVerdict(j) = "ABSENT" /\ JobVerdict(j)' = "PENDING"
  BY <1>7, VerdictIs DEF Verdict, TERMINAL
<1>10. \A i \in Job : i # j => JobVerdict(i)' = JobVerdict(i)
  BY <1>8, VerdictIs
<1>11. Tries(tasks') = Tries(tasks)
  BY <1>1, <1>2, <1>4 DEF Tries, RowInv
<1>12. \A t \in Task : Outcomes(tasks')[t] = IF t[1] = j /\ t[2] \in Config THEN "waiting"
                                             ELSE Outcomes(tasks)[t]
  <2>1. PlatformOutcome("PENDING") = "waiting"
    BY OutcomeOf DEF TaskStates
  <2>2. \A t \in Task : t[1] = JobOf(t) /\ t[2] \in Config
    BY DEF Task, JobOf
  <2> QED BY <1>1, <1>2, <2>1, <2>2 DEF Outcomes
<1>13. Outcomes(tasks') = [t \in Task |-> IF t[1] = j /\ t[2] \in Config THEN "waiting"
                                          ELSE Outcomes(tasks)[t]]
  BY <1>12 DEF Outcomes
<1>14. [i \in Job |-> JobVerdict(i)'] = [[i \in Job |-> JobVerdict(i)] EXCEPT ![j] = "PENDING"]
  BY <1>9, <1>10
<1>15. Ledger!Admit(j, Config)
  BY <1>9, <1>11, <1>13, <1>14, PlatformAssumption
     DEF Ledger!Admit, Ledger!LedgerTask, Task, Outcomes, Tries
<1> QED BY <1>6, <1>15

LEMMA CancelWithdraws ==
  ASSUME RowsInv(tasks), NEW j \in Job, Cancel(j)
  PROVE  RowsInv(tasks') /\ Ledger!Withdraw(j)
<1> DEFINE Row(row) == [row EXCEPT !.state = "CANCELLED", !.leased = FALSE]
<1>1. /\ \E t \in Task : JobOf(t) = j /\ Open(tasks[t])
      /\ tasks' = [t \in Task |-> IF JobOf(t) = j /\ Open(tasks[t]) THEN Row(tasks[t])
                                  ELSE tasks[t]]
  BY DEF Cancel
<1>2. tasks \in [Task -> TaskRow] /\ \A t \in Task : RowInv(tasks[t])
  BY DEF RowsInv
<1>3. \A row \in TaskRow : /\ Row(row) \in TaskRow /\ Row(row).state = "CANCELLED"
                           /\ Row(row).attempt = row.attempt
  BY DEF TaskRow, TERMINAL
<1> HIDE DEF Row
<1>4. \A t \in Task : JobOf(t) = j => tasks[t].state \notin {"ABSENT", "CANCELLED"}
  BY <1>1 DEF RowsInv, JobInv, Open
<1>5. \A t \in Task : RowInv(tasks'[t])
  BY <1>1, <1>2, <1>3 DEF RowInv
<1>6. \A t \in Task : JobOf(t) = j => tasks'[t].state \in TERMINAL
  BY <1>1, <1>2, <1>3, <1>4 DEF Open, TERMINAL
<1>7. ASSUME NEW i \in Job PROVE JobInv(tasks', i)
  <2>1. CASE i = j
    BY <1>6, <2>1 DEF JobInv, TERMINAL
  <2>2. CASE i # j
    BY <1>1, <2>2 DEF JobInv, RowsInv
  <2> QED BY <2>1, <2>2
<1>8. RowsInv(tasks')
  <2>1. tasks' \in [Task -> TaskRow]
    BY <1>1, <1>2, <1>3
  <2> QED BY <1>5, <1>7, <2>1 DEF RowsInv
<1>9. JobVerdict(j) \in {"PENDING", "RUNNING"}
  <2>1. \A s \in States(tasks, j) : s \notin {"ABSENT", "CANCELLED"}
    BY <1>4, StatesMembers
  <2>2. \E s \in States(tasks, j) : s \notin TERMINAL
    BY <1>1, StatesMembers DEF Open
  <2> QED BY <2>1, <2>2, VerdictIs DEF Verdict, TERMINAL
<1>10. JobVerdict(j)' = "CANCELLED"
  <2>1. "CANCELLED" \in States(tasks', j)
    BY <1>1, <1>2, <1>3, StatesMembers
  <2>2. "ABSENT" \notin States(tasks', j)
    BY <1>6, StatesMembers DEF TERMINAL
  <2> QED BY <2>1, <2>2, VerdictIs DEF Verdict
<1>11. \A i \in Job : i # j => JobVerdict(i)' = JobVerdict(i)
  <2>1. \A i \in Job : i # j => States(tasks', i) = States(tasks, i)
    BY <1>1 DEF States
  <2> QED BY <2>1, VerdictIs
<1>12. Tries(tasks') = Tries(tasks)
  BY <1>1, <1>2, <1>3 DEF Tries
<1>13. \A t \in Task : Outcomes(tasks')[t] =
         IF t[1] = j /\ Outcomes(tasks)[t] \in {"waiting", "trying"} THEN "cancelled"
         ELSE Outcomes(tasks)[t]
  <2>1. ASSUME NEW t \in Task
        PROVE  Outcomes(tasks)[t] \in {"waiting", "trying"} <=> Open(tasks[t])
    BY <1>2, RowState, OutcomeOf DEF Outcomes, Open, TERMINAL, TaskStates
  <2>2. PlatformOutcome("CANCELLED") = "cancelled"
    BY OutcomeOf DEF TaskStates
  <2> QED BY <1>1, <1>2, <1>3, <2>1, <2>2, TaskOf DEF Outcomes
<1>14. Outcomes(tasks') = [t \in Task |->
         IF t[1] = j /\ Outcomes(tasks)[t] \in {"waiting", "trying"} THEN "cancelled"
         ELSE Outcomes(tasks)[t]]
  BY <1>13 DEF Outcomes
<1>15. [i \in Job |-> JobVerdict(i)'] = [[i \in Job |-> JobVerdict(i)] EXCEPT ![j] = "CANCELLED"]
  BY <1>10, <1>11
<1>16. Ledger!Withdraw(j)
  BY <1>9, <1>12, <1>14, <1>15 DEF Ledger!Withdraw, Ledger!LedgerTask, Task, Outcomes, Tries
<1> QED BY <1>8, <1>16

-----------------------------------------------------------------------------
(* The steps *)

LEMMA WorkingSteps ==
  ASSUME Working, [Next]_vars, \A w \in Worker : ~ Claim(w)
  PROVE  Working'
<1> USE DEF Returns, Moves
<1>1. IdleWorker \in WorkerState /\ IdleWorker.at = "idle"
  BY PlatformAssumption DEF IdleWorker, WorkerState
<1>2. CASE worker' = worker
  BY <1>2 DEF Working
<1>3. ASSUME NEW w \in Worker, worker' = [worker EXCEPT ![w] = IdleWorker] PROVE Working'
  BY <1>1, <1>3, WorkerMoves
<1>4. ASSUME NEW w \in Worker, NEW t \in Task, Deliver(w, t) PROVE Working'
  <2>1. [IdleWorker EXCEPT !.at = "claim", !.task = t, !.unacked = TRUE] \in WorkerState
    BY <1>1 DEF WorkerState
  <2>2. [IdleWorker EXCEPT !.at = "claim", !.task = t, !.unacked = TRUE].task = t
    BY DEF IdleWorker
  <2> QED BY <1>4, <2>1, <2>2, WorkerMoves DEF Deliver
<1>5. ASSUME NEW w \in Worker, worker[w].at # "idle",
             NEW at \in {"prepare", "watch", "commit", "fail", "cleanup"},
             NEW child \in {"none", "running", "result", "error"},
             worker' = [worker EXCEPT ![w].at = at, ![w].child = child]
      PROVE  Working'
  <2> DEFINE row == [worker[w] EXCEPT !.at = at, !.child = child]
  <2>1. worker[w] \in WorkerState /\ worker[w].task \in Task
    BY <1>5 DEF Working
  <2>2. row \in WorkerState /\ row.task = worker[w].task
    BY <2>1 DEF WorkerState
  <2>3. worker' = [worker EXCEPT ![w] = row]
    BY <1>5
  <2> HIDE DEF row
  <2> QED BY <2>1, <2>2, <2>3, WorkerMoves
<1>6. ASSUME NEW w \in Worker,
             Spawn(w) \/ WatchEnds(w) \/ FinishFails(w)
      PROVE  Working'
  <2>1. worker[w].child \in {"none", "running", "result", "error"}
    BY DEF Working, WorkerState
  <2>2. worker[w].at # "idle"
    BY <1>6 DEF Spawn, WatchEnds, FinishFails
  <2>3. \E at \in {"prepare", "watch", "commit", "fail", "cleanup"},
           child \in {"none", "running", "result", "error"} :
             worker' = [worker EXCEPT ![w].at = at, ![w].child = child]
    BY <1>6, <2>1 DEF Spawn, WatchEnds, FinishFails
  <2> QED BY <1>5, <2>2, <2>3
<1>7. ASSUME NEW w \in Worker, ChildEnds(w) PROVE Working'
  <2>1. PICK exit \in {"result", "error"} :
          worker' = [worker EXCEPT ![w].at = worker[w].at, ![w].child = exit]
    BY <1>7 DEF ChildEnds
  <2> DEFINE row == [worker[w] EXCEPT !.at = worker[w].at, !.child = exit]
  <2>2. worker[w] \in WorkerState /\ (worker[w].at # "idle" => worker[w].task \in Task)
    BY DEF Working
  <2>3. row \in WorkerState /\ row.task = worker[w].task /\ row.at = worker[w].at
    BY <2>2 DEF WorkerState
  <2>4. worker' = [worker EXCEPT ![w] = row]
    BY <2>1
  <2> HIDE DEF row
  <2> QED BY <2>2, <2>3, <2>4, WorkerMoves
<1>8. ASSUME NEW w \in Worker, Finish(w) PROVE Working'
  <2> DEFINE row == [worker[w] EXCEPT !.at = "cleanup"]
  <2>1. worker[w] \in WorkerState /\ worker[w].task \in Task
    BY <1>8 DEF Working, Finish
  <2>2. row \in WorkerState /\ row.task = worker[w].task
    BY <2>1 DEF WorkerState
  <2>3. worker' = [worker EXCEPT ![w] = row]
    BY <1>8 DEF Finish
  <2> HIDE DEF row
  <2> QED BY <2>1, <2>2, <2>3, WorkerMoves
<1>9. ASSUME NEW w \in Worker, Redeliver(w) PROVE Working'
  <2> DEFINE row == [worker[w] EXCEPT !.unacked = FALSE]
  <2>1. worker[w] \in WorkerState /\ (worker[w].at # "idle" => worker[w].task \in Task)
    BY DEF Working
  <2>2. row \in WorkerState /\ row.task = worker[w].task /\ row.at = worker[w].at
    BY <2>1 DEF WorkerState
  <2>3. worker' = [worker EXCEPT ![w] = row]
    BY <1>9 DEF Redeliver
  <2> HIDE DEF row
  <2> QED BY <2>1, <2>2, <2>3, WorkerMoves
<1>10. ASSUME NEW w \in Worker,
              ClaimIgnored(w) \/ Cleanup(w) \/ RaisesEarly(w) \/ WorkerDies(w)
       PROVE  Working'
  <2>1. worker' = [worker EXCEPT ![w] = IdleWorker]
    BY <1>10 DEF ClaimIgnored, Ignored, Cleanup, RaisesEarly, WorkerDies
  <2> QED BY <1>3, <2>1
<1>11. CASE (\E j \in Job : Submit(j) \/ Cancel(j)) \/ CoordinatorStep \/ TickFails
  BY <1>2, <1>11 DEF Submit, Cancel, CoordinatorStep, Recover, ReadDepth, DispatchDue, TickEnds,
                     Publish, TickFails
<1>12. ASSUME NEW t \in Task, Passing(t) \/ Restore(t) \/ OwnerStalls(t) \/ LoseMessage(t)
       PROVE  Working'
  BY <1>2, <1>12 DEF Passing, WindowEnds, BackoffEnds, LeaseAbandoned, LeaseEnds, OwnerStalls,
                     Restore, LoseMessage
<1>13. CASE (\E o \in orphans : OrphanExits(o)) \/ UNCHANGED vars
  BY <1>2, <1>13 DEF OrphanExits, vars
<1> QED BY <1>4, <1>6, <1>7, <1>8, <1>9, <1>10, <1>11, <1>12, <1>13
        DEF Next, SupervisorStep, Faulty

(* The transactions that settle running tasks. *)
LEMMA RecoverFails ==
  ASSUME RowsInv(tasks), Recover
  PROVE  /\ RowsInv(tasks')
         /\ UNCHANGED Ledger!ledger \/ \E S \in SUBSET Task : Ledger!Fail(S)
<1>1. PICK S \in SUBSET Task : S = {t \in Task : tasks[t].state = "RUNNING" /\ ~ tasks[t].leased}
  OBVIOUS
<1>2. tasks' = [t \in Task |-> IF t \in S THEN Settled(tasks[t], FALSE) ELSE tasks[t]]
  BY <1>1 DEF Recover
<1>3. CASE S = {}
  <2>1. tasks' = tasks
    BY <1>2, <1>3 DEF RowsInv
  <2> QED BY <2>1, UnseenKeeps DEF RowsInv, SameOutcomes
<1>4. CASE S # {}
  <2>1. RowsInv(tasks') /\ Ledger!Fail(S)
    BY <1>1, <1>2, <1>4, FailuresFit
  <2> QED BY <2>1
<1> QED BY <1>3, <1>4

LEMMA FinishSettles ==
  ASSUME RowsInv(tasks), Working, NEW w \in Worker, Finish(w)
  PROVE  /\ RowsInv(tasks')
         /\ \/ UNCHANGED Ledger!ledger
            \/ \E S \in SUBSET Task : Ledger!Fail(S)
            \/ \E t \in Task : Ledger!Succeed(t)
<1>1. PICK t \in Task : t = worker[w].task
  BY DEF Working, Finish
<1>2. CASE ~ Holds(t, worker[w].attempt)
  <2>1. tasks' = tasks
    BY <1>1, <1>2 DEF Finish
  <2> QED BY <2>1, UnseenKeeps DEF RowsInv, SameOutcomes
<1>3. CASE Holds(t, worker[w].attempt) /\ worker[w].at = "commit"
  <2>1. tasks' = [tasks EXCEPT ![t] = Settled(@, TRUE)] /\ tasks[t].state = "RUNNING"
    BY <1>1, <1>3 DEF Finish, Holds
  <2>2. RowsInv(tasks') /\ Ledger!Succeed(t)
    BY <2>1, SuccessFits
  <2> QED BY <2>2
<1>4. CASE Holds(t, worker[w].attempt) /\ worker[w].at = "fail"
  <2>1. tasks' = [tasks EXCEPT ![t] = Settled(@, FALSE)] /\ tasks[t].state = "RUNNING"
    BY <1>1, <1>4 DEF Finish, Holds
  <2>2. tasks' = [u \in Task |-> IF u \in {t} THEN Settled(tasks[u], FALSE) ELSE tasks[u]]
    BY <2>1 DEF RowsInv
  <2>3. RowsInv(tasks') /\ Ledger!Fail({t})
    BY <2>1, <2>2, FailuresFit
  <2> QED BY <2>3
<1> QED BY <1>2, <1>3, <1>4 DEF Finish

(* The steps that write no table, or only what no client sees. *)
LEMMA UnseenSteps ==
  ASSUME RowsInv(tasks),
         \/ UNCHANGED tasks
         \/ \E t \in Task : WindowEnds(t) \/ BackoffEnds(t) \/ LeaseEnds(t)
         \/ DispatchDue
  PROVE  RowsInv(tasks') /\ UNCHANGED Ledger!ledger
<1>1. CASE UNCHANGED tasks
  BY <1>1, UnseenKeeps DEF RowsInv, SameOutcomes
<1>2. ASSUME NEW t \in Task, WindowEnds(t) \/ BackoffEnds(t) \/ LeaseEnds(t)
      PROVE  tasks' \in [Task -> TaskRow] /\ SameOutcomes(tasks')
  <2>1. \/ tasks' = [tasks EXCEPT ![t].recent = FALSE]
        \/ tasks' = [tasks EXCEPT ![t].due = TRUE]
        \/ tasks' = [tasks EXCEPT ![t].leased = FALSE]
    BY <1>2 DEF WindowEnds, BackoffEnds, LeaseEnds
  <2>2. tasks \in [Task -> TaskRow]
    BY DEF RowsInv
  <2>3. CASE tasks' = [tasks EXCEPT ![t].recent = FALSE]
    BY <2>2, <2>3 DEF SameOutcomes, TaskRow
  <2>4. CASE tasks' = [tasks EXCEPT ![t].due = TRUE]
    BY <2>2, <2>4 DEF SameOutcomes, TaskRow
  <2>5. CASE tasks' = [tasks EXCEPT ![t].leased = FALSE]
    BY <2>2, <2>5 DEF SameOutcomes, TaskRow
  <2> QED BY <2>1, <2>3, <2>4, <2>5
<1>3. CASE DispatchDue
  <2>1. PICK S : tasks' = [t \in Task |-> IF t \in S THEN [tasks[t] EXCEPT !.recent = TRUE]
                                          ELSE tasks[t]]
    BY <1>3 DEF DispatchDue
  <2>2. tasks' \in [Task -> TaskRow] /\ SameOutcomes(tasks')
    BY <2>1 DEF RowsInv, SameOutcomes, TaskRow
  <2> QED BY <2>2, UnseenKeeps
<1> QED BY <1>1, <1>2, <1>3, UnseenKeeps

LEMMA PlatformStarts == Init => PlatformInv /\ Ledger!LedgerInit
<1> SUFFICES ASSUME Init PROVE PlatformInv /\ Ledger!LedgerInit
  OBVIOUS
<1>1. AbsentTask \in TaskRow /\ AbsentTask.attempt = 0 /\ AbsentTask.state = "ABSENT"
  <2>1. 0 \in 0..MaxAttempts
    BY PlatformAssumption
  <2> QED BY <2>1 DEF AbsentTask, TaskRow
<1>2. RowsInv(tasks)
  BY <1>1 DEF Init, RowsInv, RowInv, JobInv
<1>3. Working
  <2>1. 0 \in 0..MaxAttempts
    BY PlatformAssumption
  <2> QED BY <2>1 DEF Init, Working, IdleWorker, WorkerState
<1>4. \A j \in Job : JobVerdict(j) = "ABSENT"
  <2>1. \A j \in Job : "ABSENT" \in States(tasks, j)
    BY <1>1, JobHasTasks, StatesMembers DEF Init
  <2> QED BY <2>1, VerdictIs DEF Verdict
<1>5. PlatformOutcome("ABSENT") = "none"
  BY DEF PlatformOutcome
<1>6. Ledger!LedgerInit
  BY <1>1, <1>4, <1>5 DEF Init, Ledger!LedgerInit, Ledger!LedgerTask, Task
<1> QED BY <1>2, <1>3, <1>6 DEF PlatformInv

LEMMA PlatformSteps ==
  PlatformInv /\ [Next]_vars => PlatformInv' /\ [Ledger!LedgerNext]_(Ledger!ledger)
<1> SUFFICES ASSUME PlatformInv, [Next]_vars
             PROVE  PlatformInv' /\ [Ledger!LedgerNext]_(Ledger!ledger)
  OBVIOUS
<1> USE DEF PlatformInv
<1>1. Ledger!LedgerTask = Task
  BY DEF Ledger!LedgerTask, Task
<1>2. ASSUME NEW w \in Worker, Claim(w) PROVE PlatformInv' /\ Ledger!LedgerNext
  <2>1. PICK t : t = worker[w].task
    OBVIOUS
  <2>2. PlatformInv' /\ t \in Task /\ Ledger!Try(t)
    BY <1>2, <2>1, ClaimTries
  <2> QED BY <1>1, <2>2 DEF Ledger!LedgerNext
<1>3. CASE \A w \in Worker : ~ Claim(w)
  <2>1. Working'
    BY <1>3, WorkingSteps
  <2>2. ASSUME NEW j \in Job, Submit(j) PROVE RowsInv(tasks') /\ Ledger!LedgerNext
    <3>1. RowsInv(tasks') /\ Ledger!Admit(j, Config)
      BY <2>2, SubmitAdmits
    <3> QED BY <3>1 DEF Ledger!LedgerNext
  <2>3. ASSUME NEW j \in Job, Cancel(j) PROVE RowsInv(tasks') /\ Ledger!LedgerNext
    <3>1. RowsInv(tasks') /\ Ledger!Withdraw(j)
      BY <2>3, CancelWithdraws
    <3> QED BY <3>1 DEF Ledger!LedgerNext
  <2>4. CASE Recover
    BY <1>1, <2>1, <2>4, RecoverFails DEF Ledger!LedgerNext
  <2>5. ASSUME NEW w \in Worker, Finish(w)
        PROVE  RowsInv(tasks') /\ [Ledger!LedgerNext]_(Ledger!ledger)
    BY <1>1, <2>5, FinishSettles DEF Ledger!LedgerNext
  <2>6. CASE DispatchDue \/ \E t \in Task : Passing(t) \/ OwnerStalls(t)
    BY <2>1, <2>6, UnseenSteps DEF Passing, LeaseAbandoned, OwnerStalls
  <2>7. CASE UNCHANGED tasks
    BY <2>1, <2>7, UnseenSteps
  <2>8. ASSUME NEW w \in Worker, SupervisorStep(w) \/ ChildEnds(w), ~ Finish(w) PROVE UNCHANGED tasks
    BY <1>3, <2>8 DEF SupervisorStep, Deliver, ClaimIgnored, Spawn, WatchEnds, Cleanup, ChildEnds,
                      Moves
  <2>9. CASE ReadDepth \/ TickEnds \/ TickFails \/ \E t \in Task : Publish(t) \/ Restore(t) \/ LoseMessage(t)
    BY <2>7, <2>9 DEF ReadDepth, TickEnds, TickFails, Publish, Restore, LoseMessage
  <2>10. ASSUME NEW w \in Worker, RaisesEarly(w) \/ FinishFails(w) \/ WorkerDies(w) \/ Redeliver(w)
         PROVE  UNCHANGED tasks
    BY <2>10 DEF RaisesEarly, FinishFails, WorkerDies, Redeliver, Moves
  <2>11. CASE (\E o \in orphans : OrphanExits(o)) \/ UNCHANGED vars
    BY <2>7, <2>11 DEF OrphanExits, vars
  <2> QED BY <2>1, <2>2, <2>3, <2>4, <2>5, <2>6, <2>7, <2>8, <2>9, <2>10, <2>11
          DEF Next, CoordinatorStep, Faulty
<1> QED BY <1>2, <1>3

LEMMA PlatformInvHolds == Spec => []PlatformInv
BY PlatformStarts, PlatformSteps, PTL DEF Spec

(* The platform as a whole implements the ledger: whatever is delivered      *)
(* twice, killed, lost, late or stalled, however many tasks and workers.     *)
THEOREM PlatformImplementsLedger == Spec => PlatformKeepsLedger
BY PlatformStarts, PlatformSteps, PlatformInvHolds, PTL
   DEF Spec, PlatformKeepsLedger, Ledger!LedgerSpec
-----------------------------------------------------------------------------
(* Counting messages *)

LEMMA FiniteTasks == IsFiniteSet(Task)
BY PlatformAssumption, FS_Product DEF Task

(* The messages of finitely many tasks are finitely many. *)
LEMMA FiniteMessages ==
  ASSUME NEW count \in [Task -> Nat]
  PROVE  IsFiniteSet(Messages(count)) /\ Total(count) \in Nat
<1> DEFINE mine == [t \in Task |-> {t} \X (1..count[t])]
           all == {mine[t] : t \in Task}
<1>1. mine \in Surjection(Task, all)
  BY DEF Surjection
<1>2. IsFiniteSet(all)
  BY <1>1, FiniteTasks, FS_Surjection
<1>3. ASSUME NEW t \in Task PROVE IsFiniteSet(mine[t])
  <2>1. IsFiniteSet({t}) /\ IsFiniteSet(1..count[t])
    <3>1. IsFiniteSet({t})
      BY FS_Singleton
    <3>2. 1 \in Int /\ count[t] \in Int
      OBVIOUS
    <3>3. IsFiniteSet(1..count[t])
      BY <3>2, FS_Interval
    <3> QED BY <3>1, <3>3
  <2>2. mine[t] = {t} \X (1..count[t])
    OBVIOUS
  <2> HIDE DEF mine
  <2> QED BY <2>1, <2>2, FS_Product
<1>4. Messages(count) = UNION all
  BY DEF Messages
<1> HIDE DEF mine, all
<1>5. \A S \in all : IsFiniteSet(S)
  BY <1>3 DEF all
<1>6. IsFiniteSet(Messages(count))
  BY <1>2, <1>4, <1>5, FS_UNION
<1> QED BY <1>6, FS_CardinalityType DEF Total

LEMMA MessageOf ==
  ASSUME NEW count \in [Task -> Nat], NEW m
  PROVE  m \in Messages(count) <=> \E t \in Task, n \in Nat : 1 <= n /\ n <= count[t] /\ m = <<t, n>>
BY DEF Messages

(* Put adds one message, and Take removes one. *)
LEMMA PutCounts ==
  ASSUME NEW count \in [Task -> Nat], NEW t \in Task
  PROVE  Put(count, t) \in [Task -> Nat] /\ Total(Put(count, t)) = Total(count) + 1
<1> DEFINE more == Put(count, t)
           m == <<t, count[t] + 1>>
<1>1. /\ more \in [Task -> Nat] /\ more[t] = count[t] + 1
      /\ \A u \in Task \ {t} : more[u] = count[u]
  BY DEF Put
<1> HIDE DEF more
<1>2. ASSUME NEW x PROVE x \in Messages(more) <=> x \in Messages(count) \cup {m}
  <2>1. ASSUME NEW u \in Task, NEW n \in Nat
        PROVE  n <= more[u] <=> (n <= count[u] \/ <<u, n>> = m)
    BY <1>1
  <2>2. 1 <= count[t] + 1 /\ count[t] + 1 \in Nat
    OBVIOUS
  <2> HIDE DEF m
  <2>3. x \in Messages(more) => x \in Messages(count) \cup {m}
    BY <1>1, <2>1, MessageOf
  <2>4. x \in Messages(count) \cup {m} => x \in Messages(more)
    BY <1>1, <2>1, <2>2, MessageOf DEF m
  <2> QED BY <2>3, <2>4
<1>3. m \notin Messages(count)
  BY MessageOf
<1>4. Messages(more) = Messages(count) \cup {m}
  BY <1>2
<1> HIDE DEF m
<1>5. Total(more) = Total(count) + 1
  BY <1>3, <1>4, FiniteMessages, FS_AddElement DEF Total
<1> QED BY <1>1, <1>5 DEF more

LEMMA TakeCounts ==
  ASSUME NEW count \in [Task -> Nat], NEW t \in Task, count[t] > 0
  PROVE  Take(count, t) \in [Task -> Nat] /\ Total(Take(count, t)) = Total(count) - 1
<1> DEFINE fewer == Take(count, t)
<1>1. /\ fewer \in [Task -> Nat] /\ fewer[t] + 1 = count[t]
      /\ \A u \in Task \ {t} : fewer[u] = count[u]
  BY DEF Take
<1> HIDE DEF fewer
<1>2. Put(fewer, t) = count
  BY <1>1 DEF Put
<1>3. Total(count) = Total(fewer) + 1 /\ Total(fewer) \in Nat
  BY <1>1, <1>2, PutCounts, FiniteMessages
<1> QED BY <1>1, <1>3 DEF fewer

LEMMA NoMessages ==
  ASSUME NEW count, count = [t \in Task |-> 0]
  PROVE  count \in [Task -> Nat] /\ Total(count) = 0
<1>1. Messages(count) = {}
  BY DEF Messages
<1> QED BY <1>1, FS_EmptySet DEF Total

(* The least of three numbers is one of them, and at most the first. *)
LEMMA LeastOfThree ==
  ASSUME NEW a \in Nat, NEW b \in Nat, NEW c \in Nat
  PROVE  Min({a, b, c}) \in {a, b, c} /\ Min({a, b, c}) <= a
<1>1. \E x \in {a, b, c} : \A y \in {a, b, c} : x <= y
  <2>1. CASE a <= b /\ a <= c
    BY <2>1
  <2>2. CASE b <= a /\ b <= c
    BY <2>2
  <2>3. CASE c <= a /\ c <= b
    BY <2>3
  <2> QED BY <2>1, <2>2, <2>3
<1> QED BY <1>1 DEF Min

-----------------------------------------------------------------------------
(* The queue *)

(* A supervisor that has claimed works for an attempt, only a watched child  *)
(* runs, and only a worker with a task owes an acknowledgement.              *)
Supervising ==
  \A w \in Worker :
    /\ worker[w].at \notin {"idle", "claim"} => worker[w].attempt \in 1..MaxAttempts
    /\ worker[w].child = "running" => worker[w].at \notin {"idle", "claim"}
    /\ worker[w].unacked => worker[w].at # "idle"

OrphansInv == orphans \subseteq Task \X (1..MaxAttempts)

TickInv ==
  /\ tick \in [at : {"idle", "depth", "dispatch", "publish"},
               room : 0..MaxPending, batch : SUBSET Task]
  /\ tick.at # "dispatch" => tick.room = 0
  /\ tick.at # "publish" => tick.batch = {}

(* A tick publishes no more than the room it found, and a worker leaves a    *)
(* message behind only by crashing: but for one message per crash, the queue *)
(* and what is on its way into it stay within max_pending.                   *)
QueueInv ==
  /\ waiting \in [Task -> Nat] /\ lost \in [Task -> Nat] /\ faults \in 0..MaxFaults
  /\ TickInv
  /\ Total(lost) <= faults
  /\ Total(waiting) + Total(lost) + tick.room + Cardinality(tick.batch) <= MaxPending + faults

DeliveryInv == PlatformInv /\ Supervising /\ OrphansInv /\ QueueInv

LEMMA BatchIsFinite ==
  ASSUME TickInv
  PROVE  IsFiniteSet(tick.batch) /\ Cardinality(tick.batch) \in Nat
<1>1. tick.batch \in SUBSET Task
  BY DEF TickInv
<1> QED BY <1>1, FiniteTasks, FS_Subset, FS_CardinalityType

(* The numbers the queue is about are numbers. *)
LEMMA QueueNumbers ==
  ASSUME QueueInv
  PROVE  /\ Total(waiting) \in Nat /\ Total(lost) \in Nat /\ faults \in Nat
         /\ tick.room \in Nat /\ Cardinality(tick.batch) \in Nat
         /\ tick.room <= MaxPending /\ IsFiniteSet(tick.batch)
<1>1. tick.room \in Nat /\ tick.room <= MaxPending /\ faults \in Nat
  BY PlatformAssumption DEF QueueInv, TickInv
<1> QED BY <1>1, FiniteMessages, BatchIsFinite DEF QueueInv

LEMMA FaultCounts == ASSUME QueueInv, Fault PROVE faults' = faults + 1 /\ faults' \in 0..MaxFaults
BY PlatformAssumption DEF QueueInv, Fault

(* The coordinator: what is published was room first. *)
LEMMA TickKeepsQueue ==
  ASSUME QueueInv, CoordinatorStep
  PROVE  QueueInv'
<1> USE QueueNumbers
<1>1. /\ tick \in [at : {"idle", "depth", "dispatch", "publish"},
                   room : 0..MaxPending, batch : SUBSET Task]
      /\ UNCHANGED <<lost, faults>> /\ MaxPending \in Nat
  BY PlatformAssumption
     DEF QueueInv, TickInv, CoordinatorStep, Recover, ReadDepth, DispatchDue, TickEnds, Publish
<1>2. CASE Recover
  BY <1>1, <1>2 DEF Recover, QueueInv, TickInv
<1>3. IdleTick.at = "idle" /\ IdleTick.room = 0 /\ IdleTick.batch = {}
  BY DEF IdleTick
<1>4. ASSUME tick' = IdleTick, UNCHANGED waiting PROVE QueueInv'
  <2>1. TickInv'
    BY <1>1, <1>4 DEF IdleTick, TickInv
  <2>2. Cardinality(tick'.batch) = 0 /\ tick'.room = 0
    BY <1>3, <1>4, FS_EmptySet
  <2> QED BY <1>1, <1>4, <2>1, <2>2 DEF QueueInv
<1>5. CASE ReadDepth
  <2>1. CASE Total(waiting) >= MaxPending
    BY <1>4, <1>5, <2>1 DEF ReadDepth
  <2>2. CASE ~ (Total(waiting) >= MaxPending)
    <3>1. tick' = [tick EXCEPT !.at = "dispatch", !.room = MaxPending - Total(waiting)]
      BY <1>5, <2>2 DEF ReadDepth, Room
    <3>2. MaxPending - Total(waiting) \in 0..MaxPending
      BY <1>1, <2>2
    <3>3. /\ tick' \in [at : {"idle", "depth", "dispatch", "publish"},
                        room : 0..MaxPending, batch : SUBSET Task]
          /\ tick'.at = "dispatch" /\ tick'.room = MaxPending - Total(waiting)
          /\ tick'.batch = tick.batch /\ tick.batch = {}
      BY <1>1, <1>5, <3>1, <3>2 DEF ReadDepth, QueueInv, TickInv
    <3>4. TickInv'
      BY <3>3 DEF TickInv
    <3>5. Cardinality(tick'.batch) = 0 /\ UNCHANGED waiting
      BY <1>5, <3>3, FS_EmptySet DEF ReadDepth
    <3> QED BY <1>1, <3>3, <3>4, <3>5 DEF QueueInv
  <2> QED BY <2>1, <2>2
<1>6. CASE DispatchDue
  <2> DEFINE due == {t \in Task : Dispatchable(tasks[t])}
  <2>1. PICK S \in SUBSET due : /\ Cardinality(S) = Min({tick.room, 16, Cardinality(due)})
                                /\ tick' = [at |-> "publish", room |-> 0, batch |-> S]
    BY <1>6 DEF DispatchDue
  <2>2. Cardinality(due) \in Nat
    BY FiniteTasks, FS_Subset, FS_CardinalityType
  <2>3. S \in SUBSET Task
    OBVIOUS
  <2> HIDE DEF due
  <2>4. Cardinality(S) <= tick.room /\ Cardinality(S) \in Nat
    BY <2>1, <2>2, LeastOfThree
  <2>5. TickInv'
    BY <1>1, <2>1, <2>3 DEF TickInv
  <2>6. tick.batch = {} /\ Cardinality(tick.batch) = 0 /\ UNCHANGED waiting
    BY <1>6, FS_EmptySet DEF DispatchDue, QueueInv, TickInv
  <2>7. tick'.batch = S /\ tick'.room = 0
    BY <2>1
  <2> QED BY <1>1, <2>4, <2>5, <2>6, <2>7 DEF QueueInv
<1>7. ASSUME NEW t \in Task, Publish(t) PROVE QueueInv'
  <2>1. /\ tick' = [tick EXCEPT !.batch = @ \ {t}] /\ waiting' = Put(waiting, t)
        /\ t \in tick.batch /\ tick.at = "publish"
    BY <1>7 DEF Publish
  <2>2. waiting' \in [Task -> Nat] /\ Total(waiting') = Total(waiting) + 1
    BY <2>1, PutCounts DEF QueueInv
  <2>3. tick'.batch = tick.batch \ {t} /\ tick'.room = tick.room /\ tick'.at = tick.at
    BY <1>1, <2>1
  <2>4. Cardinality(tick'.batch) = Cardinality(tick.batch) - 1
    BY <2>1, <2>3, FS_RemoveElement
  <2>5. TickInv'
    <3>1. tick' \in [at : {"idle", "depth", "dispatch", "publish"},
                     room : 0..MaxPending, batch : SUBSET Task]
      BY <1>1, <2>1
    <3> QED BY <2>1, <2>3, <3>1 DEF QueueInv, TickInv
  <2> QED BY <1>1, <2>2, <2>3, <2>4, <2>5 DEF QueueInv
<1>8. CASE TickEnds
  BY <1>4, <1>8 DEF TickEnds
<1> QED BY <1>2, <1>5, <1>6, <1>7, <1>8 DEF CoordinatorStep

(* The messages of workers: taken, kept, left behind or given back. *)
LEMMA MessagesKeepQueue ==
  ASSUME QueueInv, UNCHANGED tick,
         \/ UNCHANGED <<waiting, lost, faults>>
         \/ UNCHANGED <<waiting, lost>> /\ Fault
         \/ \E t \in Task : waiting[t] > 0 /\ waiting' = Take(waiting, t) /\ UNCHANGED <<lost, faults>>
         \/ \E t \in Task : waiting' = Put(waiting, t) /\ UNCHANGED lost /\ Fault
         \/ \E t \in Task : lost' = Put(lost, t) /\ UNCHANGED waiting /\ Fault
         \/ \E t \in Task : Restore(t) \/ LoseMessage(t)
  PROVE  QueueInv'
<1> USE QueueNumbers
<1>1. TickInv' /\ tick'.room = tick.room /\ Cardinality(tick'.batch) = Cardinality(tick.batch)
  BY DEF QueueInv, TickInv
<1>2. waiting \in [Task -> Nat] /\ lost \in [Task -> Nat] /\ MaxPending \in Nat
  BY PlatformAssumption DEF QueueInv
<1>3. ASSUME waiting' \in [Task -> Nat], lost' \in [Task -> Nat], faults' \in 0..MaxFaults,
             Total(lost') <= faults', Total(lost') \in Nat, Total(waiting') \in Nat,
             Total(waiting') + Total(lost') - faults' <= Total(waiting) + Total(lost) - faults
      PROVE  QueueInv'
  <2>1. faults' \in Nat
    BY <1>3, PlatformAssumption
  <2>2. Total(waiting') + Total(lost') + tick'.room + Cardinality(tick'.batch) <= MaxPending + faults'
    BY <1>1, <1>2, <1>3, <2>1 DEF QueueInv
  <2> QED BY <1>1, <1>3, <2>2 DEF QueueInv
<1>4. CASE UNCHANGED <<waiting, lost, faults>>
  BY <1>2, <1>3, <1>4 DEF QueueInv
<1>5. CASE UNCHANGED <<waiting, lost>> /\ Fault
  BY <1>2, <1>3, <1>5, FaultCounts DEF QueueInv
<1>6. ASSUME NEW t \in Task, waiting[t] > 0, waiting' = Take(waiting, t), UNCHANGED <<lost, faults>>
      PROVE  QueueInv'
  <2>1. waiting' \in [Task -> Nat] /\ Total(waiting') = Total(waiting) - 1 /\ Total(waiting') \in Nat
    BY <1>2, <1>6, TakeCounts, FiniteMessages
  <2> QED BY <1>2, <1>3, <1>6, <2>1 DEF QueueInv
<1>7. ASSUME NEW t \in Task, waiting' = Put(waiting, t), UNCHANGED lost, Fault PROVE QueueInv'
  <2>1. waiting' \in [Task -> Nat] /\ Total(waiting') = Total(waiting) + 1
    BY <1>2, <1>7, PutCounts
  <2>2. faults' = faults + 1 /\ faults' \in 0..MaxFaults
    BY <1>7, FaultCounts
  <2> QED BY <1>2, <1>3, <1>7, <2>1, <2>2 DEF QueueInv
<1>8. ASSUME NEW t \in Task, lost' = Put(lost, t), UNCHANGED waiting, Fault PROVE QueueInv'
  <2>1. lost' \in [Task -> Nat] /\ Total(lost') = Total(lost) + 1
    BY <1>2, <1>8, PutCounts
  <2>2. faults' = faults + 1 /\ faults' \in 0..MaxFaults
    BY <1>8, FaultCounts
  <2> QED BY <1>2, <1>3, <1>8, <2>1, <2>2 DEF QueueInv
<1>9. ASSUME NEW t \in Task, lost[t] > 0, lost' = Take(lost, t)
      PROVE  lost' \in [Task -> Nat] /\ Total(lost') = Total(lost) - 1 /\ Total(lost') \in Nat
  BY <1>2, <1>9, TakeCounts, FiniteMessages
<1>10. ASSUME NEW t \in Task, Restore(t) PROVE QueueInv'
  <2>1. lost' \in [Task -> Nat] /\ Total(lost') = Total(lost) - 1 /\ Total(lost') \in Nat
    BY <1>9, <1>10 DEF Restore
  <2>2. waiting' \in [Task -> Nat] /\ Total(waiting') = Total(waiting) + 1 /\ UNCHANGED faults
    BY <1>2, <1>10, PutCounts DEF Restore
  <2> QED BY <1>2, <1>3, <2>1, <2>2 DEF QueueInv
<1>11. ASSUME NEW t \in Task, LoseMessage(t) PROVE QueueInv'
  <2>1. faults' = faults + 1 /\ faults' \in 0..MaxFaults
    BY <1>11, FaultCounts DEF LoseMessage
  <2>2. CASE waiting[t] > 0 /\ waiting' = Take(waiting, t) /\ UNCHANGED lost
    <3>1. waiting' \in [Task -> Nat] /\ Total(waiting') = Total(waiting) - 1 /\ Total(waiting') \in Nat
      BY <1>2, <2>2, TakeCounts, FiniteMessages
    <3> QED BY <1>2, <1>3, <2>1, <2>2, <3>1 DEF QueueInv
  <2>3. CASE lost[t] > 0 /\ lost' = Take(lost, t) /\ UNCHANGED waiting
    <3>1. lost' \in [Task -> Nat] /\ Total(lost') = Total(lost) - 1 /\ Total(lost') \in Nat
      BY <1>9, <2>3
    <3> QED BY <1>2, <1>3, <2>1, <2>3, <3>1 DEF QueueInv
  <2> QED BY <1>11, <2>2, <2>3 DEF LoseMessage
<1> QED BY <1>4, <1>5, <1>6, <1>7, <1>8, <1>10, <1>11

-----------------------------------------------------------------------------
(* Workers and orphans *)

LEMMA SupervisingMoves ==
  ASSUME Working, Supervising, NEW w \in Worker, NEW row, worker' = [worker EXCEPT ![w] = row],
         row.at \notin {"idle", "claim"} => row.attempt \in 1..MaxAttempts,
         row.child = "running" => row.at \notin {"idle", "claim"},
         row.unacked => row.at # "idle"
  PROVE  Supervising'
BY DEF Working, Supervising

LEMMA SupervisingSteps ==
  ASSUME PlatformInv, Supervising, [Next]_vars
  PROVE  Supervising'
<1> USE DEF Returns, Moves
<1>1. CASE worker' = worker
  BY <1>1 DEF Supervising
<1>2. ASSUME NEW w \in Worker
      PROVE  /\ worker[w] = [at |-> worker[w].at, task |-> worker[w].task,
                             attempt |-> worker[w].attempt, child |-> worker[w].child,
                             unacked |-> worker[w].unacked]
             /\ worker[w].at \notin {"idle", "claim"} => worker[w].attempt \in 1..MaxAttempts
             /\ worker[w].child = "running" => worker[w].at \notin {"idle", "claim"}
             /\ worker[w].unacked => worker[w].at # "idle"
  BY DEF PlatformInv, Working, WorkerState, Supervising
<1>3. ASSUME NEW w \in Worker, worker' = [worker EXCEPT ![w] = IdleWorker] PROVE Supervising'
  BY <1>3, SupervisingMoves DEF PlatformInv, IdleWorker
<1>4. ASSUME NEW w \in Worker, NEW t \in Task, Deliver(w, t) PROVE Supervising'
  BY <1>4, SupervisingMoves DEF PlatformInv, IdleWorker, Deliver
<1>5. ASSUME NEW w \in Worker, Claim(w) PROVE Supervising'
  <2>1. PICK t : t = worker[w].task
    OBVIOUS
  <2>2. PlatformInv' /\ t \in Task
    BY <1>5, <2>1, ClaimTries
  <2>3. /\ worker' = [worker EXCEPT ![w].at = "prepare", ![w].attempt = tasks[t].attempt + 1]
        /\ worker[w].at = "claim"
    BY <1>5, <2>1 DEF Claim
  <2>4. worker'[w].attempt = tasks[t].attempt + 1 /\ worker'[w] \in WorkerState
    BY <2>2, <2>3 DEF PlatformInv, Working, WorkerState
  <2>5. tasks[t].attempt \in 0..MaxAttempts /\ worker'[w].attempt \in 0..MaxAttempts
    BY <2>2, <2>4 DEF PlatformInv, RowsInv, TaskRow, WorkerState
  <2>6. tasks[t].attempt + 1 \in 1..MaxAttempts
    BY <2>4, <2>5, PlatformAssumption
  <2> DEFINE row == [worker[w] EXCEPT !.at = "prepare", !.attempt = tasks[t].attempt + 1]
  <2>7. worker' = [worker EXCEPT ![w] = row]
    BY <2>3
  <2>8. row.at = "prepare" /\ row.attempt = tasks[t].attempt + 1
    BY <1>2
  <2> HIDE DEF row
  <2> QED BY <2>6, <2>7, <2>8, SupervisingMoves DEF PlatformInv
<1>6. ASSUME NEW w \in Worker, worker[w].at \notin {"idle", "claim"},
             NEW at \in {"prepare", "watch", "commit", "fail", "cleanup"}, NEW child,
             worker' = [worker EXCEPT ![w].at = at, ![w].child = child]
      PROVE  Supervising'
  <2> DEFINE row == [worker[w] EXCEPT !.at = at, !.child = child]
  <2>1. worker' = [worker EXCEPT ![w] = row] /\ worker[w].attempt \in 1..MaxAttempts
    BY <1>2, <1>6
  <2>2. row.at = at /\ row.attempt = worker[w].attempt
    BY <1>2
  <2> HIDE DEF row
  <2> QED BY <1>6, <2>1, <2>2, SupervisingMoves DEF PlatformInv
<1>7. ASSUME NEW w \in Worker, Spawn(w) \/ WatchEnds(w) \/ FinishFails(w) \/ ChildEnds(w)
      PROVE  Supervising'
  <2>1. worker[w].at \notin {"idle", "claim"}
    BY <1>2, <1>7 DEF Spawn, WatchEnds, FinishFails, ChildEnds
  <2>2. worker[w].at \in {"prepare", "watch", "commit", "fail", "cleanup"}
    BY <2>1 DEF PlatformInv, Working, WorkerState
  <2>3. \E at \in {"prepare", "watch", "commit", "fail", "cleanup"} : \E child :
          worker' = [worker EXCEPT ![w].at = at, ![w].child = child]
    BY <1>7, <2>2 DEF Spawn, WatchEnds, FinishFails, ChildEnds
  <2> QED BY <1>6, <2>1, <2>3
<1>8. ASSUME NEW w \in Worker, Finish(w) PROVE Supervising'
  <2> DEFINE row == [worker[w] EXCEPT !.at = "cleanup"]
  <2>1. worker' = [worker EXCEPT ![w] = row] /\ worker[w].attempt \in 1..MaxAttempts
    BY <1>2, <1>8 DEF Finish
  <2>2. row.at = "cleanup" /\ row.attempt = worker[w].attempt
    BY <1>2
  <2> HIDE DEF row
  <2> QED BY <2>1, <2>2, SupervisingMoves DEF PlatformInv
<1>9. ASSUME NEW w \in Worker, Redeliver(w) PROVE Supervising'
  <2> DEFINE row == [worker[w] EXCEPT !.unacked = FALSE]
  <2>1. worker' = [worker EXCEPT ![w] = row]
    BY <1>9 DEF Redeliver
  <2>2. /\ row.at = worker[w].at /\ row.attempt = worker[w].attempt
        /\ row.child = worker[w].child /\ row.unacked = FALSE
    BY <1>2
  <2> HIDE DEF row
  <2> QED BY <1>2, <2>1, <2>2, SupervisingMoves DEF PlatformInv
<1>10. ASSUME NEW w \in Worker,
              ClaimIgnored(w) \/ Cleanup(w) \/ RaisesEarly(w) \/ WorkerDies(w)
       PROVE  Supervising'
  BY <1>3, <1>10 DEF ClaimIgnored, Ignored, Cleanup, RaisesEarly, WorkerDies
<1>11. CASE (\E j \in Job : Submit(j) \/ Cancel(j)) \/ CoordinatorStep \/ TickFails
  BY <1>1, <1>11 DEF Submit, Cancel, CoordinatorStep, Recover, ReadDepth, DispatchDue, TickEnds,
                     Publish, TickFails
<1>12. ASSUME NEW t \in Task, Passing(t) \/ Restore(t) \/ OwnerStalls(t) \/ LoseMessage(t)
       PROVE  Supervising'
  BY <1>1, <1>12 DEF Passing, WindowEnds, BackoffEnds, LeaseAbandoned, LeaseEnds, OwnerStalls,
                     Restore, LoseMessage
<1>13. CASE (\E o \in orphans : OrphanExits(o)) \/ UNCHANGED vars
  BY <1>1, <1>13 DEF OrphanExits, vars
<1> QED BY <1>4, <1>5, <1>7, <1>8, <1>9, <1>10, <1>11, <1>12, <1>13
        DEF Next, SupervisorStep, Faulty

LEMMA OrphansSteps ==
  ASSUME PlatformInv, Supervising, OrphansInv, [Next]_vars
  PROVE  OrphansInv'
<1>1. CASE UNCHANGED orphans
  BY <1>1 DEF OrphansInv
<1>2. ASSUME NEW w \in Worker, WorkerDies(w) PROVE OrphansInv'
  <2>1. CASE worker[w].child # "running"
    BY <1>1, <1>2, <2>1 DEF WorkerDies
  <2>2. CASE worker[w].child = "running"
    <3>1. worker[w].task \in Task /\ worker[w].attempt \in 1..MaxAttempts
      BY <2>2 DEF PlatformInv, Working, Supervising
    <3>2. orphans' = orphans \cup {<<worker[w].task, worker[w].attempt>>}
      BY <1>2, <2>2 DEF WorkerDies
    <3> QED BY <3>1, <3>2 DEF OrphansInv
  <2> QED BY <2>1, <2>2
<1>3. CASE \E o \in orphans : OrphanExits(o)
  BY <1>3 DEF OrphanExits, OrphansInv
<1>4. CASE \/ \E j \in Job : Submit(j) \/ Cancel(j)
           \/ CoordinatorStep \/ TickFails \/ UNCHANGED vars
           \/ \E t \in Task : Passing(t) \/ Restore(t) \/ OwnerStalls(t) \/ LoseMessage(t)
  BY <1>1, <1>4 DEF Submit, Cancel, CoordinatorStep, Recover, ReadDepth, DispatchDue, TickEnds,
       Publish, TickFails, Passing, WindowEnds, BackoffEnds, LeaseAbandoned, LeaseEnds,
       OwnerStalls, Restore, LoseMessage, vars
<1>5. ASSUME NEW w \in Worker,
             \/ SupervisorStep(w) \/ ChildEnds(w) \/ RaisesEarly(w) \/ FinishFails(w)
             \/ Redeliver(w)
      PROVE  OrphansInv'
  BY <1>1, <1>5 DEF SupervisorStep, Deliver, Claim, ClaimIgnored, Spawn, WatchEnds, Finish, Cleanup,
       ChildEnds, RaisesEarly, FinishFails, Redeliver, Moves
<1> QED BY <1>2, <1>3, <1>4, <1>5 DEF Next, Faulty

-----------------------------------------------------------------------------
(* The invariants *)

LEMMA DeliveryStarts == ASSUME Init PROVE Supervising /\ OrphansInv /\ QueueInv
<1>1. Supervising /\ OrphansInv
  BY DEF Init, IdleWorker, Supervising, OrphansInv
<1>2. waiting \in [Task -> Nat] /\ lost \in [Task -> Nat] /\ Total(waiting) = 0 /\ Total(lost) = 0
  BY NoMessages DEF Init
<1>3. TickInv /\ tick.room = 0 /\ tick.batch = {}
  BY PlatformAssumption DEF Init, IdleTick, TickInv
<1>4. Cardinality(tick.batch) = 0 /\ faults = 0 /\ 0 \in 0..MaxFaults
  BY <1>3, FS_EmptySet, PlatformAssumption DEF Init
<1>5. QueueInv
  BY <1>2, <1>3, <1>4, PlatformAssumption DEF QueueInv
<1> QED BY <1>1, <1>5

LEMMA TickFailsKeepsQueue == ASSUME QueueInv, TickFails PROVE QueueInv'
<1>1. /\ tick' = IdleTick /\ UNCHANGED <<waiting, lost>>
      /\ faults' = faults + 1 /\ faults' \in 0..MaxFaults
  BY FaultCounts DEF TickFails
<1>2. TickInv' /\ tick'.room = 0 /\ tick'.batch = {}
  BY <1>1, PlatformAssumption DEF IdleTick, TickInv
<1>3. Cardinality(tick'.batch) = 0
  BY <1>2, FS_EmptySet
<1> QED BY <1>1, <1>2, <1>3, QueueNumbers, PlatformAssumption DEF QueueInv

LEMMA QueueSteps ==
  ASSUME DeliveryInv, [Next]_vars
  PROVE  QueueInv'
<1>1. QueueInv /\ \A w \in Worker : worker[w].at # "idle" => worker[w].task \in Task
  BY DEF DeliveryInv, PlatformInv, Working
<1>2. CASE \/ \E j \in Job : Submit(j) \/ Cancel(j)
           \/ \E o \in orphans : OrphanExits(o)
           \/ UNCHANGED vars
           \/ \E t \in Task : Passing(t)
           \/ \E w \in Worker : ChildEnds(w)
  BY <1>1, <1>2, MessagesKeepQueue
     DEF Submit, Cancel, OrphanExits, vars, Passing, WindowEnds, BackoffEnds, LeaseAbandoned,
         LeaseEnds, ChildEnds, Moves
<1>3. CASE CoordinatorStep
  BY <1>1, <1>3, TickKeepsQueue
<1>4. ASSUME NEW w \in Worker, SupervisorStep(w) PROVE QueueInv'
  <2>1. ASSUME NEW t \in Task, Deliver(w, t) PROVE QueueInv'
    BY <1>1, <2>1, MessagesKeepQueue DEF Deliver
  <2>2. CASE ~ \E t \in Task : Deliver(w, t)
    BY <1>1, <1>4, <2>2, MessagesKeepQueue
       DEF SupervisorStep, Claim, ClaimIgnored, Ignored, Returns, Spawn, WatchEnds, Finish, Cleanup,
           Moves
  <2> QED BY <2>1, <2>2
<1>5. ASSUME NEW w \in Worker, RaisesEarly(w) \/ FinishFails(w) PROVE QueueInv'
  BY <1>1, <1>5, MessagesKeepQueue DEF RaisesEarly, FinishFails, Returns, Moves
<1>6. ASSUME NEW w \in Worker, WorkerDies(w) PROVE QueueInv'
  <2>1. worker[w].task \in Task
    BY <1>1, <1>6 DEF WorkerDies
  <2>2. CASE worker[w].unacked
    BY <1>1, <1>6, <2>1, <2>2, MessagesKeepQueue DEF WorkerDies
  <2>3. CASE ~ worker[w].unacked
    BY <1>1, <1>6, <2>3, MessagesKeepQueue DEF WorkerDies
  <2> QED BY <2>2, <2>3
<1>7. ASSUME NEW w \in Worker, Redeliver(w) PROVE QueueInv'
  <2>1. worker[w].task \in Task
    BY <1>7 DEF DeliveryInv, PlatformInv, Working, Supervising, Redeliver
  <2> QED BY <1>1, <1>7, <2>1, MessagesKeepQueue DEF Redeliver
<1>8. ASSUME NEW t \in Task, Restore(t) \/ LoseMessage(t) PROVE QueueInv'
  BY <1>1, <1>8, MessagesKeepQueue DEF Restore, LoseMessage
<1>9. ASSUME NEW t \in Task, OwnerStalls(t) PROVE QueueInv'
  BY <1>1, <1>9, MessagesKeepQueue DEF OwnerStalls, LeaseEnds
<1>10. CASE TickFails
  BY <1>1, <1>10, TickFailsKeepsQueue
<1> QED BY <1>2, <1>3, <1>4, <1>5, <1>6, <1>7, <1>8, <1>9, <1>10 DEF Next, Faulty

LEMMA DeliveryInvHolds == Spec => []DeliveryInv
<1>1. Init => DeliveryInv
  BY PlatformStarts, DeliveryStarts DEF DeliveryInv
<1>2. DeliveryInv /\ [Next]_vars => DeliveryInv'
  BY PlatformSteps, SupervisingSteps, OrphansSteps, QueueSteps DEF DeliveryInv
<1> QED BY <1>1, <1>2, PTL DEF Spec

(* Every row, message and process of the platform has its values in range,   *)
(* and no delivery, recovery or retry numbers an attempt beyond              *)
(* max_attempts: Platform!TypeOK, for any number of jobs, workers, faults.   *)
THEOREM PlatformTypeOK == Spec => []TypeOK
<1>1. DeliveryInv => TypeOK
  BY DEF DeliveryInv, PlatformInv, RowsInv, Working, OrphansInv, QueueInv, TickInv, TypeOK
<1> QED BY <1>1, DeliveryInvHolds, PTL

(* "Bounded duplicate publication" (coordinator.py:1): the queue, the        *)
(* workers' hands, the messages of dead workers and the batch of a tick hold *)
(* at most max_pending messages, one more per worker and one per fault.      *)
THEOREM PlatformDeliveriesBounded == Spec => []DeliveriesBounded
<1>1. DeliveryInv => DeliveriesBounded
  <2> SUFFICES ASSUME DeliveryInv PROVE DeliveriesBounded
    OBVIOUS
  <2>1. QueueInv
    BY DEF DeliveryInv
  <2>2. Unacked \in SUBSET Worker
    BY DEF Unacked
  <2>3. /\ Cardinality(Unacked) <= Cardinality(Worker)
        /\ Cardinality(Unacked) \in Nat /\ Cardinality(Worker) \in Nat
    BY <2>2, PlatformAssumption, FS_Subset, FS_CardinalityType
  <2> QED BY <2>1, <2>3, QueueNumbers, PlatformAssumption DEF QueueInv, DeliveriesBounded
<1> QED BY <1>1, DeliveryInvHolds, PTL

=============================================================================
