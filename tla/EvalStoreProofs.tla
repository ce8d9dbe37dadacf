-------------------------- MODULE EvalStoreProofs --------------------------
(* Theorems about EvalStore for every value of its constants. *)
EXTENDS EvalStoreLedger, FiniteSetTheorems, TLAPS

-----------------------------------------------------------------------------
(* Operators *)

(* 2^n is a natural number: it counts the subsets of 1..n. *)
LEMMA PowerOfTwo == ASSUME NEW n \in Nat PROVE 2^n \in Nat
<1>1. IsFiniteSet(1..n) /\ Cardinality(1..n) = n
  BY FS_Interval
<1>2. Cardinality(SUBSET (1..n)) = 2^n /\ IsFiniteSet(SUBSET (1..n))
  BY <1>1, FS_SUBSET
<1> QED BY <1>2, FS_CardinalityType

(* A backoff is a number of seconds. *)
LEMMA BackoffIsNat == ASSUME NEW n \in Nat PROVE Backoff(n) \in Nat
BY PowerOfTwo, StoreAssumption DEF Backoff, LeastOf

(* Every task belongs to a job. *)
LEMMA TaskHasJob == ASSUME NEW t \in Task PROVE JobOf(t) \in Job
BY DEF Task, JobOf

(* refresh_job computes a job state whatever the tasks say. *)
LEMMA RefreshedIsJobState == \A states : RefreshedState(states) \in JobState
BY DEF RefreshedState, JobState, TERMINAL

-----------------------------------------------------------------------------
(* What the calls in flight and the claims held rest on: a call knows its   *)
(* parameters and a time of the past; a held claim names an attempt that    *)
(* was made, by the token it was made with.                                 *)
CallsOK ==
  /\ \A w \in Worker :
       /\ wcall[w].op # "idle" => wcall[w].task \in Task
       /\ wcall[w].op \in {"claim", "call"} => wcall[w].now \in 0..clock
       /\ wcall[w].op \in {"idle", "claim"} => wcall[w].token = NoToken
       /\ wcall[w].op \in {"own", "call"} =>
            /\ wcall[w].token \in Token
            /\ wcall[w].attempt \in 1..tasks[wcall[w].task].attempt
            /\ attempts[wcall[w].task][wcall[w].attempt].token = wcall[w].token
  /\ \A c \in Client :
       /\ ucall[c].op # "idle" => ucall[c].now \in 0..clock
       /\ ucall[c].op = "submit" => ucall[c].request \in Request
       /\ ucall[c].op = "cancel" => ucall[c].job \in Job /\ jobs[ucall[c].job].state # "ABSENT"
  /\ ccall.op = "call" => ccall.now \in 0..clock

(* Every transaction that writes the tables. *)
Writes ==
  \/ \E w \in Worker : Claim(w) \/ Heartbeat(w) \/ \E result \in {0, wcall[w].attempt} : Finish(w, result)
  \/ Recover \/ DispatchDue
  \/ \E c \in Client : Cancel(c) \/ \E j \in Job : SubmitInsert(c, j)

-----------------------------------------------------------------------------
(* Type correctness *)

(* _finish on any set of running rows keeps the tables well typed. *)
LEMMA FinishRowsTyped ==
  ASSUME TypeOK, NEW S \in SUBSET {t \in Task : tasks[t].state = "RUNNING"},
         NEW now \in Nat, NEW result \in 0..MaxAttempts, FinishRows(S, now, result)
  PROVE  /\ jobs' \in [Job -> JobRow]
         /\ tasks' \in [Task -> TaskRow]
         /\ attempts' \in [Task -> [AttemptNo -> AttemptRow]]
<1> DEFINE rows == [t \in Task |-> IF t \in S THEN Settled(tasks[t], now, result) ELSE tasks[t]]
<1>1. ASSUME NEW t \in Task PROVE Settled(tasks[t], now, result) \in TaskRow
  <2>1. tasks[t] \in TaskRow
    BY DEF TypeOK
  <2>2. Backoff(tasks[t].attempt) \in Nat
    BY <2>1, BackoffIsNat DEF TaskRow
  <2>3. now + Backoff(tasks[t].attempt) \in Time
    BY <2>2 DEF Time
  <2> QED BY <2>1, <2>3 DEF Settled, TaskRow, TaskState, JobState, TERMINAL, Time
<1>2. tasks' \in [Task -> TaskRow]
  BY <1>1 DEF FinishRows, TypeOK
<1>3. attempts' \in [Task -> [AttemptNo -> AttemptRow]]
  <2>1. ASSUME NEW row \in AttemptRow, NEW state \in TERMINAL
        PROVE Closed(row, state, now) \in AttemptRow
    BY DEF Closed, AttemptRow, Time
  <2>2. \A t \in Task : attempts[t] \in [AttemptNo -> AttemptRow]
    BY DEF TypeOK
  <2> QED BY <2>1, <2>2 DEF FinishRows, TERMINAL
<1>4. ASSUME NEW j \in Job PROVE Refreshed(j, rows, now) \in JobRow
  <2>1. ASSUME NEW row \in JobRow, NEW state \in JobState
        PROVE JudgedAs(row, state, now) \in JobRow
    BY DEF JudgedAs, JobRow, Time
  <2> QED BY <2>1, RefreshedIsJobState DEF Refreshed, TypeOK
<1>5. jobs' \in [Job -> JobRow]
  BY <1>4 DEF FinishRows, TypeOK
<1> QED BY <1>2, <1>3, <1>5

(* The empty database is well typed. *)
LEMMA TypingInit == Init => TypeOK /\ CallsOK /\ AttemptBudget
BY StoreAssumption DEF Init, TypeOK, CallsOK, AttemptBudget, AbsentJob, AbsentTask,
  AbsentAttempt, IdleWorker, IdleClient, IdleCoordinator, JobRow, TaskRow, AttemptRow,
  WorkerCall, ClientCall, CoordinatorCall, Time, NoTime

(* A worker that begins or ends a call keeps a well-typed record of it. *)
LEMMA AtCallTyped ==
  ASSUME NEW call \in WorkerCall, NEW op \in {"own", "call"}, NEW now \in Time
  PROVE  AtCall(call, op, now) \in WorkerCall
BY DEF AtCall, WorkerCall

(* The calls that change nothing but who is calling. *)
CallsOnly ==
  \/ Tick
  \/ \E w \in Worker : \/ \E t \in Task : BeginClaim(w, t)
                      \/ BeginOwned(w) \/ ClaimIgnored(w) \/ FencedOut(w)
                      \/ WorkerRollback(w) \/ WorkerGone(w)
  \/ \E c \in Client :
       \/ \E request \in Request, key \in Key \cup {NoKey} : BeginSubmit(c, request, key)
       \/ \E j \in Job : BeginCancel(c, j)
       \/ SubmitExisting(c) \/ SubmitConflict(c) \/ SubmitOverCapacity(c)
       \/ SubmitKeyClash(c) \/ CancelRefused(c) \/ ClientRollback(c)
  \/ BeginCoordinator \/ CoordinatorRollback

(* Steps that only move calls and the clock keep the types. *)
LEMMA CallsOnlyTyped == ASSUME TypeOK, CallsOK, CallsOnly PROVE TypeOK'
<1> USE DEF TypeOK, db
<1>1. CASE Tick
  BY <1>1 DEF Tick
<1>2. ASSUME NEW w \in Worker, NEW t \in Task, BeginClaim(w, t) PROVE TypeOK'
  BY <1>2, StoreAssumption DEF BeginClaim, WorkerCall, Time
<1>3. ASSUME NEW w \in Worker, BeginOwned(w) PROVE TypeOK'
  <2>1. wcall' = [wcall EXCEPT ![w] = AtCall(@, "call", clock)] /\ UNCHANGED <<clock, db, ucall, ccall>>
    BY <1>3 DEF BeginOwned
  <2>2. wcall' \in [Worker -> WorkerCall]
    BY <2>1, AtCallTyped DEF Time
  <2> QED BY <2>1, <2>2
<1>4. ASSUME NEW w \in Worker, ClaimIgnored(w) \/ WorkerGone(w) PROVE TypeOK'
  <2>1. IdleWorker \in WorkerCall
    BY StoreAssumption DEF IdleWorker, WorkerCall, Time
  <2>2. wcall' = [wcall EXCEPT ![w] = IdleWorker] /\ UNCHANGED <<clock, db, ucall, ccall>>
    BY <1>4 DEF ClaimIgnored, WorkerGone
  <2> QED BY <2>1, <2>2
<1>5. ASSUME NEW w \in Worker, FencedOut(w) \/ WorkerRollback(w) PROVE TypeOK'
  <2>1. wcall' = [wcall EXCEPT ![w] = AtCall(@, "own", NoTime)] /\ UNCHANGED <<clock, db, ucall, ccall>>
    BY <1>5 DEF FencedOut, WorkerRollback, Returned
  <2>2. wcall' \in [Worker -> WorkerCall]
    BY <2>1, AtCallTyped DEF Time
  <2> QED BY <2>1, <2>2
<1>6. ASSUME NEW c \in Client, NEW request \in Request, NEW key \in Key \cup {NoKey},
             BeginSubmit(c, request, key)
      PROVE TypeOK'
  BY <1>6 DEF BeginSubmit, ClientCall, Time
<1>7. ASSUME NEW c \in Client, NEW j \in Job, BeginCancel(c, j) PROVE TypeOK'
  BY <1>7 DEF BeginCancel, ClientCall, Time
<1>8. ASSUME NEW c \in Client,
             \/ SubmitExisting(c) \/ SubmitConflict(c) \/ SubmitOverCapacity(c)
             \/ SubmitKeyClash(c) \/ CancelRefused(c) \/ ClientRollback(c)
      PROVE TypeOK'
  <2>1. \A reply \in {"none", "existing", "conflict", "capacity", "integrity", "refused"},
           j \in Job \cup {NoJob} : IdleClient(reply, j) \in ClientCall
    BY DEF IdleClient, ClientCall, Time
  <2>2. ucall[c].job \in Job \cup {NoJob}
    BY DEF ClientCall
  <2>3. \E reply \in {"none", "existing", "conflict", "capacity", "integrity", "refused"},
           j \in Job \cup {NoJob} : ucall' = [ucall EXCEPT ![c] = IdleClient(reply, j)]
    BY <1>8, <2>2 DEF SubmitExisting, SubmitConflict, SubmitOverCapacity, SubmitKeyClash,
      CancelRefused, ClientRollback, Reply, ByKey
  <2>4. UNCHANGED <<clock, db, wcall, ccall>>
    BY <1>8 DEF SubmitExisting, SubmitConflict, SubmitOverCapacity, SubmitKeyClash,
      CancelRefused, ClientRollback
  <2> QED BY <2>1, <2>3, <2>4
<1>9. CASE BeginCoordinator \/ CoordinatorRollback
  BY <1>9 DEF BeginCoordinator, CoordinatorRollback, IdleCoordinator, CoordinatorCall, Time
<1> QED BY <1>1, <1>2, <1>3, <1>4, <1>5, <1>6, <1>7, <1>8, <1>9, CallsOnly DEF CallsOnly

(* Every transaction that writes a table keeps the types; the number of an  *)
(* attempt stays in range because of AttemptBudget.                         *)
LEMMA WritesTyped == ASSUME TypeOK, CallsOK, AttemptBudget, Writes PROVE TypeOK'
<1> USE DEF TypeOK, db
<1>1. ASSUME NEW w \in Worker, Claim(w) PROVE TypeOK'
  <2> DEFINE t == wcall[w].task
             now == wcall[w].now
             number == tasks[t].attempt + 1
  <2>1. t \in Task /\ now \in Nat /\ number \in AttemptNo
    <3>1. t \in Task /\ now \in Nat
      BY <1>1 DEF Claim, CallsOK
    <3>2. tasks[t] \in TaskRow /\ tasks[t].state \in {"PENDING", "RETRYING"}
      BY <1>1, <3>1 DEF Claim, Claimable
    <3>3. tasks[t].attempt < MaxAttempts
      BY <3>1, <3>2, StoreAssumption DEF AttemptBudget
    <3> QED BY <3>1, <3>2, <3>3, StoreAssumption DEF AttemptNo, TaskRow
  <2>2. PICK token \in Token :
          /\ tasks' = [tasks EXCEPT ![t] = Claimed(tasks[t], token, now)]
          /\ attempts' = [attempts EXCEPT ![t] =
                            [attempts[t] EXCEPT ![number] = NewAttempt(token, now)]]
          /\ wcall' = [wcall EXCEPT ![w] = [op |-> "own", task |-> t, token |-> token,
                                           attempt |-> number, now |-> NoTime]]
    BY <1>1 DEF Claim, FreshTokens
  <2>3. Claimed(tasks[t], token, now) \in TaskRow
    <3>1. now + LeaseSeconds \in Time /\ number \in 0..MaxAttempts
      BY <2>1, StoreAssumption DEF Time, AttemptNo
    <3>2. ASSUME NEW row \in TaskRow, row.attempt + 1 \in 0..MaxAttempts
          PROVE  Claimed(row, token, now) \in TaskRow
      BY <3>1, <3>2 DEF Claimed, TaskRow, TaskState, JobState
    <3> QED BY <2>1, <3>1, <3>2
  <2>4. NewAttempt(token, now) \in AttemptRow
    BY <2>1 DEF NewAttempt, AttemptRow, Time
  <2>5. wcall' \in [Worker -> WorkerCall]
    BY <2>1, <2>2, StoreAssumption DEF WorkerCall, Time, AttemptNo
  <2>6. jobs' \in [Job -> JobRow]
    <3>1. \A row \in JobRow : [row EXCEPT !.state = "RUNNING"] \in JobRow
      BY DEF JobRow, JobState
    <3> QED BY <1>1, <2>1, <3>1, TaskHasJob DEF Claim
  <2> QED BY <1>1, <2>1, <2>2, <2>3, <2>4, <2>5, <2>6 DEF Claim
<1>2. ASSUME NEW w \in Worker, Heartbeat(w) PROVE TypeOK'
  <2> DEFINE t == wcall[w].task
  <2>1. t \in Task /\ wcall[w].now \in Nat /\ wcall[w].attempt \in 0..MaxAttempts
    BY <1>2 DEF Heartbeat, CallsOK, WorkerCall
  <2>2. wcall[w].now + LeaseSeconds \in Time
    BY <2>1, StoreAssumption DEF Time
  <2>4. \A row \in TaskRow : Renewed(row, wcall[w].now, wcall[w].attempt) \in TaskRow
    BY <2>1, <2>2 DEF Renewed, TaskRow
  <2>3. wcall' \in [Worker -> WorkerCall]
    BY <1>2, AtCallTyped DEF Heartbeat, Returned, Time
  <2> QED BY <1>2, <2>1, <2>3, <2>4 DEF Heartbeat
<1>3. ASSUME NEW w \in Worker, NEW result \in {0, wcall[w].attempt}, Finish(w, result)
      PROVE TypeOK'
  <2> DEFINE t == wcall[w].task
  <2>1. t \in Task /\ tasks[t].state = "RUNNING" /\ wcall[w].now \in Nat
    BY <1>3 DEF Finish, CallsOK, Holds
  <2>2. result \in 0..MaxAttempts
    BY StoreAssumption DEF WorkerCall
  <2>3. wcall' \in [Worker -> WorkerCall]
    BY <1>3, AtCallTyped DEF Finish, Returned, Time
  <2>4. {t} \in SUBSET {s \in Task : tasks[s].state = "RUNNING"}
    BY <2>1
  <2>5. FinishRows({t}, wcall[w].now, result)
    BY <1>3 DEF Finish
  <2> QED BY <1>3, <2>1, <2>2, <2>3, <2>4, <2>5, FinishRowsTyped DEF Finish
<1>4. CASE Recover
  <2>1. Expired(ccall.now) \in SUBSET {s \in Task : tasks[s].state = "RUNNING"}
    BY DEF Expired
  <2>2. ccall.now \in Nat /\ 0 \in 0..MaxAttempts
    BY <1>4, StoreAssumption DEF Recover, CallsOK
  <2> QED BY <1>4, <2>1, <2>2, FinishRowsTyped DEF Recover, IdleCoordinator, CoordinatorCall, Time
<1>5. CASE DispatchDue
  <2>1. ccall.now \in Nat
    BY <1>5 DEF DispatchDue, CallsOK
  <2>2. \A row \in TaskRow : Dispatched(row, ccall.now) \in TaskRow
    BY <2>1 DEF Dispatched, TaskRow
  <2> QED BY <1>5, <2>2 DEF DispatchDue, IdleCoordinator, CoordinatorCall, Time
<1>6. ASSUME NEW c \in Client, Cancel(c) PROVE TypeOK'
  <2> DEFINE j == ucall[c].job
             now == ucall[c].now
  <2>1. j \in Job /\ now \in Nat
    BY <1>6 DEF Cancel, CallsOK
  <2>2. JudgedAs(jobs[j], "CANCELLED", now) \in JobRow
    <3>1. \A row \in JobRow, time \in Nat : JudgedAs(row, "CANCELLED", time) \in JobRow
      BY DEF JudgedAs, JobRow, JobState, TERMINAL, Time
    <3> QED BY <2>1, <3>1
  <2>3. \A row \in AttemptRow : Closed(row, "CANCELLED", now) \in AttemptRow
    BY <2>1 DEF Closed, AttemptRow, TERMINAL, Time
  <2>4. \A row \in TaskRow : Withdrawn(row) \in TaskRow
    BY DEF Withdrawn, TaskRow, TaskState, JobState, TERMINAL, Time
  <2>5. tasks' \in [Task -> TaskRow]
    BY <1>6, <2>4 DEF Cancel
  <2>6. attempts' \in [Task -> [AttemptNo -> AttemptRow]]
    BY <1>6, <2>3 DEF Cancel
  <2>7. ucall' \in [Client -> ClientCall]
    BY <1>6, <2>1 DEF Cancel, Reply, IdleClient, ClientCall, Time
  <2> QED BY <1>6, <2>1, <2>2, <2>5, <2>6, <2>7 DEF Cancel
<1>7. ASSUME NEW c \in Client, NEW j \in Job, SubmitInsert(c, j) PROVE TypeOK'
  <2>1. ucall[c].now \in Nat /\ ucall[c].request \in Request /\ ucall[c].key \in Key \cup {NoKey}
    BY <1>7 DEF SubmitInsert, CallsOK, ClientCall
  <2>2. NewTask(ucall[c].now) \in TaskRow
    <3>1. AbsentTask \in TaskRow
      BY StoreAssumption DEF AbsentTask, TaskRow, Time
    <3> QED BY <2>1, <3>1 DEF NewTask, TaskRow, TaskState, JobState, Time
  <2>3. jobs' \in [Job -> JobRow]
    BY <1>7, <2>1 DEF SubmitInsert, JobRow, JobState, Time
  <2>4. ucall' \in [Client -> ClientCall]
    BY <1>7 DEF SubmitInsert, Reply, IdleClient, ClientCall, Time
  <2> QED BY <1>7, <2>2, <2>3, <2>4 DEF SubmitInsert
<1> QED BY <1>1, <1>2, <1>3, <1>4, <1>5, <1>6, <1>7, Writes DEF Writes
-----------------------------------------------------------------------------
(* One task: its row and the log of its attempts *)

(* The conjuncts of ClaimsMatchAttempts, AttemptBudget and SingleResult that *)
(* speak of one task, and what makes its tokens fences: no two attempts of  *)
(* it share one.                                                             *)
Matched(row, log) ==
  /\ (row.state = "RUNNING") <=> (row.token # NoToken)
  /\ (row.state = "RUNNING") <=> (row.lease # NoTime)
  /\ \A n \in AttemptNo :
       /\ (log[n].state = "ABSENT") <=> (n > row.attempt)
       /\ (log[n].state = "RUNNING") <=> (row.state = "RUNNING" /\ n = row.attempt)
       /\ log[n].state = "RUNNING" => log[n].token = row.token

Budgeted(row, log) ==
  /\ row.state \in {"ABSENT", "PENDING"} => row.attempt = 0
  /\ row.state = "RETRYING" => row.attempt \in 1..(MaxAttempts - 1)
  /\ row.state = "FAILED" => row.attempt = MaxAttempts
  /\ row.state \in {"RETRYING", "FAILED"} =>
       \A n \in 1..row.attempt : log[n].state = "FAILED"

(* A task runs or has run under an attempt, and all earlier ones failed:    *)
(* what Budgeted needs to be inductive.                                      *)
Retried(row, log) ==
  /\ row.state \in {"RUNNING", "COMPLETED"} => row.attempt \in AttemptNo
  /\ row.state = "RUNNING" =>
       \A n \in 1..(row.attempt - 1) : log[n].state = "FAILED"

Single(row, log) ==
  /\ row.result = IF row.state = "COMPLETED" THEN row.attempt ELSE 0
  /\ \A n \in AttemptNo : (log[n].state = "COMPLETED")
                          <=> (row.state = "COMPLETED" /\ n = row.attempt)

Fenced(row, log) ==
  /\ \A n \in 1..row.attempt : log[n].token \in Token
  /\ \A m, n \in 1..row.attempt : m # n => log[m].token # log[n].token

TaskInv(row, log) ==
  /\ Matched(row, log)
  /\ Budgeted(row, log)
  /\ Retried(row, log)
  /\ Single(row, log)
  /\ Fenced(row, log)

AllTasksInv == \A t \in Task : TaskInv(tasks[t], attempts[t])

(* The invariant on one task with its attempts, over all tasks, is the      *)
(* three invariants that the runs check.                                    *)
LEMMA TaskInvParts == AllTasksInv => ClaimsMatchAttempts /\ AttemptBudget /\ SingleResult
BY DEF AllTasksInv, TaskInv, Matched, Budgeted, Single, ClaimsMatchAttempts, AttemptBudget, SingleResult

(* Each operation on one task keeps TaskInv. *)
LEMMA ClaimedInv ==
  ASSUME NEW row \in TaskRow, NEW log \in [AttemptNo -> AttemptRow], TaskInv(row, log),
         row.state \in {"PENDING", "RETRYING"}, NEW now \in Nat,
         NEW token \in Token, token \notin {log[n].token : n \in AttemptNo}
  PROVE  TaskInv(Claimed(row, token, now),
                 [log EXCEPT ![row.attempt + 1] = NewAttempt(token, now)])
<1> DEFINE new == Claimed(row, token, now)
           newlog == [log EXCEPT ![row.attempt + 1] = NewAttempt(token, now)]
<1>1. row.attempt + 1 \in AttemptNo /\ row.attempt \in Nat
  BY StoreAssumption DEF TaskInv, Budgeted, AttemptNo, TaskRow
<1>2. /\ new.state = "RUNNING" /\ new.token = token /\ new.lease = now + LeaseSeconds
      /\ new.attempt = row.attempt + 1 /\ new.result = row.result
  BY DEF Claimed, TaskRow
<1>3. /\ newlog[row.attempt + 1].state = "RUNNING" /\ newlog[row.attempt + 1].token = token
      /\ \A n \in AttemptNo : n # row.attempt + 1 => newlog[n] = log[n]
  BY <1>1 DEF NewAttempt
<1>4. new.lease # NoTime /\ token # NoToken
  BY <1>2, StoreAssumption DEF NoTime
<1> HIDE DEF new, newlog
<1>5. Matched(new, newlog)
  BY SMTT(20), <1>1, <1>2, <1>3, <1>4, StoreAssumption DEF TaskInv, Matched, AttemptNo
<1>6. Budgeted(new, newlog)
  BY <1>2 DEF Budgeted
<1>7. Retried(new, newlog)
  <2>1. ASSUME NEW n \in 1..row.attempt PROVE log[n].state = "FAILED"
    BY <1>1, <2>1 DEF TaskInv, Budgeted
  <2>2. ASSUME NEW n \in 1..row.attempt
        PROVE  n \in AttemptNo /\ n # row.attempt + 1
    BY <1>1, StoreAssumption DEF AttemptNo
  <2>3. \A n \in 1..row.attempt : newlog[n].state = "FAILED"
    BY <1>3, <2>1, <2>2
  <2>4. new.attempt - 1 = row.attempt /\ new.attempt \in AttemptNo
    BY <1>1, <1>2
  <2> QED BY <2>3, <2>4 DEF Retried
<1>8. Single(new, newlog)
  BY <1>1, <1>2, <1>3 DEF TaskInv, Single
<1>9. Fenced(new, newlog)
  BY <1>1, <1>2, <1>3, StoreAssumption DEF TaskInv, Fenced, AttemptNo
<1> QED BY <1>5, <1>6, <1>7, <1>8, <1>9 DEF TaskInv, new, newlog

(* A heartbeat keeps the invariant of its task. *)
LEMMA RenewedInv ==
  ASSUME NEW row \in TaskRow, NEW log, TaskInv(row, log), row.state = "RUNNING",
         NEW now \in Nat, NEW progress
  PROVE  TaskInv(Renewed(row, now, progress), log)
<1> DEFINE new == Renewed(row, now, progress)
<1>1. /\ new.state = "RUNNING" /\ new.token = row.token /\ new.attempt = row.attempt
      /\ new.result = row.result /\ new.lease = now + LeaseSeconds
  BY DEF Renewed, TaskRow
<1>2. new.lease # NoTime
  BY <1>1, StoreAssumption DEF NoTime
<1> HIDE DEF new
<1> QED BY <1>1, <1>2 DEF TaskInv, Matched, Budgeted, Retried, Single, Fenced, new

(* A dispatch keeps the invariant of its task. *)
LEMMA DispatchedInv ==
  ASSUME NEW row \in TaskRow, NEW log, TaskInv(row, log), NEW now
  PROVE  TaskInv(Dispatched(row, now), log)
<1> DEFINE new == Dispatched(row, now)
<1>1. /\ new.state = row.state /\ new.token = row.token /\ new.attempt = row.attempt
      /\ new.result = row.result /\ new.lease = row.lease
  BY DEF Dispatched, TaskRow
<1> HIDE DEF new
<1> QED BY <1>1 DEF TaskInv, Matched, Budgeted, Retried, Single, Fenced, new

(* _finish on a running task, with a result or an error, keeps the          *)
(* invariant of that task: its last attempt is closed.                      *)
LEMMA SettledInv ==
  ASSUME NEW row \in TaskRow, NEW log \in [AttemptNo -> AttemptRow], TaskInv(row, log),
         row.state = "RUNNING", NEW now \in Nat, NEW result \in {0, row.attempt}
  PROVE  TaskInv(Settled(row, now, result),
                 [log EXCEPT ![row.attempt] =
                   Closed(@, IF result # 0 THEN "COMPLETED" ELSE "FAILED", now)])
<1> DEFINE new == Settled(row, now, result)
           outcome == IF result # 0 THEN "COMPLETED" ELSE "FAILED"
           newlog == [log EXCEPT ![row.attempt] = Closed(@, outcome, now)]
<1>1. row.attempt \in AttemptNo /\ row.attempt \in Nat \ {0}
  BY DEF TaskInv, Retried, AttemptNo
<1>2. /\ new.state = IF result # 0 THEN "COMPLETED"
                     ELSE IF row.attempt >= MaxAttempts THEN "FAILED" ELSE "RETRYING"
      /\ new.token = NoToken /\ new.lease = NoTime
      /\ new.attempt = row.attempt /\ new.result = result
  BY DEF Settled, TaskRow
<1>3. /\ newlog[row.attempt].state = outcome
      /\ newlog[row.attempt].token = log[row.attempt].token
      /\ \A n \in AttemptNo : n # row.attempt => newlog[n] = log[n]
  BY <1>1 DEF Closed, AttemptRow
<1> HIDE DEF new, newlog
<1>4. \A n \in 1..(row.attempt - 1) : newlog[n].state = "FAILED"
  BY <1>1, <1>3, StoreAssumption DEF TaskInv, Retried, AttemptNo
<1>5. Matched(new, newlog)
  BY <1>1, <1>2, <1>3 DEF TaskInv, Matched
<1>6. Budgeted(new, newlog)
  BY <1>1, <1>2, <1>3, <1>4, StoreAssumption DEF Budgeted, AttemptNo
<1>7. Retried(new, newlog)
  BY <1>1, <1>2 DEF Retried
<1>8. Single(new, newlog)
  BY <1>1, <1>2, <1>3 DEF TaskInv, Single
<1>9. Fenced(new, newlog)
  BY <1>1, <1>2, <1>3, StoreAssumption DEF TaskInv, Fenced, AttemptNo
<1> QED BY <1>5, <1>6, <1>7, <1>8, <1>9 DEF TaskInv, new, newlog

(* A cancellation keeps the invariant of each task that it withdraws. *)
LEMMA WithdrawnInv ==
  ASSUME NEW row \in TaskRow, NEW log \in [AttemptNo -> AttemptRow], TaskInv(row, log),
         Open(row), NEW now \in Nat
  PROVE  TaskInv(Withdrawn(row),
                 [n \in AttemptNo |-> IF log[n].state = "RUNNING"
                                     THEN Closed(log[n], "CANCELLED", now) ELSE log[n]])
<1> DEFINE new == Withdrawn(row)
           newlog == [n \in AttemptNo |-> IF log[n].state = "RUNNING"
                                         THEN Closed(log[n], "CANCELLED", now) ELSE log[n]]
<1>1. /\ new.state = "CANCELLED" /\ new.token = NoToken /\ new.lease = NoTime
      /\ new.attempt = row.attempt /\ new.result = row.result
  BY DEF Withdrawn, TaskRow
<1>2. \A n \in AttemptNo :
        /\ newlog[n].token = log[n].token
        /\ newlog[n].state = IF log[n].state = "RUNNING" THEN "CANCELLED" ELSE log[n].state
  BY DEF Closed, AttemptRow
<1>3. row.state # "COMPLETED" /\ row.attempt \in 0..MaxAttempts
  BY DEF Open, TERMINAL, TaskRow
<1> HIDE DEF new, newlog
<1>4. Matched(new, newlog)
  BY <1>1, <1>2 DEF TaskInv, Matched
<1>5. Budgeted(new, newlog) /\ Retried(new, newlog)
  BY <1>1 DEF Budgeted, Retried
<1>6. Single(new, newlog)
  BY <1>1, <1>2, <1>3 DEF TaskInv, Single
<1>7. Fenced(new, newlog)
  BY <1>1, <1>2, <1>3, StoreAssumption DEF TaskInv, Fenced, AttemptNo
<1> QED BY <1>4, <1>5, <1>6, <1>7 DEF TaskInv, new, newlog

(* A freshly inserted task satisfies the invariant. *)
LEMMA NewTaskInv ==
  ASSUME NEW row \in TaskRow, NEW log, TaskInv(row, log), row.state = "ABSENT", NEW now
  PROVE  TaskInv(NewTask(now), log)
<1> DEFINE new == NewTask(now)
<1>1. /\ new.state = "PENDING" /\ new.token = NoToken /\ new.lease = NoTime
      /\ new.attempt = 0 /\ new.result = 0
  BY DEF NewTask, AbsentTask
<1>2. row.attempt = 0
  BY DEF TaskInv, Budgeted
<1> HIDE DEF new
<1> QED BY <1>1, <1>2 DEF TaskInv, Matched, Budgeted, Retried, Single, Fenced, new
-----------------------------------------------------------------------------
(* All tasks *)

(* Every task row belongs to a job row. *)
JobsKnown == \A t \in Task : tasks[t].state # "ABSENT" => jobs[JobOf(t)].state # "ABSENT"

TablesInv == TypeOK /\ CallsOK /\ AllTasksInv /\ JobsKnown

(* What the transaction of a claim holder may rely on: when the fence lets  *)
(* it through, the attempt it made is the last one of its task.             *)
LEMMA HolderIsLast ==
  ASSUME TablesInv, NEW w \in Worker, wcall[w].op = "call", NEW now,
         Holds(tasks[wcall[w].task], wcall[w].token, now)
  PROVE  /\ wcall[w].task \in Task
         /\ tasks[wcall[w].task].state = "RUNNING"
         /\ wcall[w].now \in Nat
         /\ wcall[w].attempt = tasks[wcall[w].task].attempt
<1> DEFINE t == wcall[w].task
           row == tasks[t]
           log == attempts[t]
<1>1. t \in Task /\ wcall[w].now \in Nat
  BY DEF TablesInv, CallsOK, TypeOK
<1>2. row.state = "RUNNING" /\ row.token = wcall[w].token
  BY DEF Holds
<1>3. wcall[w].attempt \in 1..row.attempt /\ log[wcall[w].attempt].token = wcall[w].token
  BY DEF TablesInv, CallsOK
<1>4. TaskInv(row, log)
  BY <1>1 DEF TablesInv, AllTasksInv
<1> HIDE DEF t, row, log
<1>5. row.attempt \in AttemptNo /\ row.attempt \in 1..row.attempt
  BY <1>2, <1>4, StoreAssumption DEF TaskInv, Retried, AttemptNo
<1>6. log[row.attempt].token = wcall[w].token
  BY <1>2, <1>4, <1>5 DEF TaskInv, Matched
<1>7. wcall[w].attempt = row.attempt
  BY <1>3, <1>4, <1>5, <1>6 DEF TaskInv, Fenced
<1> QED BY <1>1, <1>2, <1>7 DEF t, row, log

(* _finish on any set of running tasks, as recovery does, keeps the         *)
(* invariant of every task.                                                 *)
LEMMA FinishRowsInv ==
  ASSUME TablesInv, NEW S \in SUBSET {t \in Task : tasks[t].state = "RUNNING"},
         NEW now \in Nat, NEW result, \A t \in S : result \in {0, tasks[t].attempt},
         FinishRows(S, now, result)
  PROVE  AllTasksInv'
<1> SUFFICES ASSUME NEW t \in Task PROVE TaskInv(tasks'[t], attempts'[t])
  BY DEF AllTasksInv
<1>1. /\ tasks[t] \in TaskRow /\ attempts[t] \in [AttemptNo -> AttemptRow]
      /\ TaskInv(tasks[t], attempts[t])
  BY DEF TablesInv, TypeOK, AllTasksInv
<1>2. CASE t \notin S
  BY <1>1, <1>2 DEF FinishRows
<1>3. CASE t \in S
  BY <1>1, <1>3, SettledInv DEF FinishRows
<1> QED BY <1>2, <1>3

(* Every transaction keeps the invariant of every task. *)
LEMMA WritesKeepTasks == ASSUME TablesInv, Writes PROVE AllTasksInv'
<1>1. ASSUME NEW w \in Worker, Claim(w) PROVE AllTasksInv'
  <2> DEFINE t == wcall[w].task
             now == wcall[w].now
  <2>1. /\ t \in Task /\ now \in Nat /\ tasks[t].state \in {"PENDING", "RETRYING"}
    BY <1>1 DEF Claim, TablesInv, CallsOK, TypeOK, Claimable
  <2>2. PICK token \in FreshTokens(t) :
          /\ tasks' = [tasks EXCEPT ![t] = Claimed(tasks[t], token, now)]
          /\ attempts' = [attempts EXCEPT ![t] =
                   [attempts[t] EXCEPT ![tasks[t].attempt + 1] = NewAttempt(token, now)]]
    BY <1>1 DEF Claim
  <2>3. token \in Token /\ token \notin {attempts[t][n].token : n \in AttemptNo}
    BY DEF FreshTokens
  <2>4. \A s \in Task : s # t => tasks'[s] = tasks[s] /\ attempts'[s] = attempts[s]
    BY <2>2 DEF TablesInv, TypeOK
  <2>5. /\ tasks[t] \in TaskRow /\ attempts[t] \in [AttemptNo -> AttemptRow]
        /\ TaskInv(tasks[t], attempts[t])
    BY <2>1 DEF TablesInv, TypeOK, AllTasksInv
  <2>6. TaskInv(tasks'[t], attempts'[t])
    BY <2>1, <2>2, <2>3, <2>5, ClaimedInv DEF TablesInv, TypeOK
  <2> QED BY <2>4, <2>6 DEF TablesInv, AllTasksInv
<1>2. ASSUME NEW w \in Worker, Heartbeat(w) PROVE AllTasksInv'
  <2> DEFINE t == wcall[w].task
  <2>1. t \in Task /\ wcall[w].now \in Nat /\ tasks[t].state = "RUNNING"
    BY <1>2, HolderIsLast DEF Heartbeat
  <2>2. TaskInv(Renewed(tasks[t], wcall[w].now, wcall[w].attempt), attempts[t])
    BY <2>1, RenewedInv DEF TablesInv, TypeOK, AllTasksInv
  <2> QED BY <1>2, <2>1, <2>2 DEF Heartbeat, TablesInv, TypeOK, AllTasksInv
<1>3. ASSUME NEW w \in Worker, NEW result \in {0, wcall[w].attempt}, Finish(w, result)
      PROVE AllTasksInv'
  <2> DEFINE t == wcall[w].task
  <2>1. /\ t \in Task /\ wcall[w].now \in Nat /\ tasks[t].state = "RUNNING"
        /\ wcall[w].attempt = tasks[t].attempt
    BY <1>3, HolderIsLast DEF Finish
  <2> QED BY <1>3, <2>1, FinishRowsInv DEF Finish
<1>4. CASE Recover
  <2>1. ccall.now \in Nat
    BY <1>4 DEF Recover, TablesInv, CallsOK, TypeOK
  <2> QED BY <1>4, <2>1, FinishRowsInv DEF Recover, Expired
<1>5. CASE DispatchDue
  BY <1>5, DispatchedInv DEF DispatchDue, TablesInv, TypeOK, AllTasksInv
<1>6. ASSUME NEW c \in Client, Cancel(c) PROVE AllTasksInv'
  <2> SUFFICES ASSUME NEW t \in Task PROVE TaskInv(tasks'[t], attempts'[t])
    BY DEF AllTasksInv
  <2> DEFINE j == ucall[c].job
             now == ucall[c].now
  <2>1. now \in Nat
    BY <1>6 DEF Cancel, TablesInv, CallsOK, TypeOK
  <2>2. /\ tasks[t] \in TaskRow /\ attempts[t] \in [AttemptNo -> AttemptRow]
        /\ TaskInv(tasks[t], attempts[t])
    BY DEF TablesInv, TypeOK, AllTasksInv
  <2>3. /\ tasks'[t] = IF JobOf(t) = j /\ Open(tasks[t]) THEN Withdrawn(tasks[t]) ELSE tasks[t]
        /\ attempts'[t] = [n \in AttemptNo |->
             IF JobOf(t) = j /\ attempts[t][n].state = "RUNNING"
             THEN Closed(attempts[t][n], "CANCELLED", now) ELSE attempts[t][n]]
    BY <1>6 DEF Cancel
  <2>4. CASE JobOf(t) # j
    BY <2>2, <2>3, <2>4
  <2>5. CASE JobOf(t) = j /\ Open(tasks[t])
    <3>1. attempts'[t] = [n \in AttemptNo |->
             IF attempts[t][n].state = "RUNNING"
             THEN Closed(attempts[t][n], "CANCELLED", now) ELSE attempts[t][n]]
      BY <2>3, <2>5
    <3> QED BY <2>1, <2>2, <2>3, <2>5, <3>1, WithdrawnInv
  <2>6. CASE JobOf(t) = j /\ ~ Open(tasks[t])
    <3>1. \A n \in AttemptNo : attempts[t][n].state # "RUNNING"
      BY <2>2, <2>6 DEF Open, TERMINAL, TaskInv, Matched
    <3>2. attempts'[t] = attempts[t]
      BY <2>2, <2>3, <3>1
    <3> QED BY <2>2, <2>3, <2>6, <3>2
  <2> QED BY <2>4, <2>5, <2>6
<1>7. ASSUME NEW c \in Client, NEW j \in Job, SubmitInsert(c, j) PROVE AllTasksInv'
  <2>1. \A t \in Task : JobOf(t) = j => tasks[t].state = "ABSENT"
    BY <1>7 DEF SubmitInsert, TablesInv, JobsKnown
  <2> QED BY <1>7, <2>1, NewTaskInv DEF SubmitInsert, TablesInv, TypeOK, AllTasksInv
<1> QED BY <1>1, <1>2, <1>3, <1>4, <1>5, <1>6, <1>7 DEF Writes
-----------------------------------------------------------------------------
(* Calls and claims *)

(* No two workers hold the same attempt of a task. *)
Holding(w) == wcall[w].op \in {"own", "call"}
DistinctClaims ==
  \A v, w \in Worker :
    Holding(v) /\ Holding(w) /\ v # w /\ wcall[v].task = wcall[w].task
    => wcall[v].attempt # wcall[w].attempt

(* No transaction forgets an attempt, its token or a job. *)
KeepsHistory ==
  /\ \A t \in Task : \A n \in 1..tasks[t].attempt :
       n \in 1..tasks'[t].attempt /\ attempts'[t][n].token = attempts[t][n].token
  /\ \A j \in Job : jobs[j].state # "ABSENT" => jobs'[j].state # "ABSENT"
  /\ clock' = clock

(* _finish forgets no attempt and no job. *)
LEMMA FinishRowsHistory ==
  ASSUME TablesInv, NEW S \in SUBSET {t \in Task : tasks[t].state = "RUNNING"},
         NEW now, NEW result, FinishRows(S, now, result), clock' = clock
  PROVE  KeepsHistory
<1>1. ASSUME NEW t \in Task, NEW n \in 1..tasks[t].attempt
      PROVE  n \in 1..tasks'[t].attempt /\ attempts'[t][n].token = attempts[t][n].token
  <2>1. tasks[t] \in TaskRow /\ attempts[t] \in [AttemptNo -> AttemptRow] /\ n \in AttemptNo
    BY StoreAssumption DEF TablesInv, TypeOK, TaskRow, AttemptNo
  <2>2. Settled(tasks[t], now, result).attempt = tasks[t].attempt
    BY <2>1 DEF Settled, TaskRow
  <2>3. \A row \in AttemptRow : \A state : Closed(row, state, now).token = row.token
    BY DEF Closed, AttemptRow
  <2> QED BY <2>1, <2>2, <2>3 DEF FinishRows
<1>2. ASSUME NEW j \in Job, jobs[j].state # "ABSENT" PROVE jobs'[j].state # "ABSENT"
  <2>1. \A rows : RefreshedState(rows) # "ABSENT"
    BY DEF RefreshedState
  <2>2. jobs[j] \in JobRow
    BY DEF TablesInv, TypeOK
  <2>3. \A rows : Refreshed(j, rows, now).state # "ABSENT"
    BY <2>1, <2>2 DEF Refreshed, JudgedAs, JobRow
  <2> QED BY <1>2, <2>3 DEF FinishRows
<1> QED BY <1>1, <1>2 DEF KeepsHistory

(* No transaction forgets an attempt, its token or a job. *)
LEMMA WritesKeepHistory == ASSUME TablesInv, Writes PROVE KeepsHistory
<1>1. ASSUME NEW w \in Worker, Claim(w) PROVE KeepsHistory
  <2> DEFINE t == wcall[w].task
  <2>1. t \in Task /\ JobOf(t) \in Job
    BY <1>1, TaskHasJob DEF Claim, TablesInv, CallsOK
  <2>2. tasks[t] \in TaskRow /\ attempts[t] \in [AttemptNo -> AttemptRow]
    BY <2>1 DEF TablesInv, TypeOK
  <2>3. PICK token : /\ tasks' = [tasks EXCEPT ![t] = Claimed(tasks[t], token, wcall[w].now)]
                     /\ attempts' = [attempts EXCEPT ![t] =
                          [attempts[t] EXCEPT ![tasks[t].attempt + 1] = NewAttempt(token, wcall[w].now)]]
    BY <1>1 DEF Claim
  <2>4. Claimed(tasks[t], token, wcall[w].now).attempt = tasks[t].attempt + 1
    BY <2>2 DEF Claimed, TaskRow
  <2>5. \A s \in Task : tasks[s].attempt \in Nat
    BY StoreAssumption DEF TablesInv, TypeOK, TaskRow
  <2>6. ASSUME NEW s \in Task, NEW n \in 1..tasks[s].attempt
        PROVE  n \in 1..tasks'[s].attempt /\ attempts'[s][n].token = attempts[s][n].token
    BY <2>1, <2>2, <2>3, <2>4, <2>5 DEF TablesInv, TypeOK
  <2>7. \A j \in Job : jobs[j].state # "ABSENT" => jobs'[j].state # "ABSENT"
    BY <1>1, <2>1 DEF Claim, TablesInv, TypeOK, JobRow
  <2> QED BY <1>1, <2>6, <2>7 DEF Claim, KeepsHistory
<1>2. ASSUME NEW w \in Worker, Heartbeat(w) PROVE KeepsHistory
  <2>1. wcall[w].task \in Task
    BY <1>2 DEF Heartbeat, TablesInv, CallsOK
  <2>2. \A row \in TaskRow : Renewed(row, wcall[w].now, wcall[w].attempt).attempt = row.attempt
    BY DEF Renewed, TaskRow
  <2> QED BY <1>2, <2>1, <2>2 DEF Heartbeat, KeepsHistory, TablesInv, TypeOK
<1>3. ASSUME NEW w \in Worker, NEW result \in {0, wcall[w].attempt}, Finish(w, result)
      PROVE KeepsHistory
  <2>1. wcall[w].task \in Task /\ tasks[wcall[w].task].state = "RUNNING"
    BY <1>3, HolderIsLast DEF Finish
  <2> QED BY <1>3, <2>1, FinishRowsHistory DEF Finish
<1>4. CASE Recover
  BY <1>4, FinishRowsHistory DEF Recover, Expired
<1>5. CASE DispatchDue
  <2>1. \A row \in TaskRow : Dispatched(row, ccall.now).attempt = row.attempt
    BY DEF Dispatched, TaskRow
  <2> QED BY <1>5, <2>1 DEF DispatchDue, KeepsHistory, TablesInv, TypeOK
<1>6. ASSUME NEW c \in Client, Cancel(c) PROVE KeepsHistory
  <2>1. \A row \in TaskRow : Withdrawn(row).attempt = row.attempt
    BY DEF Withdrawn, TaskRow
  <2>2. \A row \in AttemptRow : Closed(row, "CANCELLED", ucall[c].now).token = row.token
    BY DEF Closed, AttemptRow
  <2>3. \A row \in JobRow : JudgedAs(row, "CANCELLED", ucall[c].now).state = "CANCELLED"
    BY DEF JudgedAs, JobRow
  <2>4. \A t \in Task : 1..tasks[t].attempt \subseteq AttemptNo
    BY StoreAssumption DEF TablesInv, TypeOK, TaskRow, AttemptNo
  <2> QED BY <1>6, <2>1, <2>2, <2>3, <2>4 DEF Cancel, KeepsHistory, TablesInv, TypeOK
<1>7. ASSUME NEW c \in Client, NEW j \in Job, SubmitInsert(c, j) PROVE KeepsHistory
  <2>1. \A t \in Task : JobOf(t) = j => tasks[t].attempt = 0
    BY <1>7 DEF SubmitInsert, TablesInv, JobsKnown, AllTasksInv, TaskInv, Budgeted
  <2> QED BY <1>7, <2>1 DEF SubmitInsert, KeepsHistory, TablesInv, TypeOK
<1> QED BY <1>1, <1>2, <1>3, <1>4, <1>5, <1>6, <1>7 DEF Writes

(* What CallsOK asks of one worker, one client and the coordinator. *)
WorkerCallOK(call) ==
  /\ call.op # "idle" => call.task \in Task
  /\ call.op \in {"claim", "call"} => call.now \in 0..clock
  /\ call.op \in {"idle", "claim"} => call.token = NoToken
  /\ call.op \in {"own", "call"} =>
       /\ call.token \in Token
       /\ call.attempt \in 1..tasks[call.task].attempt
       /\ attempts[call.task][call.attempt].token = call.token

ClientCallOK(call) ==
  /\ call.op # "idle" => call.now \in 0..clock
  /\ call.op = "submit" => call.request \in Request
  /\ call.op = "cancel" => call.job \in Job /\ jobs[call.job].state # "ABSENT"

(* The condition on calls, worker by worker and client by client. *)
LEMMA CallsOKParts ==
  /\ CallsOK <=> /\ \A w \in Worker : WorkerCallOK(wcall[w])
                 /\ \A c \in Client : ClientCallOK(ucall[c])
                 /\ ccall.op = "call" => ccall.now \in 0..clock
  /\ CallsOK' <=> /\ \A w \in Worker : WorkerCallOK(wcall[w])'
                  /\ \A c \in Client : ClientCallOK(ucall[c])'
                  /\ ccall'.op = "call" => ccall'.now \in 0..clock'
BY DEF CallsOK, WorkerCallOK, ClientCallOK

(* A call that was all right stays so while the tables keep their history. *)
LEMMA CallsStayOK ==
  ASSUME TypeOK, CallsOK, KeepsHistory
  PROVE  /\ \A w \in Worker : wcall'[w] = wcall[w] => WorkerCallOK(wcall[w])'
         /\ \A c \in Client : ucall'[c] = ucall[c] => ClientCallOK(ucall[c])'
         /\ ccall' = ccall => (ccall'.op = "call" => ccall'.now \in 0..clock')
<1>1. ASSUME NEW w \in Worker, wcall'[w] = wcall[w] PROVE WorkerCallOK(wcall[w])'
  BY <1>1, CallsOKParts DEF WorkerCallOK, KeepsHistory
<1>2. ASSUME NEW c \in Client, ucall'[c] = ucall[c] PROVE ClientCallOK(ucall[c])'
  BY <1>2, CallsOKParts DEF ClientCallOK, KeepsHistory
<1>3. ccall' = ccall => (ccall'.op = "call" => ccall'.now \in 0..clock')
  BY CallsOKParts DEF KeepsHistory
<1> QED BY <1>1, <1>2, <1>3

(* A worker whose call ends keeps its claim and nothing else changes. *)
LEMMA WorkerReturns ==
  ASSUME TypeOK, CallsOK, KeepsHistory, NEW w \in Worker, wcall[w].op = "call", Returned(w)
  PROVE  /\ \A v \in Worker : WorkerCallOK(wcall[v])'
         /\ DistinctClaims => DistinctClaims'
<1>1. wcall[w] \in WorkerCall /\ WorkerCallOK(wcall[w])
  BY CallsOKParts DEF TypeOK
<1>2. /\ wcall'[w].op = "own" /\ wcall'[w].task = wcall[w].task
      /\ wcall'[w].token = wcall[w].token /\ wcall'[w].attempt = wcall[w].attempt
      /\ \A v \in Worker : v # w => wcall'[v] = wcall[v]
  BY <1>1 DEF Returned, AtCall, WorkerCall, TypeOK
<1>3. WorkerCallOK(wcall[w])'
  BY <1>1, <1>2 DEF WorkerCallOK, KeepsHistory
<1>4. \A v \in Worker : WorkerCallOK(wcall[v])'
  BY <1>2, <1>3, CallsStayOK
<1>5. DistinctClaims => DistinctClaims'
  BY <1>1, <1>2 DEF DistinctClaims, Holding
<1> QED BY <1>4, <1>5

(* Every transaction keeps what is known of the calls, and no two workers   *)
(* ever hold the same claim.                                                *)
LEMMA WritesKeepCalls ==
  ASSUME TablesInv, DistinctClaims, Writes
  PROVE  CallsOK' /\ DistinctClaims'
<1>1. TypeOK /\ CallsOK /\ KeepsHistory
  BY WritesKeepHistory DEF TablesInv
<1>2. ASSUME NEW w \in Worker, Claim(w) PROVE CallsOK' /\ DistinctClaims'
  <2> DEFINE t == wcall[w].task
             number == tasks[t].attempt + 1
  <2>1. t \in Task
    BY <1>1, <1>2 DEF Claim, CallsOK
  <2>2. PICK token \in Token :
          /\ tasks' = [tasks EXCEPT ![t] = Claimed(tasks[t], token, wcall[w].now)]
          /\ attempts' = [attempts EXCEPT ![t] =
                            [attempts[t] EXCEPT ![number] = NewAttempt(token, wcall[w].now)]]
          /\ wcall' = [wcall EXCEPT ![w] = [op |-> "own", task |-> t, token |-> token,
                                           attempt |-> number, now |-> NoTime]]
    BY <1>2 DEF Claim, FreshTokens
  <2>3. number \in AttemptNo
    BY <1>2, <2>1, StoreAssumption
    DEF Claim, Claimable, TablesInv, AllTasksInv, TaskInv, Budgeted, AttemptNo
  <2>4. tasks'[t].attempt = number /\ attempts'[t][number].token = token
    BY <1>1, <2>1, <2>2, <2>3 DEF Claimed, NewAttempt, TypeOK, TaskRow
  <2>5. /\ wcall'[w] = [op |-> "own", task |-> t, token |-> token, attempt |-> number, now |-> NoTime]
        /\ \A v \in Worker : v # w => wcall'[v] = wcall[v]
    BY <1>1, <2>2 DEF TypeOK
  <2>6. WorkerCallOK(wcall[w])'
    BY <2>1, <2>3, <2>4, <2>5 DEF WorkerCallOK, AttemptNo
  <2>7. UNCHANGED <<ucall, ccall>>
    BY <1>2 DEF Claim
  <2>8. CallsOK'
    BY <1>1, <2>5, <2>6, <2>7, CallsStayOK, CallsOKParts
  <2>9. \A v \in Worker : Holding(v) /\ wcall[v].task = t => wcall[v].attempt < number
    <3>1. ASSUME NEW v \in Worker, Holding(v), wcall[v].task = t
          PROVE  wcall[v].attempt \in 1..tasks[t].attempt
      BY <1>1, <3>1 DEF CallsOK, Holding
    <3>2. tasks[t].attempt \in Nat
      BY <1>1, <2>1, StoreAssumption DEF TypeOK, TaskRow
    <3> QED BY <3>1, <3>2
  <2>10. DistinctClaims'
    BY <2>3, <2>5, <2>9 DEF DistinctClaims, Holding, AttemptNo
  <2> QED BY <2>8, <2>10
<1>3. ASSUME NEW w \in Worker,
             Heartbeat(w) \/ \E result \in {0, wcall[w].attempt} : Finish(w, result)
      PROVE CallsOK' /\ DistinctClaims'
  <2>1. wcall[w].op = "call" /\ Returned(w) /\ UNCHANGED <<ucall, ccall>>
    BY <1>3 DEF Heartbeat, Finish
  <2> QED BY <1>1, <2>1, WorkerReturns, CallsStayOK, CallsOKParts
<1>4. CASE Recover \/ DispatchDue
  <2>1. UNCHANGED <<wcall, ucall>> /\ ccall'.op = "idle"
    BY <1>4 DEF Recover, DispatchDue, IdleCoordinator
  <2> QED BY <1>1, <2>1, CallsStayOK, CallsOKParts DEF DistinctClaims, Holding
<1>5. ASSUME NEW c \in Client, Cancel(c) \/ \E j \in Job : SubmitInsert(c, j)
      PROVE CallsOK' /\ DistinctClaims'
  <2>1. PICK reply, j : Reply(c, reply, j) /\ UNCHANGED <<wcall, ccall>>
    BY <1>5 DEF Cancel, SubmitInsert
  <2>2. ucall'[c].op = "idle" /\ \A d \in Client : d # c => ucall'[d] = ucall[d]
    BY <1>1, <2>1 DEF Reply, IdleClient, TypeOK
  <2>3. ClientCallOK(ucall[c])'
    BY <2>2 DEF ClientCallOK
  <2> QED BY <1>1, <2>1, <2>2, <2>3, CallsStayOK, CallsOKParts DEF DistinctClaims, Holding
<1> QED BY <1>2, <1>3, <1>4, <1>5 DEF Writes

(* Steps that only move calls and the clock keep what is known of the       *)
(* calls.                                                                   *)
LEMMA CallsOnlyKeepCalls ==
  ASSUME TypeOK, CallsOK, DistinctClaims, CallsOnly
  PROVE  CallsOK' /\ DistinctClaims'
<1>1. CASE Tick
  BY <1>1 DEF Tick, db, TypeOK, CallsOK, DistinctClaims, Holding
<1>2. ASSUME ~ Tick PROVE KeepsHistory
  <2>1. UNCHANGED <<clock, db>>
    BY <1>2 DEF CallsOnly, BeginClaim, BeginOwned, ClaimIgnored, FencedOut, WorkerRollback,
      WorkerGone, BeginSubmit, BeginCancel, SubmitExisting, SubmitConflict, SubmitOverCapacity,
      SubmitKeyClash, CancelRefused, ClientRollback, BeginCoordinator, CoordinatorRollback
  <2> QED BY <2>1 DEF KeepsHistory, db
<1>3. ASSUME NEW w \in Worker, UNCHANGED <<ucall, ccall>>, ~ Tick,
             WorkerCallOK(wcall[w])',
             Holding(w)' => /\ Holding(w) /\ wcall'[w].task = wcall[w].task
                            /\ wcall'[w].attempt = wcall[w].attempt,
             \A v \in Worker : v # w => wcall'[v] = wcall[v]
      PROVE CallsOK' /\ DistinctClaims'
  <2>1. CallsOK'
    BY <1>2, <1>3, CallsStayOK, CallsOKParts
  <2>2. DistinctClaims'
    BY <1>3 DEF DistinctClaims, Holding
  <2> QED BY <2>1, <2>2
<1>4. ASSUME NEW w \in Worker, NEW t \in Task, BeginClaim(w, t), ~ Tick
      PROVE CallsOK' /\ DistinctClaims'
  <2>1. /\ wcall'[w] = [op |-> "claim", task |-> t, token |-> NoToken, attempt |-> 0, now |-> clock]
        /\ \A v \in Worker : v # w => wcall'[v] = wcall[v]
        /\ UNCHANGED <<clock, ucall, ccall>>
    BY <1>4 DEF BeginClaim, TypeOK
  <2>2. WorkerCallOK(wcall[w])' /\ ~ Holding(w)'
    BY <2>1 DEF WorkerCallOK, Holding, TypeOK
  <2> QED BY <1>3, <1>4, <2>1, <2>2
<1>5. ASSUME NEW w \in Worker, ClaimIgnored(w) \/ WorkerGone(w), ~ Tick
      PROVE CallsOK' /\ DistinctClaims'
  <2>1. /\ wcall'[w] = IdleWorker
        /\ \A v \in Worker : v # w => wcall'[v] = wcall[v]
        /\ UNCHANGED <<clock, ucall, ccall>>
    BY <1>5 DEF ClaimIgnored, WorkerGone, TypeOK
  <2>2. WorkerCallOK(wcall[w])' /\ ~ Holding(w)'
    BY <2>1 DEF WorkerCallOK, Holding, IdleWorker
  <2> QED BY <1>3, <1>5, <2>1, <2>2
<1>6. ASSUME NEW w \in Worker, BeginOwned(w) \/ FencedOut(w) \/ WorkerRollback(w), ~ Tick
      PROVE CallsOK' /\ DistinctClaims'
  <2>1. PICK op \in {"own", "call"}, now \in {clock, NoTime} :
          /\ op = "call" => now = clock
          /\ wcall' = [wcall EXCEPT ![w] = AtCall(@, op, now)]
          /\ UNCHANGED <<clock, db, ucall, ccall>>
          /\ Holding(w)
    BY <1>6 DEF BeginOwned, FencedOut, WorkerRollback, Returned, Holding
  <2>2. /\ wcall'[w].op = op /\ wcall'[w].now = now
        /\ wcall'[w].task = wcall[w].task /\ wcall'[w].token = wcall[w].token
        /\ wcall'[w].attempt = wcall[w].attempt
        /\ \A v \in Worker : v # w => wcall'[v] = wcall[v]
    BY <2>1 DEF AtCall, WorkerCall, TypeOK
  <2>3. WorkerCallOK(wcall[w])
    BY CallsOKParts
  <2>4. WorkerCallOK(wcall[w])'
    BY <2>1, <2>2, <2>3 DEF WorkerCallOK, Holding, TypeOK, db
  <2> QED BY <1>3, <1>6, <2>1, <2>2, <2>4
<1>7. ASSUME NEW c \in Client, UNCHANGED <<wcall, ccall>>, ~ Tick,
             ClientCallOK(ucall[c])', \A d \in Client : d # c => ucall'[d] = ucall[d]
      PROVE CallsOK' /\ DistinctClaims'
  <2>1. CallsOK'
    BY <1>2, <1>7, CallsStayOK, CallsOKParts
  <2> QED BY <1>7, <2>1 DEF DistinctClaims, Holding
<1>8. ASSUME NEW c \in Client, NEW request \in Request, NEW key \in Key \cup {NoKey},
             BeginSubmit(c, request, key), ~ Tick
      PROVE CallsOK' /\ DistinctClaims'
  <2>1. /\ ucall'[c] = [op |-> "submit", job |-> NoJob, request |-> request,
                        key |-> key, now |-> clock, reply |-> "none"]
        /\ \A d \in Client : d # c => ucall'[d] = ucall[d]
        /\ UNCHANGED <<clock, wcall, ccall>>
    BY <1>8 DEF BeginSubmit, TypeOK
  <2>2. ClientCallOK(ucall[c])'
    BY <2>1 DEF ClientCallOK, TypeOK
  <2> QED BY <1>7, <1>8, <2>1, <2>2
<1>9. ASSUME NEW c \in Client, NEW j \in Job, BeginCancel(c, j), ~ Tick
      PROVE CallsOK' /\ DistinctClaims'
  <2>1. /\ ucall'[c] = [op |-> "cancel", job |-> j, request |-> NoRequest,
                        key |-> NoKey, now |-> clock, reply |-> "none"]
        /\ \A d \in Client : d # c => ucall'[d] = ucall[d]
        /\ UNCHANGED <<clock, db, wcall, ccall>>
        /\ jobs[j].state # "ABSENT"
    BY <1>9 DEF BeginCancel, TypeOK
  <2>2. ClientCallOK(ucall[c])'
    BY <2>1 DEF ClientCallOK, TypeOK, db
  <2> QED BY <1>7, <1>9, <2>1, <2>2
<1>10. ASSUME NEW c \in Client, ~ Tick,
             \/ SubmitExisting(c) \/ SubmitConflict(c) \/ SubmitOverCapacity(c)
             \/ SubmitKeyClash(c) \/ CancelRefused(c) \/ ClientRollback(c)
      PROVE CallsOK' /\ DistinctClaims'
  <2>1. PICK reply, j : /\ ucall' = [ucall EXCEPT ![c] = IdleClient(reply, j)]
                        /\ UNCHANGED <<wcall, ccall>>
    BY <1>10 DEF SubmitExisting, SubmitConflict, SubmitOverCapacity, SubmitKeyClash,
      CancelRefused, ClientRollback, Reply
  <2>2. ucall'[c].op = "idle" /\ \A d \in Client : d # c => ucall'[d] = ucall[d]
    BY <2>1 DEF IdleClient, TypeOK
  <2>3. ClientCallOK(ucall[c])'
    BY <2>2 DEF ClientCallOK
  <2> QED BY <1>7, <1>10, <2>1, <2>2, <2>3
<1>11. CASE (BeginCoordinator \/ CoordinatorRollback) /\ ~ Tick
  <2>1. UNCHANGED <<clock, wcall, ucall>> /\ (ccall'.op = "call" => ccall'.now = clock)
    BY <1>11 DEF BeginCoordinator, CoordinatorRollback, IdleCoordinator
  <2> QED BY <1>2, <1>11, <2>1, CallsStayOK, CallsOKParts DEF DistinctClaims, Holding, TypeOK
<1> QED BY <1>1, <1>4, <1>5, <1>6, <1>8, <1>9, <1>10, <1>11 DEF CallsOnly

-----------------------------------------------------------------------------
(* The inductive invariant and what it implies *)

TablesFull == TablesInv /\ DistinctClaims

(* No transaction leaves a task without its job row (the foreign key of     *)
(* tasks).                                                                  *)
LEMMA JobsStayKnown == ASSUME TablesInv, Writes PROVE JobsKnown'
<1>1. KeepsHistory
  BY WritesKeepHistory
<1>2. ASSUME NEW t \in Task, tasks'[t].state # "ABSENT", tasks[t].state = "ABSENT"
      PROVE  jobs'[JobOf(t)].state # "ABSENT"
  <2>1. ASSUME NEW c \in Client, NEW j \in Job, SubmitInsert(c, j)
        PROVE  jobs'[JobOf(t)].state # "ABSENT"
    BY <1>2, <2>1, TaskHasJob DEF SubmitInsert, TablesInv, TypeOK
  <2>2. ASSUME NEW S \in SUBSET {s \in Task : tasks[s].state = "RUNNING"},
               NEW now, NEW result, FinishRows(S, now, result)
        PROVE  FALSE
    BY <1>2, <2>2 DEF FinishRows
  <2>3. ASSUME NEW w \in Worker, Claim(w) PROVE FALSE
    BY <1>2, <2>3 DEF Claim, Claimable, TablesInv, TypeOK
  <2>4. ASSUME NEW w \in Worker, Heartbeat(w) PROVE FALSE
    BY <1>2, <2>4 DEF Heartbeat, Holds, TablesInv, TypeOK
  <2>5. ASSUME NEW w \in Worker, NEW result \in {0, wcall[w].attempt}, Finish(w, result)
        PROVE  FALSE
    BY <2>2, <2>5, HolderIsLast DEF Finish
  <2>6. CASE Recover
    BY <2>2, <2>6 DEF Recover, Expired
  <2>7. CASE DispatchDue
    BY <1>2, <2>7 DEF DispatchDue, Dispatchable, Claimable
  <2>8. ASSUME NEW c \in Client, Cancel(c) PROVE FALSE
    BY <1>2, <2>8 DEF Cancel, Open
  <2> QED BY <2>1, <2>3, <2>4, <2>5, <2>6, <2>7, <2>8 DEF Writes
<1> QED BY <1>1, <1>2, TaskHasJob DEF JobsKnown, KeepsHistory, TablesInv

(* Every step writes a table, only moves calls or the clock, or stutters. *)
LEMMA StepKinds == [Next]_vars => Writes \/ CallsOnly \/ UNCHANGED vars
BY DEF Next, WorkerStep, ClientStep, CoordinatorStep, Writes, CallsOnly

(* The empty database satisfies the inductive invariant. *)
LEMMA InitTablesFull == Init => TablesFull
<1> SUFFICES ASSUME Init PROVE TablesFull
  OBVIOUS
<1>1. TypeOK /\ CallsOK
  BY TypingInit
<1>2. AllTasksInv
  BY StoreAssumption DEF Init, AllTasksInv, TaskInv, Matched, Budgeted, Retried, Single, Fenced,
    AbsentTask, AbsentAttempt, AttemptNo
<1>3. JobsKnown /\ DistinctClaims
  BY DEF Init, JobsKnown, DistinctClaims, Holding, AbsentTask, IdleWorker
<1> QED BY <1>1, <1>2, <1>3 DEF TablesFull, TablesInv

(* Every step keeps the inductive invariant. *)
LEMMA StepTablesFull == TablesFull /\ [Next]_vars => TablesFull'
<1> SUFFICES ASSUME TablesFull, [Next]_vars PROVE TablesFull'
  OBVIOUS
<1>1. TypeOK /\ CallsOK /\ AllTasksInv /\ JobsKnown /\ DistinctClaims /\ AttemptBudget
  BY TaskInvParts DEF TablesFull, TablesInv
<1>2. CASE Writes
  BY <1>1, <1>2, WritesTyped, WritesKeepTasks, WritesKeepCalls, JobsStayKnown
  DEF TablesFull, TablesInv
<1>3. CASE CallsOnly
  <2>1. UNCHANGED db
    BY <1>3 DEF CallsOnly, Tick, BeginClaim, BeginOwned, ClaimIgnored, FencedOut, WorkerRollback,
      WorkerGone, BeginSubmit, BeginCancel, SubmitExisting, SubmitConflict, SubmitOverCapacity,
      SubmitKeyClash, CancelRefused, ClientRollback, BeginCoordinator, CoordinatorRollback
  <2>2. AllTasksInv' /\ JobsKnown'
    BY <1>1, <2>1 DEF db, AllTasksInv, JobsKnown
  <2> QED BY <1>1, <1>3, <2>2, CallsOnlyTyped, CallsOnlyKeepCalls DEF TablesFull, TablesInv
<1>4. CASE UNCHANGED vars
  BY <1>4 DEF vars, TablesFull, TablesInv, TypeOK, CallsOK, AllTasksInv, JobsKnown,
    DistinctClaims, Holding
<1> QED BY <1>2, <1>3, <1>4, StepKinds

(* The inductive invariant holds: in every reachable state the tables agree *)
(* with each other and with the calls in flight of workers and clients.     *)
THEOREM TablesFullHolds == Spec => []TablesFull
<1>1. Init => TablesFull
  BY InitTablesFull
<1>2. TablesFull /\ [Next]_vars => TablesFull'
  BY StepTablesFull
<1> QED BY <1>1, <1>2, PTL DEF Spec

(* Every row and call keeps its columns in range: no attempt beyond          *)
(* max_attempts, no state outside the lists of db.py.                        *)
THEOREM TypeCorrect == Spec => []TypeOK
<1>1. TablesFull => TypeOK
  BY DEF TablesFull, TablesInv
<1> QED BY <1>1, TablesFullHolds, PTL

(* The tasks and attempts tables tell the same story after every call.      *)
THEOREM ClaimsAgree == Spec => []ClaimsMatchAttempts
<1>1. TablesFull => ClaimsMatchAttempts
  BY TaskInvParts DEF TablesFull, TablesInv
<1> QED BY <1>1, TablesFullHolds, PTL

(* A task is given up after exactly max_attempts failed attempts.           *)
THEOREM BudgetKept == Spec => []AttemptBudget
<1>1. TablesFull => AttemptBudget
  BY TaskInvParts DEF TablesFull, TablesInv
<1> QED BY <1>1, TablesFullHolds, PTL

(* A completed task has one result, that of its last and only successful    *)
(* attempt: duplicated deliveries and late owners never add another.        *)
THEOREM ResultUnique == Spec => []SingleResult
<1>1. TablesFull => SingleResult
  BY TaskInvParts DEF TablesFull, TablesInv
<1> QED BY <1>1, TablesFullHolds, PTL

(* At most one worker holds a claim that heartbeat and finish would accept. *)
THEOREM OwnerUnique == Spec => []OneOwner
<1>1. TablesFull => OneOwner
  <2> SUFFICES ASSUME TablesFull, NEW t \in Task, tasks[t].state = "RUNNING",
                      NEW v \in Worker, NEW w \in Worker,
                      wcall[v].task = t, wcall[v].token = tasks[t].token,
                      wcall[w].task = t, wcall[w].token = tasks[t].token
               PROVE  v = w
    BY DEF OneOwner
  <2>1. TaskInv(tasks[t], attempts[t]) /\ CallsOK /\ DistinctClaims /\ TypeOK
    BY DEF TablesFull, TablesInv, AllTasksInv
  <2>2. tasks[t].token # NoToken
    BY <2>1 DEF TaskInv, Matched
  <2>3. Holding(v) /\ Holding(w)
    BY <2>1, <2>2 DEF CallsOK, Holding, TypeOK, WorkerCall
  <2>4. /\ wcall[v].attempt \in 1..tasks[t].attempt /\ wcall[w].attempt \in 1..tasks[t].attempt
        /\ attempts[t][wcall[v].attempt].token = tasks[t].token
        /\ attempts[t][wcall[w].attempt].token = tasks[t].token
    BY <2>1, <2>3 DEF CallsOK, Holding
  <2>5. wcall[v].attempt = wcall[w].attempt
    BY <2>1, <2>4 DEF TaskInv, Fenced
  <2> QED BY <2>1, <2>3, <2>5 DEF DistinctClaims
<1> QED BY <1>1, TablesFullHolds, PTL

-----------------------------------------------------------------------------
(* The job and its tasks *)

StatesOf(j, rows) == {rows[t].state : t \in RowsOf(j, rows)}

JobInv(job, states) ==
  /\ (job.state = "ABSENT") <=> (states = {})
  /\ (job.state = "CANCELLED") <=> ("CANCELLED" \in states)
  /\ job.state = "CANCELLED" => states \subseteq TERMINAL
  /\ job.state \notin {"ABSENT", "CANCELLED"} => job.state = RefreshedState(states)
  /\ (job.state \in TERMINAL) <=> (job.finished # NoTime)

(* JobMatchesTasks, job by job. *)
LEMMA JobInvParts ==
  /\ JobMatchesTasks <=> \A j \in Job : JobInv(jobs[j], StatesOf(j, tasks))
  /\ JobMatchesTasks' <=> \A j \in Job : JobInv(jobs'[j], StatesOf(j, tasks'))
BY DEF JobMatchesTasks, JobInv, StatesOf

(* Which states refresh_job selects. *)
LEMMA StatesMembers ==
  ASSUME NEW j, NEW rows, NEW s
  PROVE  s \in StatesOf(j, rows) <=>
           \E t \in Task : JobOf(t) = j /\ rows[t].state # "ABSENT" /\ rows[t].state = s
BY DEF StatesOf, RowsOf

(* Rows whose states did not change do not change a job's states. *)
LEMMA StatesFrame ==
  ASSUME NEW j, \A t \in Task : JobOf(t) = j => tasks'[t].state = tasks[t].state
  PROVE  StatesOf(j, tasks') = StatesOf(j, tasks)
<1>1. \A s : s \in StatesOf(j, tasks') <=> s \in StatesOf(j, tasks)
  BY StatesMembers
<1> QED BY <1>1

(* An open task keeps its job open. *)
LEMMA OpenTaskOpenJob ==
  ASSUME TypeOK, JobMatchesTasks, NEW t \in Task, Open(tasks[t])
  PROVE  /\ jobs[JobOf(t)].state \notin TERMINAL \cup {"ABSENT"}
         /\ "CANCELLED" \notin StatesOf(JobOf(t), tasks)
         /\ jobs[JobOf(t)].finished = NoTime
<1> DEFINE j == JobOf(t)
           states == StatesOf(j, tasks)
<1>1. tasks[t].state \in states /\ tasks[t].state \notin TERMINAL
  BY StatesMembers DEF Open
<1>2. j \in Job /\ JobInv(jobs[j], states)
  BY TaskHasJob, JobInvParts
<1> HIDE DEF states, j
<1>3. jobs[j].state # "ABSENT" /\ jobs[j].state # "CANCELLED"
  BY <1>1, <1>2 DEF JobInv
<1>4. RefreshedState(states) \notin TERMINAL
  BY <1>1 DEF RefreshedState, TERMINAL
<1>5. jobs[j].state \notin TERMINAL
  BY <1>2, <1>3, <1>4 DEF JobInv
<1>6. "CANCELLED" \notin states /\ jobs[j].finished = NoTime
  BY <1>2, <1>3, <1>5 DEF JobInv
<1> QED BY <1>3, <1>5, <1>6 DEF j, states

(* _finish on any set of running tasks leaves every job row in the state    *)
(* its tasks call for.                                                      *)
LEMMA FinishRowsJobs ==
  ASSUME TablesInv, JobMatchesTasks,
         NEW S \in SUBSET {t \in Task : tasks[t].state = "RUNNING"},
         NEW now \in Nat, NEW result, FinishRows(S, now, result)
  PROVE  JobMatchesTasks'
<1> SUFFICES ASSUME NEW j \in Job PROVE JobInv(jobs'[j], StatesOf(j, tasks'))
  BY JobInvParts
<1>1. TypeOK /\ JobInv(jobs[j], StatesOf(j, tasks)) /\ jobs[j] \in JobRow
  BY JobInvParts DEF TablesInv, TypeOK
<1>2. CASE \A t \in S : JobOf(t) # j
  <2>1. StatesOf(j, tasks') = StatesOf(j, tasks)
    BY <1>2, StatesFrame DEF FinishRows
  <2>2. jobs'[j] = jobs[j]
    BY <1>2 DEF FinishRows
  <2> QED BY <1>1, <2>1, <2>2
<1>3. ASSUME NEW t \in S, JobOf(t) = j PROVE JobInv(jobs'[j], StatesOf(j, tasks'))
  <2> DEFINE states == StatesOf(j, tasks')
             verdict == RefreshedState(states)
  <2>1. Open(tasks[t]) /\ t \in Task
    BY DEF Open, TERMINAL
  <2>2. "CANCELLED" \notin StatesOf(j, tasks) /\ jobs[j].state # "CANCELLED"
    BY <1>1, <1>3, <2>1, OpenTaskOpenJob DEF TERMINAL
  <2>3. \A s \in Task : Settled(tasks[s], now, result).state \in {"COMPLETED", "FAILED", "RETRYING"}
    BY <1>1 DEF Settled, TypeOK, TaskRow
  <2>4. \A s \in Task : /\ s \in S => tasks'[s].state \in {"COMPLETED", "FAILED", "RETRYING"}
                        /\ s \notin S => tasks'[s] = tasks[s]
    BY <2>3 DEF FinishRows
  <2>5. "CANCELLED" \notin states
    BY <2>2, <2>4, StatesMembers
  <2>6. states # {}
    BY <1>3, <2>1, <2>4, StatesMembers
  <2>7. verdict \notin {"ABSENT", "CANCELLED"}
    BY DEF RefreshedState
  <2>8. jobs'[j] = JudgedAs(jobs[j], verdict, now)
    BY <1>3, <2>2 DEF FinishRows, Refreshed, StatesOf
  <2> HIDE DEF states, verdict
  <2>9. jobs'[j].state = verdict /\ jobs'[j].finished = IF verdict \in TERMINAL THEN now ELSE NoTime
    BY <1>1, <2>8 DEF JudgedAs, JobRow
  <2>10. now # NoTime
    BY DEF NoTime
  <2> QED BY <2>5, <2>6, <2>7, <2>9, <2>10 DEF JobInv, verdict, states
<1> QED BY <1>2, <1>3

(* Every transaction leaves every job row in the state its tasks call for. *)
LEMMA WritesKeepJobs == ASSUME TablesInv, JobMatchesTasks, Writes PROVE JobMatchesTasks'
<1>1. TypeOK /\ \A j \in Job : JobInv(jobs[j], StatesOf(j, tasks)) /\ jobs[j] \in JobRow
  BY JobInvParts DEF TablesInv, TypeOK
<1>2. ASSUME UNCHANGED jobs, \A t \in Task : tasks'[t].state = tasks[t].state
      PROVE  JobMatchesTasks'
  BY <1>1, <1>2, StatesFrame, JobInvParts
<1>3. ASSUME NEW w \in Worker, Claim(w) PROVE JobMatchesTasks'
  <2> DEFINE t == wcall[w].task
  <2>1. /\ t \in Task /\ JobOf(t) \in Job /\ tasks[t] \in TaskRow
        /\ Open(tasks[t])
    BY <1>3, TaskHasJob DEF Claim, Claimable, Open, TERMINAL, TablesInv, CallsOK, TypeOK
  <2>2. PICK token : tasks' = [tasks EXCEPT ![t] = Claimed(tasks[t], token, wcall[w].now)]
    BY <1>3 DEF Claim
  <2>3. tasks'[t].state = "RUNNING" /\ \A s \in Task : s # t => tasks'[s] = tasks[s]
    BY <1>1, <2>1, <2>2 DEF Claimed, TypeOK, TaskRow
  <2>4. /\ jobs'[JobOf(t)].state = "RUNNING"
        /\ jobs'[JobOf(t)].finished = jobs[JobOf(t)].finished
        /\ \A j \in Job : j # JobOf(t) => jobs'[j] = jobs[j]
    BY <1>1, <1>3, <2>1 DEF Claim, TypeOK, JobRow
  <2>5. ASSUME NEW j \in Job, j # JobOf(t) PROVE JobInv(jobs'[j], StatesOf(j, tasks'))
    BY <1>1, <2>3, <2>4, <2>5, StatesFrame
  <2>6. JobInv(jobs'[JobOf(t)], StatesOf(JobOf(t), tasks'))
    <3> DEFINE states == StatesOf(JobOf(t), tasks')
    <3>1. "CANCELLED" \notin StatesOf(JobOf(t), tasks) /\ jobs[JobOf(t)].finished = NoTime
      BY <1>1, <2>1, OpenTaskOpenJob
    <3>2. "RUNNING" \in states
      BY <2>1, <2>3, StatesMembers
    <3>3. "CANCELLED" \notin states
      BY <2>3, <3>1, StatesMembers
    <3> HIDE DEF states
    <3>4. RefreshedState(states) = "RUNNING"
      BY <3>2 DEF RefreshedState, TERMINAL
    <3> QED BY <2>4, <3>1, <3>2, <3>3, <3>4 DEF JobInv, TERMINAL, states
  <2> QED BY <2>5, <2>6, JobInvParts
<1>4. ASSUME NEW w \in Worker, Heartbeat(w) PROVE JobMatchesTasks'
  <2>1. wcall[w].task \in Task
    BY <1>4 DEF Heartbeat, TablesInv, CallsOK
  <2>2. \A row \in TaskRow : Renewed(row, wcall[w].now, wcall[w].attempt).state = row.state
    BY DEF Renewed, TaskRow
  <2> QED BY <1>1, <1>2, <1>4, <2>1, <2>2 DEF Heartbeat, TypeOK
<1>5. ASSUME NEW w \in Worker, NEW result \in {0, wcall[w].attempt}, Finish(w, result)
      PROVE JobMatchesTasks'
  <2>1. wcall[w].task \in Task /\ tasks[wcall[w].task].state = "RUNNING" /\ wcall[w].now \in Nat
    BY <1>5, HolderIsLast DEF Finish
  <2> QED BY <1>5, <2>1, FinishRowsJobs DEF Finish
<1>6. CASE Recover
  <2>1. ccall.now \in Nat
    BY <1>6 DEF Recover, TablesInv, CallsOK, TypeOK
  <2> QED BY <1>6, <2>1, FinishRowsJobs DEF Recover, Expired
<1>7. CASE DispatchDue
  <2>1. \A row \in TaskRow : Dispatched(row, ccall.now).state = row.state
    BY DEF Dispatched, TaskRow
  <2> QED BY <1>1, <1>2, <1>7, <2>1 DEF DispatchDue, TypeOK
<1>8. ASSUME NEW c \in Client, Cancel(c) PROVE JobMatchesTasks'
  <2> DEFINE j == ucall[c].job
             now == ucall[c].now
             states == StatesOf(j, tasks)
             newstates == StatesOf(j, tasks')
  <2>1. j \in Job /\ now \in Nat /\ jobs[j].state \notin TERMINAL \cup {"ABSENT"}
    BY <1>8 DEF Cancel, TablesInv, CallsOK, TypeOK
  <2>2. \A t \in Task : tasks'[t] = IF JobOf(t) = j /\ Open(tasks[t])
                                   THEN Withdrawn(tasks[t]) ELSE tasks[t]
    BY <1>8 DEF Cancel
  <2>3. \A t \in Task : Withdrawn(tasks[t]).state = "CANCELLED"
    BY <1>1 DEF Withdrawn, TypeOK, TaskRow
  <2>4. jobs'[j] = JudgedAs(jobs[j], "CANCELLED", now) /\ \A i \in Job : i # j => jobs'[i] = jobs[i]
    BY <1>1, <1>8, <2>1 DEF Cancel, TypeOK
  <2>5. ASSUME NEW i \in Job, i # j PROVE JobInv(jobs'[i], StatesOf(i, tasks'))
    BY <1>1, <2>2, <2>4, <2>5, StatesFrame
  <2>6. ~ (states \subseteq TERMINAL)
    <3>1. jobs[j].state = RefreshedState(states)
      BY <1>1, <2>1 DEF JobInv, TERMINAL
    <3> HIDE DEF states
    <3> QED BY <2>1, <3>1 DEF RefreshedState, TERMINAL
  <2>7. PICK t \in Task : JobOf(t) = j /\ Open(tasks[t])
    BY <2>6, StatesMembers DEF Open
  <2>8. "CANCELLED" \in newstates
    BY <2>2, <2>3, <2>7, StatesMembers
  <2>9. newstates \subseteq TERMINAL
    <3> SUFFICES ASSUME NEW s \in newstates PROVE s \in TERMINAL
      OBVIOUS
    <3>1. PICK u \in Task : JobOf(u) = j /\ tasks'[u].state # "ABSENT" /\ tasks'[u].state = s
      BY StatesMembers
    <3> QED BY <2>2, <2>3, <3>1 DEF Open, TERMINAL
  <2>10. jobs'[j].state = "CANCELLED" /\ jobs'[j].finished = now /\ now # NoTime
    BY <1>1, <2>1, <2>4 DEF JudgedAs, JobRow, TERMINAL, NoTime
  <2>11. JobInv(jobs'[j], newstates)
    <3> HIDE DEF newstates
    <3> QED BY <2>8, <2>9, <2>10 DEF JobInv, TERMINAL
  <2> QED BY <2>5, <2>11, JobInvParts
<1>9. ASSUME NEW c \in Client, NEW j \in Job, SubmitInsert(c, j) PROVE JobMatchesTasks'
  <2> DEFINE newstates == StatesOf(j, tasks')
             configs == ucall[c].request.configs
  <2>1. configs # {} /\ configs \subseteq Config
    BY <1>9 DEF SubmitInsert, TablesInv, CallsOK, Request
  <2>2. \A t \in Task : /\ JobOf(t) # j => tasks'[t] = tasks[t]
                        /\ JobOf(t) = j /\ t[2] \in configs => tasks'[t].state = "PENDING"
                        /\ JobOf(t) = j /\ t[2] \notin configs => tasks'[t].state = "ABSENT"
    BY <1>9 DEF SubmitInsert, NewTask, AbsentTask, TablesInv, JobsKnown
  <2>3. /\ jobs'[j].state = "PENDING" /\ jobs'[j].finished = NoTime
        /\ \A i \in Job : i # j => jobs'[i] = jobs[i]
    BY <1>1, <1>9 DEF SubmitInsert, TypeOK
  <2>4. ASSUME NEW i \in Job, i # j PROVE JobInv(jobs'[i], StatesOf(i, tasks'))
    BY <1>1, <2>2, <2>3, <2>4, StatesFrame
  <2>5. "PENDING" \in newstates
    <3>1. PICK a \in configs : <<j, a>> \in Task /\ JobOf(<<j, a>>) = j
      BY <2>1 DEF Task, JobOf
    <3> QED BY <2>2, <3>1, StatesMembers
  <2>6. newstates \subseteq {"PENDING"}
    <3> SUFFICES ASSUME NEW s \in newstates PROVE s = "PENDING"
      OBVIOUS
    <3>1. PICK u \in Task : JobOf(u) = j /\ tasks'[u].state # "ABSENT" /\ tasks'[u].state = s
      BY StatesMembers
    <3> QED BY <2>2, <3>1
  <2>7. JobInv(jobs'[j], newstates)
    <3> HIDE DEF newstates
    <3> QED BY <2>3, <2>5, <2>6 DEF JobInv, RefreshedState, TERMINAL
  <2> QED BY <2>4, <2>7, JobInvParts
<1> QED BY <1>3, <1>4, <1>5, <1>6, <1>7, <1>8, <1>9 DEF Writes

(* The whole invariant on the tables: TablesFull and the verdict on jobs. *)
StoreInv == TablesFull /\ JobMatchesTasks

(* A step that is not a transaction leaves the three tables alone. *)
LEMMA TablesStep == [Next]_vars => Writes \/ UNCHANGED db
BY StepKinds DEF CallsOnly, Tick, BeginClaim, BeginOwned, ClaimIgnored, FencedOut, WorkerRollback,
  WorkerGone, BeginSubmit, BeginCancel, SubmitExisting, SubmitConflict, SubmitOverCapacity,
  SubmitKeyClash, CancelRefused, ClientRollback, BeginCoordinator, CoordinatorRollback, vars, db

(* No job, no task: the job rows agree with the tasks at the start. *)
LEMMA InitJobs == Init => JobMatchesTasks
<1> SUFFICES ASSUME Init, NEW j \in Job PROVE JobInv(jobs[j], StatesOf(j, tasks))
  BY JobInvParts
<1>1. StatesOf(j, tasks) = {}
  BY StatesMembers DEF Init, AbsentTask
<1> QED BY <1>1 DEF Init, AbsentJob, JobInv, TERMINAL

(* The state of a job row is the one refresh_job would compute from its     *)
(* tasks, after every call and in every order of calls.                     *)
THEOREM JobStateRight == Spec => []JobMatchesTasks
<1>1. Init => JobMatchesTasks
  BY InitJobs
<1>2. TablesFull /\ JobMatchesTasks /\ [Next]_vars => JobMatchesTasks'
  <2> SUFFICES ASSUME TablesFull, JobMatchesTasks, [Next]_vars PROVE JobMatchesTasks'
    OBVIOUS
  <2>1. CASE Writes
    BY <2>1, WritesKeepJobs DEF TablesFull
  <2>2. CASE UNCHANGED db
    <3>1. jobs' = jobs /\ tasks' = tasks
      BY <2>2 DEF db
    <3>2. JobMatchesTasks' <=> \A j \in Job : JobInv(jobs[j], StatesOf(j, tasks))
      BY <3>1, JobInvParts
    <3> QED BY <3>2, JobInvParts
  <2> QED BY <2>1, <2>2, TablesStep
<1> QED BY <1>1, <1>2, TablesFullHolds, PTL DEF Spec

(* All of the tables stay consistent: tasks with attempts, and jobs with    *)
(* tasks.                                                                   *)
THEOREM StoreInvHolds == Spec => []StoreInv
<1>1. TablesFull /\ JobMatchesTasks => StoreInv
  BY DEF StoreInv
<1> QED BY <1>1, TablesFullHolds, JobStateRight, PTL
-----------------------------------------------------------------------------
(* What no step may do *)

(* An unused task row is blank. *)
BlankRows == \A t \in Task : tasks[t].state = "ABSENT" => tasks[t] = AbsentTask

(* _finish on running tasks touches no settled task, no closed attempt and  *)
(* no decided job.                                                          *)
LEMMA FinishRowsFinal ==
  ASSUME StoreInv, NEW S \in SUBSET {t \in Task : tasks[t].state = "RUNNING"},
         NEW now, NEW result, FinishRows(S, now, result)
  PROVE  /\ \A t \in Task : tasks[t].state \in TERMINAL => tasks'[t] = tasks[t]
         /\ \A t \in Task, n \in AttemptNo :
              attempts[t][n].state \in TERMINAL => attempts'[t][n] = attempts[t][n]
         /\ \A j \in Job : jobs[j].state \in TERMINAL => jobs'[j] = jobs[j]
<1>1. TypeOK /\ AllTasksInv /\ JobMatchesTasks
  BY DEF StoreInv, TablesFull, TablesInv
<1>2. ASSUME NEW t \in Task, tasks[t].state \in TERMINAL PROVE tasks'[t] = tasks[t]
  BY <1>2 DEF FinishRows, TERMINAL
<1>3. ASSUME NEW t \in Task, NEW n \in AttemptNo, attempts[t][n].state \in TERMINAL
      PROVE  attempts'[t][n] = attempts[t][n]
  <2>1. CASE t \notin S
    BY <2>1 DEF FinishRows
  <2>2. CASE t \in S
    <3>1. attempts[t] \in [AttemptNo -> AttemptRow] /\ n # tasks[t].attempt
      BY <1>1, <1>3, <2>2 DEF TypeOK, AllTasksInv, TaskInv, Matched, TERMINAL
    <3> QED BY <2>2, <3>1 DEF FinishRows
  <2> QED BY <2>1, <2>2
<1>4. ASSUME NEW j \in Job, jobs[j].state \in TERMINAL PROVE jobs'[j] = jobs[j]
  <2>1. \A t \in S : Open(tasks[t])
    BY DEF Open, TERMINAL
  <2>2. \A t \in S : JobOf(t) # j
    BY <1>1, <1>4, <2>1, OpenTaskOpenJob
  <2> QED BY <2>2 DEF FinishRows
<1> QED BY <1>2, <1>3, <1>4

(* No transaction touches a settled task, a closed attempt or a decided     *)
(* job.                                                                     *)
LEMMA WritesFinal ==
  ASSUME StoreInv, Writes
  PROVE  /\ \A t \in Task : tasks[t].state \in TERMINAL => tasks'[t] = tasks[t]
         /\ \A t \in Task, n \in AttemptNo :
              attempts[t][n].state \in TERMINAL => attempts'[t][n] = attempts[t][n]
         /\ \A j \in Job : jobs[j].state \in TERMINAL => jobs'[j] = jobs[j]
<1> DEFINE Final ==
         /\ \A t \in Task : tasks[t].state \in TERMINAL => tasks'[t] = tasks[t]
         /\ \A t \in Task, n \in AttemptNo :
              attempts[t][n].state \in TERMINAL => attempts'[t][n] = attempts[t][n]
         /\ \A j \in Job : jobs[j].state \in TERMINAL => jobs'[j] = jobs[j]
<1>1. TablesInv /\ TypeOK /\ CallsOK /\ AllTasksInv /\ JobsKnown /\ JobMatchesTasks
  BY DEF StoreInv, TablesFull, TablesInv
<1>2. ASSUME NEW w \in Worker, Claim(w) PROVE Final
  <2> DEFINE t == wcall[w].task
             number == tasks[t].attempt + 1
  <2>1. t \in Task /\ tasks[t].state \notin TERMINAL /\ Open(tasks[t])
    BY <1>1, <1>2 DEF Claim, Claimable, CallsOK, Open, TERMINAL
  <2>2. PICK token :
          /\ tasks' = [tasks EXCEPT ![t] = Claimed(tasks[t], token, wcall[w].now)]
          /\ attempts' = [attempts EXCEPT ![t] =
                            [attempts[t] EXCEPT ![number] = NewAttempt(token, wcall[w].now)]]
    BY <1>2 DEF Claim
  <2>3. \A n \in AttemptNo : n = number => attempts[t][n].state = "ABSENT"
    BY <1>1, <2>1, StoreAssumption DEF TypeOK, TaskRow, AllTasksInv, TaskInv, Matched
  <2>4. \A s \in Task, n \in AttemptNo :
          attempts[s][n].state \in TERMINAL => attempts'[s][n] = attempts[s][n]
    BY <1>1, <2>1, <2>2, <2>3 DEF TypeOK, TERMINAL
  <2>5. \A s \in Task : tasks[s].state \in TERMINAL => tasks'[s] = tasks[s]
    BY <1>1, <2>1, <2>2 DEF TypeOK
  <2>6. jobs[JobOf(t)].state \notin TERMINAL
    BY <1>1, <2>1, OpenTaskOpenJob
  <2>7. \A j \in Job : jobs[j].state \in TERMINAL => jobs'[j] = jobs[j]
    BY <1>1, <1>2, <2>6 DEF Claim, TypeOK
  <2> QED BY <2>4, <2>5, <2>7
<1>3. ASSUME NEW w \in Worker, Heartbeat(w) PROVE Final
  BY <1>1, <1>3 DEF Heartbeat, Holds, TypeOK, TERMINAL
<1>4. ASSUME NEW w \in Worker, NEW result \in {0, wcall[w].attempt}, Finish(w, result)
      PROVE Final
  <2>1. wcall[w].task \in Task /\ tasks[wcall[w].task].state = "RUNNING"
    BY <1>1, <1>4, HolderIsLast DEF Finish
  <2>2. FinishRows({wcall[w].task}, wcall[w].now, result)
    BY <1>4 DEF Finish
  <2> QED BY <2>1, <2>2, FinishRowsFinal
<1>5. CASE Recover
  BY <1>5, FinishRowsFinal DEF Recover, Expired
<1>6. CASE DispatchDue
  BY <1>1, <1>6 DEF DispatchDue, Dispatchable, Claimable, TypeOK, TERMINAL
<1>7. ASSUME NEW c \in Client, Cancel(c) PROVE Final
  <2>1. \A t \in Task : tasks[t].state \in TERMINAL => ~ Open(tasks[t])
    BY DEF Open
  <2>2. \A t \in Task : tasks[t].state \in TERMINAL => tasks'[t] = tasks[t]
    BY <1>7, <2>1 DEF Cancel
  <2>3. \A t \in Task, n \in AttemptNo :
          attempts[t][n].state \in TERMINAL => attempts'[t][n] = attempts[t][n]
    BY <1>7 DEF Cancel, TERMINAL
  <2>4. \A j \in Job : jobs[j].state \in TERMINAL => jobs'[j] = jobs[j]
    BY <1>1, <1>7 DEF Cancel, TypeOK
  <2> QED BY <2>2, <2>3, <2>4
<1>8. ASSUME NEW c \in Client, NEW j \in Job, SubmitInsert(c, j) PROVE Final
  BY <1>1, <1>8 DEF SubmitInsert, JobsKnown, TypeOK, TERMINAL
<1> QED BY <1>2, <1>3, <1>4, <1>5, <1>6, <1>7, <1>8 DEF Writes

(* Settled tasks, closed attempts and decided jobs never change again.      *)
THEOREM TerminalStays == Spec => TerminalIsFinal
<1> DEFINE A == /\ \A t \in Task : tasks[t].state \in TERMINAL => tasks'[t] = tasks[t]
                /\ \A t \in Task, n \in AttemptNo :
                     attempts[t][n].state \in TERMINAL => attempts'[t][n] = attempts[t][n]
                /\ \A j \in Job : jobs[j].state \in TERMINAL => jobs'[j] = jobs[j]
<1>1. StoreInv /\ [Next]_vars => [A]_db
  BY TablesStep, WritesFinal
<1> HIDE DEF A
<1>2. Spec => [][A]_db
  BY <1>1, StoreInvHolds, PTL DEF Spec
<1> QED BY <1>2 DEF TerminalIsFinal, A

(* Every transaction keeps the rows of unused tasks blank. *)
LEMMA BlankStep == ASSUME StoreInv, BlankRows, Writes PROVE BlankRows'
<1>1. TypeOK /\ CallsOK
  BY DEF StoreInv, TablesFull, TablesInv
<1>2. ASSUME NEW S \in SUBSET {t \in Task : tasks[t].state = "RUNNING"},
             NEW now, NEW result, FinishRows(S, now, result)
      PROVE  BlankRows'
  <2>1. \A t \in Task : Settled(tasks[t], now, result).state # "ABSENT"
    BY <1>1 DEF Settled, TypeOK, TaskRow
  <2> QED BY <1>2, <2>1 DEF FinishRows, BlankRows
<1>3. ASSUME NEW w \in Worker, Claim(w) PROVE BlankRows'
  <2>1. wcall[w].task \in Task
    BY <1>1, <1>3 DEF Claim, CallsOK
  <2>2. \A token : Claimed(tasks[wcall[w].task], token, wcall[w].now).state # "ABSENT"
    BY <1>1, <2>1 DEF Claimed, TypeOK, TaskRow
  <2> QED BY <1>1, <1>3, <2>1, <2>2 DEF Claim, BlankRows, TypeOK
<1>4. ASSUME NEW w \in Worker, Heartbeat(w) PROVE BlankRows'
  <2>1. wcall[w].task \in Task /\ tasks[wcall[w].task].state = "RUNNING"
    BY <1>1, <1>4 DEF Heartbeat, Holds, CallsOK
  <2>2. Renewed(tasks[wcall[w].task], wcall[w].now, wcall[w].attempt).state # "ABSENT"
    BY <1>1, <2>1 DEF Renewed, TypeOK, TaskRow
  <2> QED BY <1>1, <1>4, <2>1, <2>2 DEF Heartbeat, BlankRows, TypeOK
<1>5. ASSUME NEW w \in Worker, NEW result \in {0, wcall[w].attempt}, Finish(w, result)
      PROVE BlankRows'
  <2>1. wcall[w].task \in Task /\ tasks[wcall[w].task].state = "RUNNING"
    BY <1>1, <1>5 DEF Finish, Holds, CallsOK
  <2>2. FinishRows({wcall[w].task}, wcall[w].now, result)
    BY <1>5 DEF Finish
  <2> QED BY <1>2, <2>1, <2>2
<1>6. CASE Recover
  BY <1>2, <1>6 DEF Recover, Expired
<1>7. CASE DispatchDue
  <2>1. \A row \in TaskRow : Dispatched(row, ccall.now).state = row.state
    BY DEF Dispatched, TaskRow
  <2> QED BY <1>1, <1>7, <2>1 DEF DispatchDue, Dispatchable, Claimable, BlankRows, TypeOK
<1>8. ASSUME NEW c \in Client, Cancel(c) PROVE BlankRows'
  <2>1. \A t \in Task : Withdrawn(tasks[t]).state # "ABSENT"
    BY <1>1 DEF Withdrawn, TypeOK, TaskRow
  <2> QED BY <1>8, <2>1 DEF Cancel, BlankRows
<1>9. ASSUME NEW c \in Client, NEW j \in Job, SubmitInsert(c, j) PROVE BlankRows'
  <2>1. NewTask(ucall[c].now).state # "ABSENT"
    BY DEF NewTask, AbsentTask
  <2> QED BY <1>9, <2>1 DEF SubmitInsert, BlankRows
<1> QED BY <1>3, <1>4, <1>5, <1>6, <1>7, <1>8, <1>9 DEF Writes

(* The rows of unused tasks stay blank: nothing is written before the       *)
(* INSERT.                                                                  *)
THEOREM BlankRowsHold == Spec => []BlankRows
<1>1. Init => BlankRows
  BY DEF Init, BlankRows
<1>2. StoreInv /\ BlankRows /\ [Next]_vars => BlankRows'
  BY BlankStep, TablesStep DEF db, BlankRows
<1> QED BY <1>1, <1>2, StoreInvHolds, PTL DEF Spec

(* A transaction that changes progress or a result belongs to the last      *)
(* attempt of a running task.                                               *)
LEMMA WritesByOwner ==
  ASSUME StoreInv, BlankRows, Writes, NEW t \in Task
  PROVE  /\ tasks'[t].progress # tasks[t].progress =>
              tasks[t].state = "RUNNING" /\ tasks'[t].progress = tasks[t].attempt
         /\ tasks'[t].result # tasks[t].result =>
              tasks[t].state = "RUNNING" /\ tasks'[t].result = tasks[t].attempt
<1> DEFINE Owned == /\ tasks'[t].progress # tasks[t].progress =>
                         tasks[t].state = "RUNNING" /\ tasks'[t].progress = tasks[t].attempt
                    /\ tasks'[t].result # tasks[t].result =>
                         tasks[t].state = "RUNNING" /\ tasks'[t].result = tasks[t].attempt
<1>1. TablesInv /\ TypeOK /\ CallsOK /\ AllTasksInv /\ JobsKnown /\ tasks[t] \in TaskRow
  BY DEF StoreInv, TablesFull, TablesInv, TypeOK
<1>2. tasks[t].state = "RUNNING" => tasks[t].result = 0
  BY <1>1 DEF AllTasksInv, TaskInv, Single
<1>3. ASSUME NEW S \in SUBSET {s \in Task : tasks[s].state = "RUNNING"},
             NEW now, NEW result, FinishRows(S, now, result),
             t \in S => result \in {0, tasks[t].attempt}
      PROVE  Owned
  <2>1. Settled(tasks[t], now, result).progress = tasks[t].progress
    BY <1>1 DEF Settled, TaskRow
  <2>2. Settled(tasks[t], now, result).result = result
    BY <1>1 DEF Settled, TaskRow
  <2>3. tasks'[t] = IF t \in S THEN Settled(tasks[t], now, result) ELSE tasks[t]
    BY <1>3 DEF FinishRows
  <2> QED BY <1>2, <1>3, <2>1, <2>2, <2>3
<1>4. ASSUME NEW w \in Worker, Claim(w) PROVE Owned
  <2>1. wcall[w].task \in Task
    BY <1>1, <1>4 DEF Claim, CallsOK
  <2>2. \A token, now : /\ Claimed(tasks[t], token, now).progress = tasks[t].progress
                        /\ Claimed(tasks[t], token, now).result = tasks[t].result
    BY <1>1 DEF Claimed, TaskRow
  <2> QED BY <1>1, <1>4, <2>1, <2>2 DEF Claim, TypeOK
<1>5. ASSUME NEW w \in Worker, Heartbeat(w) PROVE Owned
  <2>1. /\ wcall[w].task \in Task /\ tasks[wcall[w].task].state = "RUNNING"
        /\ wcall[w].attempt = tasks[wcall[w].task].attempt
    BY <1>1, <1>5, HolderIsLast DEF Heartbeat
  <2>2. \A now, progress : /\ Renewed(tasks[t], now, progress).progress = progress
                           /\ Renewed(tasks[t], now, progress).result = tasks[t].result
    BY <1>1 DEF Renewed, TaskRow
  <2> QED BY <1>1, <1>5, <2>1, <2>2 DEF Heartbeat, TypeOK
<1>6. ASSUME NEW w \in Worker, NEW result \in {0, wcall[w].attempt}, Finish(w, result)
      PROVE Owned
  <2>1. /\ wcall[w].task \in Task /\ tasks[wcall[w].task].state = "RUNNING"
        /\ wcall[w].attempt = tasks[wcall[w].task].attempt
    BY <1>1, <1>6, HolderIsLast DEF Finish
  <2>2. FinishRows({wcall[w].task}, wcall[w].now, result)
    BY <1>6 DEF Finish
  <2> QED BY <1>3, <2>1, <2>2
<1>7. CASE Recover
  BY <1>3, <1>7 DEF Recover, Expired
<1>8. CASE DispatchDue
  <2>1. /\ Dispatched(tasks[t], ccall.now).progress = tasks[t].progress
        /\ Dispatched(tasks[t], ccall.now).result = tasks[t].result
    BY <1>1 DEF Dispatched, TaskRow
  <2> QED BY <1>8, <2>1 DEF DispatchDue
<1>9. ASSUME NEW c \in Client, Cancel(c) PROVE Owned
  <2>1. /\ Withdrawn(tasks[t]).progress = tasks[t].progress
        /\ Withdrawn(tasks[t]).result = tasks[t].result
    BY <1>1 DEF Withdrawn, TaskRow
  <2> QED BY <1>9, <2>1 DEF Cancel
<1>10. ASSUME NEW c \in Client, NEW j \in Job, SubmitInsert(c, j) PROVE Owned
  <2>1. JobOf(t) = j => tasks[t] = AbsentTask
    BY <1>1, <1>10 DEF SubmitInsert, JobsKnown, BlankRows
  <2> QED BY <1>10, <2>1 DEF SubmitInsert, NewTask, AbsentTask
<1> QED BY <1>4, <1>5, <1>6, <1>7, <1>8, <1>9, <1>10 DEF Writes

(* Results and progress come only from the attempt that owns a running task.*)
THEOREM OwnersWrite == Spec => OnlyOwnerWrites
<1> DEFINE A == \A t \in Task :
        /\ tasks'[t].progress # tasks[t].progress =>
             tasks[t].state = "RUNNING" /\ tasks'[t].progress = tasks[t].attempt
        /\ tasks'[t].result # tasks[t].result =>
             tasks[t].state = "RUNNING" /\ tasks'[t].result = tasks[t].attempt
<1>1. StoreInv /\ BlankRows /\ [Next]_vars => [A]_db
  BY TablesStep, WritesByOwner
<1> HIDE DEF A
<1>2. Spec => [][A]_db
  BY <1>1, StoreInvHolds, BlankRowsHold, PTL DEF Spec
<1> QED BY <1>2 DEF OnlyOwnerWrites, A

-----------------------------------------------------------------------------
(* Admission *)

(* There are finitely many tasks, so the COUNT of submit is a number. *)
LEMMA TaskIsFinite == IsFiniteSet(Task)
BY StoreAssumption, FS_Product DEF Task

(* The bound survives a step that leaves no more tasks outstanding. *)
LEMMA SmallerOutstanding ==
  ASSUME AdmissionBound, \A t \in Task : Open(tasks'[t]) => Open(tasks[t])
  PROVE  AdmissionBound'
<1>1. Outstanding' \subseteq Outstanding /\ Outstanding \subseteq Task
  BY DEF Outstanding
<1>2. IsFiniteSet(Outstanding)
  BY <1>1, TaskIsFinite, FS_Subset
<1>3. Cardinality(Outstanding') <= Cardinality(Outstanding)
  BY <1>1, <1>2, FS_Subset
<1>4. Cardinality(Outstanding') \in Nat /\ Cardinality(Outstanding) \in Nat
  BY <1>1, <1>2, FS_Subset, FS_CardinalityType
<1> QED BY <1>3, <1>4, StoreAssumption DEF AdmissionBound

(* _finish on running tasks makes no task outstanding that was not. *)
LEMMA FinishRowsOpen ==
  ASSUME NEW S \in SUBSET {t \in Task : tasks[t].state = "RUNNING"},
         NEW now, NEW result, FinishRows(S, now, result), NEW t \in Task, Open(tasks'[t])
  PROVE  Open(tasks[t])
BY DEF FinishRows, Open, TERMINAL

(* Every transaction keeps the bound on outstanding tasks. *)
LEMMA WritesAdmit == ASSUME StoreInv, AdmissionBound, Writes PROVE AdmissionBound'
<1>1. TablesInv /\ TypeOK /\ CallsOK
  BY DEF StoreInv, TablesFull, TablesInv
<1>2. ASSUME NEW w \in Worker, Claim(w) PROVE AdmissionBound'
  <2>1. wcall[w].task \in Task /\ Open(tasks[wcall[w].task])
    BY <1>1, <1>2 DEF Claim, Claimable, CallsOK, Open, TERMINAL
  <2> QED BY <1>1, <1>2, <2>1, SmallerOutstanding DEF Claim, TypeOK
<1>3. ASSUME NEW w \in Worker, Heartbeat(w) PROVE AdmissionBound'
  <2>1. wcall[w].task \in Task /\ Open(tasks[wcall[w].task])
    BY <1>1, <1>3, HolderIsLast DEF Heartbeat, Open, TERMINAL
  <2> QED BY <1>1, <1>3, <2>1, SmallerOutstanding DEF Heartbeat, TypeOK
<1>4. ASSUME NEW w \in Worker, NEW result \in {0, wcall[w].attempt}, Finish(w, result)
      PROVE AdmissionBound'
  <2>1. wcall[w].task \in Task /\ tasks[wcall[w].task].state = "RUNNING"
    BY <1>1, <1>4, HolderIsLast DEF Finish
  <2>2. FinishRows({wcall[w].task}, wcall[w].now, result)
    BY <1>4 DEF Finish
  <2> QED BY <2>1, <2>2, FinishRowsOpen, SmallerOutstanding
<1>5. CASE Recover
  BY <1>5, FinishRowsOpen, SmallerOutstanding DEF Recover, Expired
<1>6. CASE DispatchDue
  <2>1. \A t \in Task : Open(Dispatched(tasks[t], ccall.now)) => Open(tasks[t])
    BY <1>1 DEF Dispatched, Open, TypeOK, TaskRow
  <2> QED BY <1>6, <2>1, SmallerOutstanding DEF DispatchDue
<1>7. ASSUME NEW c \in Client, Cancel(c) PROVE AdmissionBound'
  BY <1>7, SmallerOutstanding DEF Cancel
<1>8. ASSUME NEW c \in Client, NEW j \in Job, SubmitInsert(c, j) PROVE AdmissionBound'
  <2> DEFINE configs == ucall[c].request.configs
             new == {j} \X configs
  <2>1. configs \subseteq Config /\ ~ OverCapacity(c)
    BY <1>1, <1>8 DEF SubmitInsert, CallsOK, Request
  <2>2. Outstanding' \subseteq Outstanding \cup new
    <3> SUFFICES ASSUME NEW t \in Task, Open(tasks'[t]), ~ Open(tasks[t]) PROVE t \in new
      BY DEF Outstanding
    <3>1. JobOf(t) = j /\ t[2] \in configs
      BY <1>8 DEF SubmitInsert
    <3>2. PICK i \in Job, a \in Config : t = <<i, a>>
      BY DEF Task
    <3> QED BY <3>1, <3>2 DEF JobOf
  <2>3. IsFiniteSet(configs) /\ IsFiniteSet({j}) /\ Cardinality({j}) = 1
    BY <2>1, StoreAssumption, FS_Subset, FS_Singleton
  <2>4. IsFiniteSet(new) /\ Cardinality(new) = Cardinality(configs)
    BY <2>3, FS_Product, FS_CardinalityType
  <2>5. IsFiniteSet(Outstanding)
    BY TaskIsFinite, FS_Subset DEF Outstanding
  <2> HIDE DEF new, configs
  <2>6. /\ IsFiniteSet(Outstanding \cup new)
        /\ Cardinality(Outstanding \cup new) <= Cardinality(Outstanding) + Cardinality(new)
    <3>1. IsFiniteSet(Outstanding \cap new) /\ Cardinality(Outstanding \cap new) \in Nat
      BY <2>5, FS_Intersection, FS_CardinalityType
    <3>2. Cardinality(Outstanding) \in Nat /\ Cardinality(new) \in Nat
      BY <2>4, <2>5, FS_CardinalityType
    <3>3. /\ IsFiniteSet(Outstanding \cup new)
          /\ Cardinality(Outstanding \cup new)
               = Cardinality(Outstanding) + Cardinality(new) - Cardinality(Outstanding \cap new)
      BY <2>4, <2>5, FS_Union
    <3> QED BY <3>1, <3>2, <3>3
  <2>7. /\ Cardinality(Outstanding') <= Cardinality(Outstanding \cup new)
        /\ Cardinality(Outstanding') \in Nat
    BY <2>2, <2>6, FS_Subset, FS_CardinalityType
  <2>8. Cardinality(Outstanding) + Cardinality(configs) <= MaxPending
    BY <2>1, <2>3, <2>5, FS_CardinalityType, StoreAssumption DEF OverCapacity, configs
  <2> QED BY <2>3, <2>4, <2>5, <2>6, <2>7, <2>8, FS_CardinalityType, StoreAssumption DEF AdmissionBound
<1> QED BY <1>2, <1>3, <1>4, <1>5, <1>6, <1>7, <1>8 DEF Writes

(* No more than max_pending tasks are ever outstanding.                     *)
THEOREM AdmissionKept == Spec => []AdmissionBound
<1>1. Init => AdmissionBound
  <2> SUFFICES ASSUME Init PROVE AdmissionBound
    OBVIOUS
  <2>1. Outstanding = {}
    BY DEF Init, Outstanding, Open, AbsentTask
  <2> QED BY <2>1, FS_EmptySet, StoreAssumption DEF AdmissionBound
<1>2. StoreInv /\ AdmissionBound /\ [Next]_vars => AdmissionBound'
  <2> SUFFICES ASSUME StoreInv, AdmissionBound, [Next]_vars PROVE AdmissionBound'
    OBVIOUS
  <2>1. CASE UNCHANGED db
    BY <2>1, SmallerOutstanding DEF db
  <2> QED BY <2>1, TablesStep, WritesAdmit
<1> QED BY <1>1, <1>2, StoreInvHolds, PTL DEF Spec

=============================================================================
