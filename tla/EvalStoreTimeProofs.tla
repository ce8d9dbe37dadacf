------------------------ MODULE EvalStoreTimeProofs ------------------------
(* More theorems about EvalStore.  Two are about the times in its tables:   *)
(* the spacing of attempts and the keeping of leases, although every        *)
(* transaction compares with a clock that was read before it waited for the *)
(* lock.  The last is about idempotency keys.                               *)
EXTENDS EvalStoreProofs

-----------------------------------------------------------------------------
(* The spacing of the attempts of one task *)

(* RetrySpacing for one task, and why it stays true: a task that waits for  *)
(* its retry is due one backoff after the recorded end of its last attempt. *)
Spaced(row, log) ==
  /\ \A n \in AttemptNo :
       n < row.attempt => log[n + 1].started >= log[n].finished + Backoff(n)
  /\ row.state = "RETRYING" => row.due = log[row.attempt].finished + Backoff(row.attempt)

AllSpaced == \A t \in Task : Spaced(tasks[t], attempts[t])

(* Spaced, over all tasks, is the invariant that the runs check.            *)
LEMMA SpacedParts == AllSpaced => RetrySpacing
BY DEF AllSpaced, Spaced, RetrySpacing

(* A claim starts its attempt when the task is due, or later. *)
LEMMA ClaimedSpaced ==
  ASSUME NEW row \in TaskRow, NEW log \in [AttemptNo -> AttemptRow], TaskInv(row, log),
         Spaced(row, log), NEW now \in Nat, Claimable(row, now), NEW token
  PROVE  Spaced(Claimed(row, token, now),
                [log EXCEPT ![row.attempt + 1] = NewAttempt(token, now)])
<1> DEFINE new == Claimed(row, token, now)
           newlog == [log EXCEPT ![row.attempt + 1] = NewAttempt(token, now)]
<1>1. row.attempt \in 0..(MaxAttempts - 1) /\ row.state \in {"PENDING", "RETRYING"}
  BY StoreAssumption DEF Claimable, TaskInv, Budgeted, TaskRow
<1>2. row.attempt + 1 \in AttemptNo
  BY <1>1, StoreAssumption DEF AttemptNo
<1>3. new.attempt = row.attempt + 1 /\ new.state = "RUNNING"
  BY DEF Claimed, TaskRow
<1>4. /\ newlog[row.attempt + 1].started = now
      /\ \A n \in AttemptNo : n # row.attempt + 1 => newlog[n] = log[n]
  BY <1>2 DEF NewAttempt
<1>5. ASSUME NEW n \in AttemptNo, n < row.attempt
      PROVE  newlog[n + 1].started >= newlog[n].finished + Backoff(n)
  <2>1. n + 1 \in AttemptNo /\ n # row.attempt + 1 /\ n + 1 # row.attempt + 1
    BY <1>1, <1>5, StoreAssumption DEF AttemptNo
  <2> QED BY <1>4, <1>5, <2>1 DEF Spaced
<1>6. ASSUME row.attempt \in AttemptNo
      PROVE  newlog[row.attempt + 1].started
               >= newlog[row.attempt].finished + Backoff(row.attempt)
  <2>1. row.state = "RETRYING" /\ row.due <= now
    BY <1>1, <1>6, StoreAssumption DEF Claimable, TaskInv, Budgeted, AttemptNo
  <2>2. newlog[row.attempt] = log[row.attempt]
    BY <1>1, <1>4, <1>6
  <2> QED BY <1>4, <2>1, <2>2 DEF Spaced
<1>7. \A n \in AttemptNo : n < row.attempt + 1 => n < row.attempt \/ n = row.attempt
  BY <1>1, StoreAssumption DEF AttemptNo
<1> HIDE DEF new, newlog
<1>8. \A n \in AttemptNo :
        n < new.attempt => newlog[n + 1].started >= newlog[n].finished + Backoff(n)
  BY <1>3, <1>5, <1>6, <1>7
<1> QED BY <1>3, <1>8 DEF Spaced, new, newlog

(* _finish records the end of the attempt and the due time from one clock. *)
LEMMA SettledSpaced ==
  ASSUME NEW row \in TaskRow, NEW log \in [AttemptNo -> AttemptRow], TaskInv(row, log),
         Spaced(row, log), row.state = "RUNNING", NEW now \in Nat, NEW result
  PROVE  Spaced(Settled(row, now, result),
                [log EXCEPT ![row.attempt] =
                  Closed(@, IF result # 0 THEN "COMPLETED" ELSE "FAILED", now)])
<1> DEFINE new == Settled(row, now, result)
           outcome == IF result # 0 THEN "COMPLETED" ELSE "FAILED"
           newlog == [log EXCEPT ![row.attempt] = Closed(@, outcome, now)]
<1>1. row.attempt \in AttemptNo
  BY DEF TaskInv, Retried
<1>2. new.attempt = row.attempt /\ new.due = now + Backoff(row.attempt)
  BY DEF Settled, TaskRow
<1>3. /\ newlog[row.attempt].finished = now
      /\ newlog[row.attempt].started = log[row.attempt].started
      /\ \A n \in AttemptNo : n # row.attempt => newlog[n] = log[n]
  BY <1>1 DEF Closed, AttemptRow
<1> HIDE DEF new, newlog
<1>4. ASSUME NEW n \in AttemptNo, n < row.attempt
      PROVE  newlog[n + 1].started >= newlog[n].finished + Backoff(n)
  <2>1. n + 1 \in AttemptNo /\ n # row.attempt
    BY <1>1, <1>4, StoreAssumption DEF AttemptNo
  <2>2. newlog[n] = log[n] /\ newlog[n + 1].started = log[n + 1].started
    BY <1>3, <2>1
  <2> QED BY <1>4, <2>2 DEF Spaced
<1>5. new.due = newlog[new.attempt].finished + Backoff(new.attempt)
  BY <1>2, <1>3
<1> QED BY <1>2, <1>4, <1>5 DEF Spaced, new, newlog

(* A cancellation closes only the last attempt, which no retry follows. *)
LEMMA WithdrawnSpaced ==
  ASSUME NEW row \in TaskRow, NEW log \in [AttemptNo -> AttemptRow], TaskInv(row, log),
         Spaced(row, log), NEW now
  PROVE  Spaced(Withdrawn(row),
                [n \in AttemptNo |-> IF log[n].state = "RUNNING"
                                    THEN Closed(log[n], "CANCELLED", now) ELSE log[n]])
<1> DEFINE new == Withdrawn(row)
           newlog == [n \in AttemptNo |-> IF log[n].state = "RUNNING"
                                         THEN Closed(log[n], "CANCELLED", now) ELSE log[n]]
<1>1. new.state = "CANCELLED" /\ new.attempt = row.attempt /\ row.attempt \in 0..MaxAttempts
  BY DEF Withdrawn, TaskRow
<1>2. \A n \in AttemptNo : newlog[n].started = log[n].started
  BY DEF Closed, AttemptRow
<1>3. \A n \in AttemptNo : n < row.attempt => newlog[n] = log[n]
  BY <1>1, StoreAssumption DEF TaskInv, Matched, AttemptNo
<1> HIDE DEF new, newlog
<1>4. ASSUME NEW n \in AttemptNo, n < row.attempt
      PROVE  newlog[n + 1].started >= newlog[n].finished + Backoff(n)
  <2>1. n + 1 \in AttemptNo
    BY <1>1, <1>4, StoreAssumption DEF AttemptNo
  <2> QED BY <1>2, <1>3, <1>4, <2>1 DEF Spaced
<1> QED BY <1>1, <1>4 DEF Spaced, new, newlog

(* _finish on any set of running tasks keeps the spacing of every task. *)
LEMMA FinishRowsSpaced ==
  ASSUME TablesInv, AllSpaced, NEW S \in SUBSET {t \in Task : tasks[t].state = "RUNNING"},
         NEW now \in Nat, NEW result, FinishRows(S, now, result)
  PROVE  AllSpaced'
<1> SUFFICES ASSUME NEW t \in Task PROVE Spaced(tasks'[t], attempts'[t])
  BY DEF AllSpaced
<1>1. /\ tasks[t] \in TaskRow /\ attempts[t] \in [AttemptNo -> AttemptRow]
      /\ TaskInv(tasks[t], attempts[t]) /\ Spaced(tasks[t], attempts[t])
  BY DEF TablesInv, TypeOK, AllTasksInv, AllSpaced
<1>2. CASE t \notin S
  BY <1>1, <1>2 DEF FinishRows
<1>3. CASE t \in S
  BY <1>1, <1>3, SettledSpaced DEF FinishRows
<1> QED BY <1>2, <1>3

(* Every transaction keeps the spacing. *)
LEMMA WritesKeepSpacing == ASSUME TablesInv, AllSpaced, Writes PROVE AllSpaced'
<1>1. ASSUME NEW w \in Worker, Claim(w) PROVE AllSpaced'
  <2> DEFINE t == wcall[w].task
             now == wcall[w].now
  <2>1. t \in Task /\ now \in Nat /\ Claimable(tasks[t], now)
    BY <1>1 DEF Claim, TablesInv, CallsOK, TypeOK
  <2>2. PICK token :
          /\ tasks' = [tasks EXCEPT ![t] = Claimed(tasks[t], token, now)]
          /\ attempts' = [attempts EXCEPT ![t] =
                   [attempts[t] EXCEPT ![tasks[t].attempt + 1] = NewAttempt(token, now)]]
    BY <1>1 DEF Claim
  <2>3. \A s \in Task : s # t => tasks'[s] = tasks[s] /\ attempts'[s] = attempts[s]
    BY <2>2 DEF TablesInv, TypeOK
  <2>4. /\ tasks[t] \in TaskRow /\ attempts[t] \in [AttemptNo -> AttemptRow]
        /\ TaskInv(tasks[t], attempts[t]) /\ Spaced(tasks[t], attempts[t])
    BY <2>1 DEF TablesInv, TypeOK, AllTasksInv, AllSpaced
  <2>5. Spaced(tasks'[t], attempts'[t])
    BY <2>1, <2>2, <2>4, ClaimedSpaced DEF TablesInv, TypeOK
  <2> QED BY <2>3, <2>5 DEF AllSpaced
<1>2. ASSUME NEW w \in Worker, Heartbeat(w) PROVE AllSpaced'
  <2> DEFINE t == wcall[w].task
             new == Renewed(tasks[t], wcall[w].now, wcall[w].attempt)
  <2>1. t \in Task /\ tasks[t].state = "RUNNING"
    BY <1>2, HolderIsLast DEF Heartbeat
  <2>2. new.state = "RUNNING" /\ new.attempt = tasks[t].attempt
    BY <2>1 DEF Renewed, TablesInv, TypeOK, TaskRow
  <2>3. Spaced(new, attempts[t])
    BY <2>1, <2>2 DEF Spaced, AllSpaced
  <2> QED BY <1>2, <2>1, <2>3 DEF Heartbeat, TablesInv, TypeOK, AllSpaced
<1>3. ASSUME NEW w \in Worker, NEW result \in {0, wcall[w].attempt}, Finish(w, result)
      PROVE AllSpaced'
  <2> DEFINE t == wcall[w].task
  <2>1. t \in Task /\ wcall[w].now \in Nat /\ tasks[t].state = "RUNNING"
    BY <1>3, HolderIsLast DEF Finish
  <2> QED BY <1>3, <2>1, FinishRowsSpaced DEF Finish
<1>4. CASE Recover
  <2>1. ccall.now \in Nat
    BY <1>4 DEF Recover, TablesInv, CallsOK, TypeOK
  <2> QED BY <1>4, <2>1, FinishRowsSpaced DEF Recover, Expired
<1>5. CASE DispatchDue
  <2>1. \A row \in TaskRow : \A now :
          /\ Dispatched(row, now).state = row.state
          /\ Dispatched(row, now).attempt = row.attempt
          /\ Dispatched(row, now).due = row.due
    BY DEF Dispatched, TaskRow
  <2>2. \A row \in TaskRow : \A log, now : Spaced(row, log) => Spaced(Dispatched(row, now), log)
    BY <2>1 DEF Spaced
  <2> QED BY <1>5, <2>2 DEF DispatchDue, TablesInv, TypeOK, AllSpaced
<1>6. ASSUME NEW c \in Client, Cancel(c) PROVE AllSpaced'
  <2> SUFFICES ASSUME NEW t \in Task PROVE Spaced(tasks'[t], attempts'[t])
    BY DEF AllSpaced
  <2> DEFINE j == ucall[c].job
             now == ucall[c].now
  <2>1. /\ tasks[t] \in TaskRow /\ attempts[t] \in [AttemptNo -> AttemptRow]
        /\ TaskInv(tasks[t], attempts[t]) /\ Spaced(tasks[t], attempts[t])
    BY DEF TablesInv, TypeOK, AllTasksInv, AllSpaced
  <2>2. /\ tasks'[t] = IF JobOf(t) = j /\ Open(tasks[t]) THEN Withdrawn(tasks[t]) ELSE tasks[t]
        /\ attempts'[t] = [n \in AttemptNo |->
             IF JobOf(t) = j /\ attempts[t][n].state = "RUNNING"
             THEN Closed(attempts[t][n], "CANCELLED", now) ELSE attempts[t][n]]
    BY <1>6 DEF Cancel
  <2>3. CASE JobOf(t) # j
    BY <2>1, <2>2, <2>3
  <2>4. CASE JobOf(t) = j /\ Open(tasks[t])
    <3>1. attempts'[t] = [n \in AttemptNo |->
             IF attempts[t][n].state = "RUNNING"
             THEN Closed(attempts[t][n], "CANCELLED", now) ELSE attempts[t][n]]
      BY <2>2, <2>4
    <3> QED BY <2>1, <2>2, <2>4, <3>1, WithdrawnSpaced
  <2>5. CASE JobOf(t) = j /\ ~ Open(tasks[t])
    <3>1. \A n \in AttemptNo : attempts[t][n].state # "RUNNING"
      BY <2>1, <2>5 DEF Open, TERMINAL, TaskInv, Matched
    <3>2. attempts'[t] = attempts[t]
      BY <2>1, <2>2, <3>1
    <3> QED BY <2>1, <2>2, <2>5, <3>2
  <2> QED BY <2>3, <2>4, <2>5
<1>7. ASSUME NEW c \in Client, NEW j \in Job, SubmitInsert(c, j) PROVE AllSpaced'
  <2>1. \A now : NewTask(now).state = "PENDING" /\ NewTask(now).attempt = 0
    BY DEF NewTask, AbsentTask
  <2>2. \A now, log : Spaced(NewTask(now), log)
    BY <2>1, StoreAssumption DEF Spaced, AttemptNo
  <2> QED BY <1>7, <2>2 DEF SubmitInsert, AllSpaced
<1> QED BY <1>1, <1>2, <1>3, <1>4, <1>5, <1>6, <1>7 DEF Writes

(* A retry starts no earlier than its backoff after the failure was         *)
(* recorded, whatever the delays between reading clocks and committing.     *)
THEOREM RetriesSpaced == Spec => []RetrySpacing
<1>1. Init => AllSpaced
  BY StoreAssumption DEF Init, AllSpaced, Spaced, AbsentTask, AttemptNo
<1>2. TablesFull /\ AllSpaced /\ [Next]_vars => AllSpaced'
  <2> SUFFICES ASSUME TablesFull, AllSpaced, [Next]_vars PROVE AllSpaced'
    OBVIOUS
  <2>1. CASE Writes
    BY <2>1, WritesKeepSpacing DEF TablesFull
  <2>2. CASE UNCHANGED db
    BY <2>2 DEF db, AllSpaced
  <2> QED BY <2>1, <2>2, TablesStep
<1> QED BY <1>1, <1>2, SpacedParts, TablesFullHolds, PTL DEF Spec

-----------------------------------------------------------------------------
(* The lease of a running attempt *)

(* A lease runs from a time its owner has read, and an owner reads the clock *)
(* anew for each call: the lease of a running row ends no later than what    *)
(* the clock, or the clock that any call of its owner under way has read,    *)
(* would extend it to.  So no such call could shorten it.                    *)
LeasesFollow ==
  \A t \in Task : tasks[t].state = "RUNNING" =>
    /\ tasks[t].lease <= clock + LeaseSeconds
    /\ \A w \in Worker :
         wcall[w].op = "call" /\ wcall[w].task = t /\ wcall[w].token = tasks[t].token
         => tasks[t].lease <= wcall[w].now + LeaseSeconds

(* What LeasesFollow does not see: no lease begins or moves, and a call that *)
(* begins reads the present clock.                                           *)
LeasesUntouched ==
  /\ \A t \in Task : tasks'[t].state = "RUNNING" =>
       /\ tasks[t].state = "RUNNING"
       /\ tasks'[t].token = tasks[t].token /\ tasks'[t].lease = tasks[t].lease
  /\ clock' \in {clock, clock + 1}
  /\ \A w \in Worker : wcall'[w].op = "call" =>
       wcall'[w] = wcall[w] \/ wcall'[w].now = clock

LEMMA UntouchedLeases ==
  ASSUME TypeOK, TypeOK', LeasesFollow, LeasesUntouched
  PROVE  LeasesFollow'
<1> SUFFICES ASSUME NEW t \in Task, tasks'[t].state = "RUNNING"
             PROVE  /\ tasks'[t].lease <= clock' + LeaseSeconds
                    /\ \A w \in Worker :
                         wcall'[w].op = "call" /\ wcall'[w].task = t
                         /\ wcall'[w].token = tasks'[t].token
                         => tasks'[t].lease <= wcall'[w].now + LeaseSeconds
  BY DEF LeasesFollow
<1>1. /\ tasks[t].state = "RUNNING"
      /\ tasks'[t].token = tasks[t].token /\ tasks'[t].lease = tasks[t].lease
  BY DEF LeasesUntouched
<1>2. clock \in Nat /\ LeaseSeconds \in Nat /\ tasks[t].lease \in Int
  BY StoreAssumption DEF TypeOK, TaskRow, Time, NoTime
<1>3. tasks[t].lease <= clock + LeaseSeconds
  BY <1>1 DEF LeasesFollow
<1>4. tasks'[t].lease <= clock' + LeaseSeconds
  BY <1>1, <1>2, <1>3 DEF LeasesUntouched
<1>5. ASSUME NEW w \in Worker, wcall'[w].op = "call", wcall'[w].task = t,
             wcall'[w].token = tasks'[t].token
      PROVE  tasks'[t].lease <= wcall'[w].now + LeaseSeconds
  <2>1. CASE wcall'[w] = wcall[w]
    BY <1>1, <1>5, <2>1 DEF LeasesFollow
  <2>2. CASE wcall'[w].now = clock
    BY <1>1, <1>3, <2>2
  <2> QED BY <1>5, <2>1, <2>2 DEF LeasesUntouched
<1> QED BY <1>4, <1>5

(* Calls that write nothing touch no lease. *)
LEMMA CallsOnlyLeaveLeases == ASSUME TypeOK, CallsOnly PROVE LeasesUntouched
<1> USE DEF TypeOK, db, LeasesUntouched
<1>1. CASE Tick
  BY <1>1 DEF Tick
<1>2. ASSUME NEW w \in Worker, NEW t \in Task, BeginClaim(w, t) PROVE LeasesUntouched
  BY <1>2 DEF BeginClaim
<1>3. ASSUME NEW w \in Worker, BeginOwned(w) PROVE LeasesUntouched
  BY <1>3 DEF BeginOwned, AtCall, WorkerCall
<1>4. ASSUME NEW w \in Worker, ClaimIgnored(w) \/ WorkerGone(w) PROVE LeasesUntouched
  BY <1>4 DEF ClaimIgnored, WorkerGone, IdleWorker
<1>5. ASSUME NEW w \in Worker, FencedOut(w) \/ WorkerRollback(w) PROVE LeasesUntouched
  BY <1>5 DEF FencedOut, WorkerRollback, Returned, AtCall, WorkerCall
<1>6. ASSUME NEW c \in Client,
             \/ \E request \in Request, key \in Key \cup {NoKey} : BeginSubmit(c, request, key)
             \/ \E j \in Job : BeginCancel(c, j)
             \/ SubmitExisting(c) \/ SubmitConflict(c) \/ SubmitOverCapacity(c)
             \/ SubmitKeyClash(c) \/ CancelRefused(c) \/ ClientRollback(c)
      PROVE  LeasesUntouched
  BY <1>6 DEF BeginSubmit, BeginCancel, SubmitExisting, SubmitConflict, SubmitOverCapacity,
    SubmitKeyClash, CancelRefused, ClientRollback
<1>7. CASE BeginCoordinator \/ CoordinatorRollback
  BY <1>7 DEF BeginCoordinator, CoordinatorRollback
<1> QED BY <1>1, <1>2, <1>3, <1>4, <1>5, <1>6, <1>7 DEF CallsOnly

(* Of the transactions, only a claim and a heartbeat set a lease. *)
LEMMA WritesLeaveLeases ==
  ASSUME TablesInv, Writes, \A w \in Worker : ~ Claim(w) /\ ~ Heartbeat(w)
  PROVE  LeasesUntouched
<1> USE DEF LeasesUntouched
<1>0. TypeOK
  BY DEF TablesInv
<1>1. ASSUME NEW S \in SUBSET {s \in Task : tasks[s].state = "RUNNING"}, NEW now, NEW result,
             FinishRows(S, now, result), NEW t \in Task, tasks'[t].state = "RUNNING"
      PROVE  tasks'[t] = tasks[t]
  <2>1. \A row \in TaskRow : Settled(row, now, result).state # "RUNNING"
    BY DEF Settled, TaskRow
  <2> QED BY <1>0, <1>1, <2>1 DEF FinishRows, TypeOK
<1>2. ASSUME NEW w \in Worker, NEW result \in {0, wcall[w].attempt}, Finish(w, result)
      PROVE LeasesUntouched
  <2>1. {wcall[w].task} \in SUBSET {s \in Task : tasks[s].state = "RUNNING"}
    BY <1>2, HolderIsLast DEF Finish
  <2>2. \A t \in Task : tasks'[t].state = "RUNNING" => tasks'[t] = tasks[t]
    BY <1>1, <1>2, <2>1 DEF Finish
  <2>3. wcall' = [wcall EXCEPT ![w] = AtCall(@, "own", NoTime)] /\ clock' = clock
    BY <1>2 DEF Finish, Returned
  <2>4. AtCall(wcall[w], "own", NoTime).op = "own"
    BY <1>0 DEF AtCall, WorkerCall, TypeOK
  <2>5. \A v \in Worker : wcall'[v].op = "call" => wcall'[v] = wcall[v]
    BY <1>0, <2>3, <2>4 DEF TypeOK
  <2> QED BY <2>2, <2>3, <2>5
<1>3. CASE Recover
  BY <1>1, <1>3 DEF Recover, Expired
<1>4. CASE DispatchDue
  <2>1. \A t \in Task : tasks'[t].state = "RUNNING" => tasks'[t] = tasks[t]
    <3>1. \A row \in TaskRow : \A now : Dispatched(row, now).state = row.state
      BY DEF Dispatched, TaskRow
    <3> QED BY <1>0, <1>4, <3>1 DEF DispatchDue, Dispatchable, Claimable, TypeOK
  <2> QED BY <1>4, <2>1 DEF DispatchDue
<1>5. ASSUME NEW c \in Client, Cancel(c) PROVE LeasesUntouched
  <2>1. \A row \in TaskRow : Withdrawn(row).state = "CANCELLED"
    BY DEF Withdrawn, TaskRow
  <2> QED BY <1>0, <1>5, <2>1 DEF Cancel, TypeOK
<1>6. ASSUME NEW c \in Client, NEW j \in Job, SubmitInsert(c, j) PROVE LeasesUntouched
  <2>1. \A now : NewTask(now).state = "PENDING"
    BY DEF NewTask, AbsentTask
  <2> QED BY <1>6, <2>1 DEF SubmitInsert
<1> QED BY <1>2, <1>3, <1>4, <1>5, <1>6 DEF Writes

(* A claim sets the lease of an attempt that nobody else calls for. *)
LEMMA ClaimLeases ==
  ASSUME TablesInv, LeasesFollow, NEW w \in Worker, Claim(w)
  PROVE  LeasesFollow'
<1> DEFINE t == wcall[w].task
           now == wcall[w].now
<1>1. /\ t \in Task /\ now \in 0..clock /\ clock \in Nat /\ clock' = clock
      /\ tasks[t].state # "RUNNING" /\ TypeOK /\ CallsOK
  BY DEF Claim, TablesInv, CallsOK, TypeOK, Claimable
<1>2. PICK token \in FreshTokens(t) :
        /\ tasks' = [tasks EXCEPT ![t] = Claimed(tasks[t], token, now)]
        /\ wcall' = [wcall EXCEPT ![w] = [op |-> "own", task |-> t, token |-> token,
                                         attempt |-> tasks[t].attempt + 1, now |-> NoTime]]
  BY DEF Claim
<1>3. tasks'[t].token = token /\ tasks'[t].lease = now + LeaseSeconds
  BY <1>1, <1>2 DEF Claimed, TypeOK, TaskRow
<1>4. \A s \in Task : s # t => tasks'[s] = tasks[s]
  BY <1>1, <1>2 DEF TypeOK
<1>5. wcall'[w].op = "own" /\ \A v \in Worker : v # w => wcall'[v] = wcall[v]
  BY <1>1, <1>2 DEF TypeOK
<1>6. ASSUME NEW v \in Worker, wcall[v].op = "call", wcall[v].task = t PROVE wcall[v].token # token
  <2>1. /\ attempts[t][wcall[v].attempt].token = wcall[v].token
        /\ wcall[v].attempt \in 1..tasks[t].attempt
    BY <1>1, <1>6 DEF CallsOK
  <2>2. wcall[v].attempt \in AttemptNo
    BY <1>1, <2>1, StoreAssumption DEF TypeOK, TaskRow, AttemptNo
  <2> QED BY <1>2, <2>1, <2>2 DEF FreshTokens
<1>7. tasks'[t].lease <= clock' + LeaseSeconds
  BY <1>1, <1>3, StoreAssumption
<1> HIDE DEF t, now
<1> SUFFICES ASSUME NEW s \in Task, tasks'[s].state = "RUNNING"
             PROVE  /\ tasks'[s].lease <= clock' + LeaseSeconds
                    /\ \A v \in Worker :
                         wcall'[v].op = "call" /\ wcall'[v].task = s
                         /\ wcall'[v].token = tasks'[s].token
                         => tasks'[s].lease <= wcall'[v].now + LeaseSeconds
  BY DEF LeasesFollow
<1>8. CASE s = t
  BY <1>3, <1>5, <1>6, <1>7, <1>8
<1>9. CASE s # t
  BY <1>1, <1>4, <1>5, <1>9 DEF LeasesFollow
<1> QED BY <1>8, <1>9

(* A heartbeat renews the lease from a clock its owner read before; there is *)
(* no other caller the lease would have to suit.                             *)
LEMMA HeartbeatLeases ==
  ASSUME TablesInv, OneOwner, LeasesFollow, NEW w \in Worker, Heartbeat(w)
  PROVE  LeasesFollow'
<1> DEFINE t == wcall[w].task
           now == wcall[w].now
<1>1. /\ t \in Task /\ now \in 0..clock /\ clock \in Nat /\ clock' = clock
      /\ tasks[t].state = "RUNNING" /\ tasks[t].token = wcall[w].token /\ TypeOK
  BY HolderIsLast DEF Heartbeat, Holds, TablesInv, CallsOK, TypeOK
<1>2. tasks' = [tasks EXCEPT ![t] = Renewed(tasks[t], now, wcall[w].attempt)]
  BY DEF Heartbeat
<1>3. tasks'[t].token = tasks[t].token /\ tasks'[t].lease = now + LeaseSeconds
  BY <1>1, <1>2 DEF Renewed, TypeOK, TaskRow
<1>4. \A s \in Task : s # t => tasks'[s] = tasks[s]
  BY <1>1, <1>2 DEF TypeOK
<1>5. wcall'[w].op = "own" /\ \A v \in Worker : v # w => wcall'[v] = wcall[v]
  BY <1>1 DEF Heartbeat, Returned, AtCall, TypeOK, WorkerCall
<1>6. \A v \in Worker : wcall[v].task = t /\ wcall[v].token = tasks[t].token => v = w
  BY <1>1 DEF OneOwner
<1>7. tasks'[t].lease <= clock' + LeaseSeconds
  BY <1>1, <1>3, StoreAssumption
<1> HIDE DEF t, now
<1> SUFFICES ASSUME NEW s \in Task, tasks'[s].state = "RUNNING"
             PROVE  /\ tasks'[s].lease <= clock' + LeaseSeconds
                    /\ \A v \in Worker :
                         wcall'[v].op = "call" /\ wcall'[v].task = s
                         /\ wcall'[v].token = tasks'[s].token
                         => tasks'[s].lease <= wcall'[v].now + LeaseSeconds
  BY DEF LeasesFollow
<1>8. CASE s = t
  BY <1>3, <1>5, <1>6, <1>7, <1>8
<1>9. CASE s # t
  BY <1>1, <1>4, <1>5, <1>9 DEF LeasesFollow
<1> QED BY <1>8, <1>9

(* LeasesFollow is inductive on top of the invariants of the tables. *)
LEMMA StepKeepsLeases == TablesFull /\ TypeOK' /\ OneOwner /\ LeasesFollow /\ [Next]_vars => LeasesFollow'
<1> SUFFICES ASSUME TablesFull, TypeOK', OneOwner, LeasesFollow, [Next]_vars PROVE LeasesFollow'
  OBVIOUS
<1>1. TablesInv /\ TypeOK
  BY DEF TablesFull, TablesInv
<1>2. CASE Writes
  <2>1. CASE \A w \in Worker : ~ Claim(w) /\ ~ Heartbeat(w)
    BY <1>1, <1>2, <2>1, WritesLeaveLeases, UntouchedLeases
  <2>2. ASSUME NEW w \in Worker, Claim(w) \/ Heartbeat(w) PROVE LeasesFollow'
    BY <1>1, <2>2, ClaimLeases, HeartbeatLeases
  <2> QED BY <2>1, <2>2
<1>3. CASE CallsOnly
  BY <1>1, <1>3, CallsOnlyLeaveLeases, UntouchedLeases
<1>4. CASE UNCHANGED vars
  BY <1>4 DEF vars, db, LeasesFollow
<1> QED BY <1>2, <1>3, <1>4, StepKinds

(* In every reachable state a running lease is no later than any call of its *)
(* owner under way would extend it to.                                       *)
THEOREM LeasesFollowHolds == Spec => []LeasesFollow
<1>1. Init => LeasesFollow
  BY DEF Init, LeasesFollow, AbsentTask
<1> QED BY <1>1, StepKeepsLeases, TablesFullHolds, TypeCorrect, OwnerUnique, PTL DEF Spec

(* One step keeps the promise of every lease. *)
LEMMA StepKeepsPromise ==
  ASSUME TablesFull, LeasesFollow, [Next]_vars, NEW t \in Task, tasks[t].state = "RUNNING"
  PROVE  /\ tasks'[t].state = "RUNNING" => tasks'[t].lease >= tasks[t].lease
         /\ tasks'[t].state \in {"RETRYING", "FAILED"} /\ ccall'.op # ccall.op =>
              tasks[t].lease < clock
<1>1. TablesInv /\ TypeOK /\ CallsOK
  BY DEF TablesFull, TablesInv
<1>2. tasks[t].lease \in Int
  BY <1>1 DEF TypeOK, TaskRow, Time, NoTime
<1>3. ASSUME NEW w \in Worker, Claim(w) PROVE tasks'[t] = tasks[t]
  <2>1. wcall[w].task # t
    BY <1>3 DEF Claim, Claimable
  <2> QED BY <1>1, <1>3, <2>1 DEF Claim, TypeOK
<1>4. ASSUME NEW w \in Worker, Heartbeat(w)
      PROVE  tasks'[t].state = "RUNNING" /\ tasks'[t].lease >= tasks[t].lease
  <2>1. CASE wcall[w].task = t
    <3>1. tasks[t].lease <= wcall[w].now + LeaseSeconds
      BY <1>4, <2>1 DEF LeasesFollow, Heartbeat, Holds
    <3>2. tasks'[t] = Renewed(tasks[t], wcall[w].now, wcall[w].attempt)
      BY <1>1, <1>4, <2>1 DEF Heartbeat, TypeOK
    <3>3. tasks'[t].state = "RUNNING" /\ tasks'[t].lease = wcall[w].now + LeaseSeconds
      BY <1>1, <3>2 DEF Renewed, TypeOK, TaskRow
    <3>4. wcall[w].now + LeaseSeconds \in Int
      BY <1>1, <1>4, StoreAssumption DEF Heartbeat, CallsOK, TypeOK
    <3> QED BY <1>2, <3>1, <3>3, <3>4
  <2>2. CASE wcall[w].task # t
    BY <1>1, <1>2, <1>4, <2>2 DEF Heartbeat, TypeOK
  <2> QED BY <2>1, <2>2
<1>5. CASE Recover
  <2>1. tasks'[t].state \in {"RETRYING", "FAILED"} => tasks[t].lease < ccall.now
    BY <1>5 DEF Recover, FinishRows, Expired
  <2>2. ccall.now \in 0..clock /\ clock \in Nat
    BY <1>1, <1>5 DEF Recover, CallsOK, TypeOK
  <2>3. tasks[t].lease < ccall.now => tasks[t].lease < clock
    BY <1>2, <2>2
  <2>4. tasks'[t].state = "RUNNING" => tasks'[t] = tasks[t]
    <3>1. Settled(tasks[t], ccall.now, 0).state # "RUNNING"
      BY <1>1 DEF Settled, TypeOK, TaskRow
    <3> QED BY <1>5, <3>1 DEF Recover, FinishRows
  <2> QED BY <1>2, <2>1, <2>3, <2>4
<1>6. CASE DispatchDue
  <2>1. tasks'[t] = tasks[t]
    BY <1>6 DEF DispatchDue, Dispatchable, Claimable
  <2> QED BY <1>2, <2>1
<1>7. ASSUME Writes, ~ Recover, ~ DispatchDue PROVE ccall' = ccall
  BY <1>7 DEF Writes, Claim, Heartbeat, Finish, Cancel, SubmitInsert
<1>8. CASE CallsOnly \/ UNCHANGED vars
  <2>1. tasks' = tasks
    BY <1>8 DEF CallsOnly, Tick, BeginClaim, BeginOwned, ClaimIgnored, FencedOut, WorkerRollback,
      WorkerGone, BeginSubmit, BeginCancel, SubmitExisting, SubmitConflict, SubmitOverCapacity,
      SubmitKeyClash, CancelRefused, ClientRollback, BeginCoordinator, CoordinatorRollback, vars, db
  <2> QED BY <1>2, <2>1
<1>9. ASSUME Writes, \A w \in Worker : ~ Claim(w) /\ ~ Heartbeat(w)
      PROVE  tasks'[t].state = "RUNNING" => tasks'[t].lease = tasks[t].lease
  BY <1>1, <1>9, WritesLeaveLeases DEF LeasesUntouched
<1> QED BY <1>2, <1>3, <1>4, <1>5, <1>6, <1>7, <1>8, <1>9, StepKinds

(* While one attempt runs its lease only moves forward, and recovery takes a *)
(* task only once its lease has run out, whatever the delays between reading *)
(* a clock and committing.                                                   *)
THEOREM LeasesKept == Spec => LeaseIsKept
<1> DEFINE A == \A t \in Task : tasks[t].state = "RUNNING" =>
                  /\ tasks'[t].state = "RUNNING" => tasks'[t].lease >= tasks[t].lease
                  /\ tasks'[t].state \in {"RETRYING", "FAILED"} /\ ccall'.op # ccall.op =>
                       tasks[t].lease < clock
<1>1. TablesFull /\ LeasesFollow /\ [Next]_vars => [A]_vars
  BY StepKeepsPromise
<1> HIDE DEF A
<1>2. Spec => [][A]_vars
  BY <1>1, TablesFullHolds, LeasesFollowHolds, PTL DEF Spec
<1> QED BY <1>2 DEF LeaseIsKept, A

-----------------------------------------------------------------------------
(* Idempotency keys *)

(* What UNIQUE promises of request_key, NULLs apart; and a call that is under *)
(* way has no answer yet.                                                     *)
KeysUnique ==
  \A i, j \in Job :
    /\ jobs[i].state # "ABSENT" /\ jobs[j].state # "ABSENT"
    /\ jobs[i].key = jobs[j].key /\ jobs[i].key # NoKey
    => i = j

Unanswered == \A c \in Client : ucall[c].op = "submit" => ucall[c].reply = "none"

(* No transaction but an insertion makes a job row or changes its key. *)
LEMMA JobKeysStay ==
  ASSUME TablesInv, Writes, \A c \in Client, j \in Job : ~ SubmitInsert(c, j), NEW j \in Job
  PROVE  jobs'[j].key = jobs[j].key /\ (jobs'[j].state # "ABSENT" => jobs[j].state # "ABSENT")
<1>1. TypeOK /\ CallsOK /\ JobsKnown
  BY DEF TablesInv
<1>2. jobs[j] \in JobRow
  BY <1>1 DEF TypeOK
<1>3. \A state, now : JudgedAs(jobs[j], state, now).key = jobs[j].key
  BY <1>2 DEF JudgedAs, JobRow
<1>4. ASSUME NEW S \in SUBSET {t \in Task : tasks[t].state = "RUNNING"}, NEW now, NEW result,
             FinishRows(S, now, result)
      PROVE  jobs'[j].key = jobs[j].key /\ (jobs'[j].state # "ABSENT" => jobs[j].state # "ABSENT")
  <2>1. CASE \E t \in S : JobOf(t) = j
    BY <1>1, <1>3, <1>4, <2>1 DEF FinishRows, Refreshed, JobsKnown
  <2>2. CASE ~ \E t \in S : JobOf(t) = j
    BY <1>4, <2>2 DEF FinishRows
  <2> QED BY <2>1, <2>2
<1>5. ASSUME NEW w \in Worker, Claim(w)
      PROVE  jobs'[j].key = jobs[j].key /\ (jobs'[j].state # "ABSENT" => jobs[j].state # "ABSENT")
  <2>1. wcall[w].task \in Task /\ tasks[wcall[w].task].state # "ABSENT"
    BY <1>1, <1>5 DEF Claim, Claimable, CallsOK
  <2>2. jobs[JobOf(wcall[w].task)].state # "ABSENT"
    BY <1>1, <2>1 DEF JobsKnown
  <2>3. jobs' = [jobs EXCEPT ![JobOf(wcall[w].task)] = [@ EXCEPT !.state = "RUNNING"]]
    BY <1>5 DEF Claim
  <2>4. CASE j = JobOf(wcall[w].task)
    BY <1>1, <1>2, <2>2, <2>3, <2>4 DEF TypeOK, JobRow
  <2>5. CASE j # JobOf(wcall[w].task)
    BY <1>1, <2>3, <2>5 DEF TypeOK
  <2> QED BY <2>4, <2>5
<1>6. ASSUME NEW w \in Worker, NEW result \in {0, wcall[w].attempt}, Finish(w, result)
      PROVE  jobs'[j].key = jobs[j].key /\ (jobs'[j].state # "ABSENT" => jobs[j].state # "ABSENT")
  <2>1. {wcall[w].task} \in SUBSET {t \in Task : tasks[t].state = "RUNNING"}
    BY <1>6, HolderIsLast DEF Finish
  <2> QED BY <1>4, <1>6, <2>1 DEF Finish
<1>7. CASE Recover
  BY <1>4, <1>7 DEF Recover, Expired
<1>8. ASSUME NEW c \in Client, Cancel(c)
      PROVE  jobs'[j].key = jobs[j].key /\ (jobs'[j].state # "ABSENT" => jobs[j].state # "ABSENT")
  <2>1. jobs[ucall[c].job].state # "ABSENT"
    BY <1>1, <1>8 DEF Cancel, CallsOK
  <2> QED BY <1>1, <1>3, <1>8, <2>1 DEF Cancel, TypeOK
<1>9. CASE DispatchDue \/ \E w \in Worker : Heartbeat(w)
  BY <1>9 DEF DispatchDue, Heartbeat
<1> QED BY <1>5, <1>6, <1>7, <1>8, <1>9 DEF Writes

(* Keys stay unique: an insertion is made only when no row has its key. *)
LEMMA StepKeepsKeys == TablesFull /\ KeysUnique /\ [Next]_vars => KeysUnique'
<1> SUFFICES ASSUME TablesFull, KeysUnique, [Next]_vars PROVE KeysUnique'
  OBVIOUS
<1>1. TablesInv /\ TypeOK
  BY DEF TablesFull, TablesInv
<1>2. ASSUME NEW c \in Client, NEW j \in Job, SubmitInsert(c, j) PROVE KeysUnique'
  <2>1. /\ jobs'[j].key = ucall[c].key
        /\ \A i \in Job : i # j => jobs'[i] = jobs[i]
    BY <1>1, <1>2 DEF SubmitInsert, TypeOK
  <2>2. ucall[c].key # NoKey => \A i \in Job : jobs[i].state # "ABSENT" => jobs[i].key # ucall[c].key
    BY <1>2 DEF SubmitInsert, KeyTaken, ByKey
  <2> QED BY <2>1, <2>2 DEF KeysUnique
<1>3. ASSUME Writes, \A c \in Client, j \in Job : ~ SubmitInsert(c, j) PROVE KeysUnique'
  BY <1>1, <1>3, JobKeysStay DEF KeysUnique
<1>4. CASE UNCHANGED db
  BY <1>4 DEF db, KeysUnique
<1> QED BY <1>2, <1>3, <1>4, TablesStep

(* Clients: a call gets its answer and ends in one step. *)
LEMMA StepKeepsUnanswered == TypeOK /\ Unanswered /\ [Next]_vars => Unanswered'
<1> SUFFICES ASSUME TypeOK, Unanswered, [Next]_vars, NEW c \in Client, ucall'[c].op = "submit"
             PROVE  ucall'[c].reply = "none"
  BY DEF Unanswered
<1>1. CASE ucall'[c] = ucall[c]
  BY <1>1 DEF Unanswered
<1>2. ASSUME NEW d \in Client, ClientStep(d) PROVE ucall'[c].reply = "none"
  <2>1. \A reply, j : IdleClient(reply, j).op = "idle"
    BY DEF IdleClient
  <2>2. \/ \E reply, j : ucall' = [ucall EXCEPT ![d] = IdleClient(reply, j)]
        \/ \E call : call.reply = "none" /\ ucall' = [ucall EXCEPT ![d] = call]
    BY <1>2, SMTT(20) DEF ClientStep, BeginSubmit, BeginCancel, SubmitExisting, SubmitConflict,
      SubmitOverCapacity, SubmitKeyClash, SubmitInsert, Cancel, CancelRefused, ClientRollback, Reply
  <2> QED BY <1>1, <2>1, <2>2 DEF TypeOK
<1>3. CASE UNCHANGED ucall
  BY <1>1, <1>3
<1>4. ASSUME ~ \E d \in Client : ClientStep(d) PROVE UNCHANGED ucall
  BY <1>4 DEF Next, WorkerStep, CoordinatorStep, Tick, BeginClaim, BeginOwned, Claim, ClaimIgnored,
    Heartbeat, FencedOut, Finish, WorkerRollback, WorkerGone, BeginCoordinator, Recover,
    DispatchDue, CoordinatorRollback, vars
<1> QED BY <1>2, <1>3, <1>4

(* A repeated submission that is answered is answered with its job. *)
LEMMA RepeatFindsJob ==
  ASSUME TypeOK, KeysUnique, Unanswered, [Next]_vars, NEW c \in Client, NEW j \in Job,
         ucall[c].op = "submit", ucall'[c].reply # "none", jobs[j].state # "ABSENT",
         ~ Falsy(ucall[c].key), jobs[j].key = ucall[c].key, jobs[j].request = ucall[c].request
  PROVE  ucall'[c].reply = "existing" /\ ucall'[c].job = j
<1>1. KeyFound(c) /\ ucall[c].key # NoKey
  BY DEF KeyFound, ByKey, Falsy
<1>2. \A i \in ByKey(ucall[c].key) : i = j
  BY <1>1 DEF KeysUnique, ByKey
<1>3. ucall'[c] # ucall[c]
  BY DEF Unanswered
<1>4. \A reply, i : IdleClient(reply, i).reply = reply /\ IdleClient(reply, i).job = i
  BY DEF IdleClient
<1>5. ~ SubmitConflict(c) /\ ~ SubmitOverCapacity(c) /\ ~ SubmitKeyClash(c)
      /\ ~ \E i \in Job : SubmitInsert(c, i)
  BY <1>1, <1>2 DEF SubmitConflict, SubmitOverCapacity, SubmitKeyClash, SubmitInsert
<1>6. ~ Cancel(c) /\ ~ CancelRefused(c)
  BY DEF Cancel, CancelRefused
<1>7. ~ ClientRollback(c)
  BY <1>4 DEF ClientRollback, TypeOK
<1>8. \A request, key, i : ~ BeginSubmit(c, request, key) /\ ~ BeginCancel(c, i)
  BY DEF BeginSubmit, BeginCancel
<1>9. ASSUME NEW d \in Client, d # c PROVE ~ ClientStep(d)
  <2>1. ClientStep(d) => \E call : ucall' = [ucall EXCEPT ![d] = call]
    BY SMTT(20) DEF ClientStep, BeginSubmit, BeginCancel, SubmitExisting, SubmitConflict,
      SubmitOverCapacity, SubmitKeyClash, SubmitInsert, Cancel, CancelRefused, ClientRollback, Reply
  <2> QED BY <1>3, <1>9, <2>1 DEF TypeOK
<1>10. \E d \in Client : ClientStep(d)
  BY <1>3 DEF Next, WorkerStep, CoordinatorStep, Tick, BeginClaim, BeginOwned, Claim, ClaimIgnored,
    Heartbeat, FencedOut, Finish, WorkerRollback, WorkerGone, BeginCoordinator, Recover,
    DispatchDue, CoordinatorRollback, vars
<1>11. SubmitExisting(c)
  BY <1>5, <1>6, <1>7, <1>8, <1>9, <1>10 DEF ClientStep
<1> QED BY <1>2, <1>4, <1>11 DEF SubmitExisting, Reply, TypeOK

(* A submission repeated with its own key always finds its job: never a     *)
(* conflict, a capacity error or a second job.                              *)
THEOREM RetriesFindTheirJob == Spec => RetriedSubmitFindsItsJob
<1> DEFINE A == \A c \in Client, j \in Job :
                  /\ ucall[c].op = "submit" /\ ucall'[c].reply # "none"
                  /\ jobs[j].state # "ABSENT"
                  /\ ~ Falsy(ucall[c].key) /\ jobs[j].key = ucall[c].key
                  /\ jobs[j].request = ucall[c].request
                  => ucall'[c].reply = "existing" /\ ucall'[c].job = j
<1>1. Init => KeysUnique /\ Unanswered
  BY DEF Init, KeysUnique, Unanswered, AbsentJob, IdleClient
<1>2. Spec => []KeysUnique
  BY <1>1, StepKeepsKeys, TablesFullHolds, PTL DEF Spec
<1>3. Spec => []Unanswered
  BY <1>1, StepKeepsUnanswered, TypeCorrect, PTL DEF Spec
<1>4. TypeOK /\ KeysUnique /\ Unanswered /\ [Next]_vars => [A]_vars
  BY RepeatFindsJob
<1> HIDE DEF A
<1>5. Spec => [][A]_vars
  BY <1>2, <1>3, <1>4, TypeCorrect, PTL DEF Spec
<1> QED BY <1>5 DEF RetriedSubmitFindsItsJob, A
=============================================================================
