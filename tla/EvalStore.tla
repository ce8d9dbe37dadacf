------------------------------ MODULE EvalStore ------------------------------
(***************************************************************************)
(* The SQLite authority of the evaluation platform (platform_eval/db.py):  *)
(* the jobs, tasks and attempts tables and every transaction of class      *)
(* Store that writes them.                                                 *)
(*                                                                         *)
(* Each method of Store reads `now = time.time()` BEFORE it asks SQLite    *)
(* for the write lock (BEGIN IMMEDIATE, up to 30 s of busy waiting), so a  *)
(* call is two steps here: Begin<Op> reads the clock into the call, and    *)
(* <Op> is the whole transaction, which uses that possibly old value while *)
(* other calls have committed and the clock has moved in between.          *)
(* Rollback is any call whose transaction raises before its commit.        *)
(*                                                                         *)
(* Callers are as general as the tests use the class: workers claim any    *)
(* known task at any time (Celery delivers at least once), and the holder  *)
(* of a claim may heartbeat, commit or fail it again and again, until it   *)
(* returns or crashes.                                                     *)
(*                                                                         *)
(* Data that no transaction compares is left out: the worker names, the    *)
(* workers presence table (metrics and health checks only), the error      *)
(* texts.  A result or a progress report is the number of the attempt that *)
(* wrote it, 0 being SQL NULL or '{}'.                                     *)
(***************************************************************************)
EXTENDS Integers, FiniteSets

CONSTANTS
  Job,            \* uuid4 job identities that may be created
  Config,         \* (chunker, noise) configurations
  Variant,        \* what else a request hash covers: mode, namespace, fingerprint
  Key,            \* Idempotency-Key header values
  EmptyKey,       \* the empty string, which a header may well hold
  NoKey,          \* no Idempotency-Key header: SQL NULL
  Token,          \* uuid4().hex ownership tokens
  NoToken,        \* SQL NULL in tasks.token
  NoRequest,      \* no request: the row of a job that does not exist
  NoTask, NoJob,  \* a call that names no task, no job
  Worker,         \* threads of control that claim tasks
  Client,         \* API request handlers that submit and cancel
  MaxPending,     \* settings.max_pending
  LeaseSeconds,   \* settings.lease_seconds
  MaxAttempts,    \* settings.max_attempts
  DispatchWindow, \* the 30 seconds of dispatch_due
  BackoffCap,     \* the 300 seconds of _finish
  DispatchLimit,  \* the 16 of tick's min(16, ...)
  MaxClock        \* bound on the clock (for TLC; the proofs hold for any)

ASSUME StoreAssumption ==
  /\ IsFiniteSet(Job) /\ IsFiniteSet(Config)
  /\ NoKey \notin Key \cup {EmptyKey}
  /\ NoToken \notin Token
  /\ NoTask \notin Job \X Config
  /\ NoJob \notin Job
  /\ MaxPending \in Nat /\ LeaseSeconds \in Nat
  /\ MaxAttempts \in Nat \ {0}
  /\ DispatchWindow \in Nat \ {0} /\ DispatchLimit \in Nat \ {0}
  /\ BackoffCap \in Nat /\ MaxClock \in Nat

VARIABLES
  clock,     \* time.time(), assumed monotone: one host, no clock steps back
  jobs,      \* table jobs
  tasks,     \* table tasks
  attempts,  \* table attempts: rows by task and number
  wcall,     \* per worker: the claim it holds and its call in flight
  ucall,     \* per client: its call in flight and the last reply
  ccall      \* the coordinator thread's call in flight

vars == <<clock, jobs, tasks, attempts, wcall, ucall, ccall>>
db == <<jobs, tasks, attempts>>

-----------------------------------------------------------------------------
(* Rows *)

TERMINAL == {"COMPLETED", "FAILED", "CANCELLED"}
JobState == {"PENDING", "RUNNING"} \cup TERMINAL
TaskState == JobState \cup {"RETRYING"}

Task == Job \X Config        \* uuid5(job, chunker/noise): a function of both
JobOf(t) == t[1]
AttemptNo == 1..MaxAttempts
Request == [configs : (SUBSET Config) \ {{}}, variant : Variant]

NoTime == -1                 \* SQL NULL in a REAL column

AbsentJob == [state |-> "ABSENT", key |-> NoKey, request |-> NoRequest,
              created |-> NoTime, finished |-> NoTime]
AbsentTask == [state |-> "ABSENT", attempt |-> 0, token |-> NoToken,
               lease |-> NoTime, due |-> NoTime, dispatched |-> 0,
               progress |-> 0, result |-> 0]
AbsentAttempt == [state |-> "ABSENT", token |-> NoToken,
                  started |-> NoTime, finished |-> NoTime]

IdleWorker == [op |-> "idle", task |-> NoTask, token |-> NoToken,
               attempt |-> 0, now |-> NoTime]
IdleClient(reply, j) == [op |-> "idle", job |-> j, request |-> NoRequest,
                         key |-> NoKey, now |-> NoTime, reply |-> reply]
IdleCoordinator == [op |-> "idle", now |-> NoTime]

(* The rows SELECT ... FROM tasks WHERE job_id = j returns. *)
RowsOf(j, rows) == {t \in Task : JobOf(t) = j /\ rows[t].state # "ABSENT"}
Open(row) == row.state \notin TERMINAL \cup {"ABSENT"}
Outstanding == {t \in Task : Open(tasks[t])}
ByKey(key) == {j \in Job : jobs[j].state # "ABSENT" /\ jobs[j].key = key}
Falsy(key) == key \in {NoKey, EmptyKey}      \* Python's `if key:`

-----------------------------------------------------------------------------
(* Callers *)

Init ==
  /\ clock = DispatchWindow   \* any epoch later than 30 s after 0
  /\ jobs = [j \in Job |-> AbsentJob]
  /\ tasks = [t \in Task |-> AbsentTask]
  /\ attempts = [t \in Task |-> [n \in AttemptNo |-> AbsentAttempt]]
  /\ wcall = [w \in Worker |-> IdleWorker]
  /\ ucall = [c \in Client |-> IdleClient("none", NoJob)]
  /\ ccall = IdleCoordinator

Tick ==
  /\ clock < MaxClock
  /\ clock' = clock + 1
  /\ UNCHANGED <<db, wcall, ucall, ccall>>

AtCall(call, op, now) == [call EXCEPT !.op = op, !.now = now]

BeginClaim(w, t) ==
  /\ wcall[w].op = "idle"
  /\ tasks[t].state # "ABSENT"     \* task ids come from rows that were read
  /\ wcall' = [wcall EXCEPT ![w] = [op |-> "claim", task |-> t, token |-> NoToken,
                                   attempt |-> 0, now |-> clock]]
  /\ UNCHANGED <<clock, db, ucall, ccall>>

(* heartbeat(), finish(result=...) or finish(error=...) with the held claim; *)
(* which of them shows when its transaction runs.                            *)
BeginOwned(w) ==
  /\ wcall[w].op = "own"
  /\ wcall' = [wcall EXCEPT ![w] = AtCall(@, "call", clock)]
  /\ UNCHANGED <<clock, db, ucall, ccall>>

(* The worker's task function returns, or its process dies, at any point. *)
WorkerGone(w) ==
  /\ wcall[w].op # "idle"
  /\ wcall' = [wcall EXCEPT ![w] = IdleWorker]
  /\ UNCHANGED <<clock, db, ucall, ccall>>

BeginSubmit(c, request, key) ==
  /\ ucall[c].op = "idle"
  /\ ucall' = [ucall EXCEPT ![c] =
                 [op |-> "submit", job |-> NoJob, request |-> request,
                  key |-> key, now |-> clock, reply |-> "none"]]
  /\ UNCHANGED <<clock, db, wcall, ccall>>

BeginCancel(c, j) ==
  /\ ucall[c].op = "idle"
  /\ jobs[j].state # "ABSENT"      \* require_job answered
  /\ ucall' = [ucall EXCEPT ![c] =
                 [op |-> "cancel", job |-> j, request |-> NoRequest,
                  key |-> NoKey, now |-> clock, reply |-> "none"]]
  /\ UNCHANGED <<clock, db, wcall, ccall>>

(* recover() or dispatch_due(). *)
BeginCoordinator ==
  /\ ccall.op = "idle"
  /\ ccall' = [op |-> "call", now |-> clock]
  /\ UNCHANGED <<clock, db, wcall, ucall>>

(* The transaction raises (database locked for 30 s, disk full) or the     *)
(* process dies before its commit: connection() rolls everything back.     *)
WorkerRollback(w) ==
  /\ wcall[w].op = "call"
  /\ wcall' = [wcall EXCEPT ![w] = AtCall(@, "own", NoTime)]
  /\ UNCHANGED <<clock, db, ucall, ccall>>

ClientRollback(c) ==
  /\ ucall[c].op # "idle"
  /\ ucall' = [ucall EXCEPT ![c] = IdleClient("none", NoJob)]
  /\ UNCHANGED <<clock, db, wcall, ccall>>

CoordinatorRollback ==
  /\ ccall.op # "idle"
  /\ ccall' = IdleCoordinator
  /\ UNCHANGED <<clock, db, wcall, ucall>>

-----------------------------------------------------------------------------
(* Transactions of the workers *)

(* Three mistakes: the due time forgotten; states excluded instead of listed; *)
(* a lapsed lease taken over in place, without closing the lost attempt.      *)
ClaimableEarly(row, now) == row.state \in {"PENDING", "RETRYING"}
ClaimableUnlessDone(row, now) == row.state \notin {"RUNNING", "COMPLETED"} /\ row.due <= now
ClaimableOnceLapsed(row, now) ==
  \/ row.state \in {"PENDING", "RETRYING"} /\ row.due <= now
  \/ row.state = "RUNNING" /\ row.lease < now

Claimable(row, now) == row.state \in {"PENDING", "RETRYING"} /\ row.due <= now

TokensPerWorker(t) == Token   \* a mistake: a token may come again

(* uuid4 tokens never repeat.  Every query names the task beside the token, *)
(* so being fresh among the attempts of the task is all that matters.       *)
FreshTokens(t) == Token \ {attempts[t][n].token : n \in AttemptNo}

Claimed(row, token, now) ==
  [row EXCEPT !.state = "RUNNING", !.attempt = row.attempt + 1,
              !.token = token, !.lease = now + LeaseSeconds]
NewAttempt(token, now) ==
  [state |-> "RUNNING", token |-> token, started |-> now, finished |-> NoTime]

Claim(w) ==
  LET t == wcall[w].task
      now == wcall[w].now
      number == tasks[t].attempt + 1
  IN /\ wcall[w].op = "claim"
     /\ Claimable(tasks[t], now)
     /\ \E token \in FreshTokens(t) :
          /\ tasks' = [tasks EXCEPT ![t] = Claimed(tasks[t], token, now)]
          /\ attempts' = [attempts EXCEPT ![t] =
                            [attempts[t] EXCEPT ![number] = NewAttempt(token, now)]]
          /\ jobs' = [jobs EXCEPT ![JobOf(t)] = [@ EXCEPT !.state = "RUNNING"]]
          /\ wcall' = [wcall EXCEPT ![w] =
                         [op |-> "own", task |-> t, token |-> token,
                          attempt |-> number, now |-> NoTime]]
     /\ UNCHANGED <<clock, ucall, ccall>>

ClaimIgnored(w) ==
  /\ wcall[w].op = "claim"
  /\ ~ Claimable(tasks[wcall[w].task], wcall[w].now)
  /\ wcall' = [wcall EXCEPT ![w] = IdleWorker]
  /\ UNCHANGED <<clock, db, ucall, ccall>>

HoldsUnfenced(row, token, now) ==   \* a mistake: the token is not compared
  row.state = "RUNNING" /\ row.lease > now

(* WHERE id=? AND token=? AND state='RUNNING' AND lease>? *)
Holds(row, token, now) == row.token = token /\ row.state = "RUNNING" /\ row.lease > now

Returned(w) == wcall' = [wcall EXCEPT ![w] = AtCall(@, "own", NoTime)]

Renewed(row, now, progress) ==
  [row EXCEPT !.lease = now + LeaseSeconds, !.progress = progress]

Heartbeat(w) ==
  LET t == wcall[w].task
  IN /\ wcall[w].op = "call"
     /\ Holds(tasks[t], wcall[w].token, wcall[w].now)
     /\ tasks' = [tasks EXCEPT ![t] = Renewed(tasks[t], wcall[w].now, wcall[w].attempt)]
     /\ Returned(w)
     /\ UNCHANGED <<clock, jobs, attempts, ucall, ccall>>

LeastOf(a, b) == IF a <= b THEN a ELSE b
Backoff(n) == LeastOf(BackoffCap, 2^n)

SettledOneLess(row, now, result) ==   \* a mistake: the limit on attempts off by one
  [row EXCEPT !.state = IF result # 0 THEN "COMPLETED"
                        ELSE IF row.attempt + 1 >= MaxAttempts THEN "FAILED" ELSE "RETRYING",
              !.result = result, !.lease = NoTime, !.token = NoToken,
              !.due = now + Backoff(row.attempt), !.dispatched = 0]

(* The UPDATE tasks of _finish; result 0 stands for a call with an error. *)
Settled(row, now, result) ==
  [row EXCEPT !.state = IF result # 0 THEN "COMPLETED"
                        ELSE IF row.attempt >= MaxAttempts THEN "FAILED" ELSE "RETRYING",
              !.result = result, !.lease = NoTime, !.token = NoToken,
              !.due = now + Backoff(row.attempt), !.dispatched = 0]

(* A mistake: tasks that agree on their state pass it on to the job, RETRYING *)
(* included.                                                                  *)
RefreshedAlike(states) ==
  IF Cardinality(states) = 1 THEN CHOOSE s \in states : TRUE ELSE "RUNNING"

RefreshedState(states) ==
  IF states \subseteq {"COMPLETED"} THEN "COMPLETED"
  ELSE IF states \subseteq TERMINAL THEN "FAILED"
  ELSE IF states \subseteq {"PENDING"} THEN "PENDING"
  ELSE "RUNNING"

JudgedAs(row, state, now) ==
  [row EXCEPT !.state = state, !.finished = IF state \in TERMINAL THEN now ELSE NoTime]

RefreshedTooSoon(j, rows, now) ==   \* a mistake: before the UPDATE of tasks
  IF jobs[j].state = "CANCELLED" THEN jobs[j]
  ELSE JudgedAs(jobs[j], RefreshedState({tasks[t].state : t \in RowsOf(j, tasks)}), now)

(* refresh_job(db, j, now) when the tasks table holds rows. *)
Refreshed(j, rows, now) ==
  IF jobs[j].state = "CANCELLED" THEN jobs[j]
  ELSE JudgedAs(jobs[j], RefreshedState({rows[t].state : t \in RowsOf(j, rows)}), now)

Closed(row, state, now) == [row EXCEPT !.state = state, !.finished = now]

(* _finish on every row of S, one after the other in one transaction. *)
FinishRows(S, now, result) ==
  LET rows == [t \in Task |-> IF t \in S THEN Settled(tasks[t], now, result) ELSE tasks[t]]
  IN /\ tasks' = rows
     /\ attempts' = [t \in Task |->
          IF t \notin S THEN attempts[t]
          ELSE [attempts[t] EXCEPT ![tasks[t].attempt] =
                 Closed(@, IF result # 0 THEN "COMPLETED" ELSE "FAILED", now)]]
     /\ jobs' = [j \in Job |-> IF \E t \in S : JobOf(t) = j
                               THEN Refreshed(j, rows, now) ELSE jobs[j]]

(* finish(): the caller brings its own result, or an error. *)
Finish(w, result) ==
  LET t == wcall[w].task
  IN /\ wcall[w].op = "call"
     /\ Holds(tasks[t], wcall[w].token, wcall[w].now)
     /\ FinishRows({t}, wcall[w].now, result)
     /\ Returned(w)
     /\ UNCHANGED <<clock, ucall, ccall>>

(* heartbeat() and finish() answer False: the caller no longer owns the task. *)
FencedOut(w) ==
  /\ wcall[w].op = "call"
  /\ ~ Holds(tasks[wcall[w].task], wcall[w].token, wcall[w].now)
  /\ Returned(w)
  /\ UNCHANGED <<clock, db, ucall, ccall>>

-----------------------------------------------------------------------------
(* Transactions of the coordinator thread *)

ExpiredAtEnd(now) ==   \* a mistake: <= for <
  {t \in Task : tasks[t].state = "RUNNING" /\ tasks[t].lease <= now}
Expired(now) == {t \in Task : tasks[t].state = "RUNNING" /\ tasks[t].lease < now}

Recover ==
  /\ ccall.op = "call"
  /\ FinishRows(Expired(ccall.now), ccall.now, 0)
  /\ ccall' = IdleCoordinator
  /\ UNCHANGED <<clock, wcall, ucall>>

Dispatchable(now) == {t \in Task : /\ Claimable(tasks[t], now)
                                   /\ tasks[t].dispatched <= now - DispatchWindow}

Dispatched(row, now) == [row EXCEPT !.dispatched = now]

(* limit is min(16, max_pending - depth of the broker queue): 1 at least. *)
DispatchDue ==
  LET due == Dispatchable(ccall.now)
  IN /\ ccall.op = "call"
     /\ \E limit \in 1..DispatchLimit, S \in SUBSET due :
          /\ Cardinality(S) = LeastOf(limit, Cardinality(due))
          /\ tasks' = [t \in Task |-> IF t \in S THEN Dispatched(tasks[t], ccall.now)
                                      ELSE tasks[t]]
     /\ ccall' = IdleCoordinator
     /\ UNCHANGED <<clock, jobs, attempts, wcall, ucall>>

-----------------------------------------------------------------------------
(* Transactions of the API handlers *)

Reply(c, reply, j) == ucall' = [ucall EXCEPT ![c] = IdleClient(reply, j)]

WithdrawnWithToken(row) == [row EXCEPT !.state = "CANCELLED"]   \* a mistake: still fenced in
Withdrawn(row) == [row EXCEPT !.state = "CANCELLED", !.token = NoToken, !.lease = NoTime]

Cancel(c) ==
  LET j == ucall[c].job
      now == ucall[c].now
  IN /\ ucall[c].op = "cancel"
     /\ jobs[j].state \notin TERMINAL
     /\ jobs' = [jobs EXCEPT ![j] = JudgedAs(jobs[j], "CANCELLED", now)]
     /\ attempts' = [t \in Task |-> [n \in AttemptNo |->
          IF JobOf(t) = j /\ attempts[t][n].state = "RUNNING"
          THEN Closed(attempts[t][n], "CANCELLED", now)
          ELSE attempts[t][n]]]
     /\ tasks' = [t \in Task |->
          IF JobOf(t) = j /\ Open(tasks[t])
          THEN Withdrawn(tasks[t])
          ELSE tasks[t]]
     /\ Reply(c, "cancelled", j)
     /\ UNCHANGED <<clock, wcall, ccall>>

CancelRefused(c) ==
  /\ ucall[c].op = "cancel"
  /\ jobs[ucall[c].job].state \in TERMINAL
  /\ Reply(c, "refused", ucall[c].job)
  /\ UNCHANGED <<clock, db, wcall, ccall>>

(* A mistake: the tasks about to be inserted are not counted. *)
FullAlready(c) == Cardinality(Outstanding) >= MaxPending
OverCapacity(c) == Cardinality(Outstanding) + Cardinality(ucall[c].request.configs) > MaxPending

KeyFoundIfRoom(c) ==   \* a mistake: the capacity checked before the key
  ~ Falsy(ucall[c].key) /\ ~ OverCapacity(c) /\ ByKey(ucall[c].key) # {}

(* The row `if key:` finds, which ends the call one way or the other. *)
KeyFound(c) == ~ Falsy(ucall[c].key) /\ ByKey(ucall[c].key) # {}

(* request_key TEXT UNIQUE: equal keys clash, NULLs do not. *)
KeyTaken(c) == ucall[c].key # NoKey /\ ByKey(ucall[c].key) # {}

SubmitExisting(c) ==
  /\ ucall[c].op = "submit" /\ KeyFound(c)
  /\ \E j \in ByKey(ucall[c].key) :
       /\ jobs[j].request = ucall[c].request      \* request_hash
       /\ Reply(c, "existing", j)
  /\ UNCHANGED <<clock, db, wcall, ccall>>

SubmitConflict(c) ==
  /\ ucall[c].op = "submit" /\ KeyFound(c)
  /\ \E j \in ByKey(ucall[c].key) : jobs[j].request # ucall[c].request
  /\ Reply(c, "conflict", NoJob)
  /\ UNCHANGED <<clock, db, wcall, ccall>>

SubmitOverCapacity(c) ==
  /\ ucall[c].op = "submit" /\ ~ KeyFound(c) /\ OverCapacity(c)
  /\ Reply(c, "capacity", NoJob)
  /\ UNCHANGED <<clock, db, wcall, ccall>>

(* INSERT INTO jobs raises sqlite3.IntegrityError, which submit does not catch. *)
SubmitKeyClash(c) ==
  /\ ucall[c].op = "submit" /\ ~ KeyFound(c) /\ ~ OverCapacity(c) /\ KeyTaken(c)
  /\ Reply(c, "integrity", NoJob)
  /\ UNCHANGED <<clock, db, wcall, ccall>>

NewTask(now) == [AbsentTask EXCEPT !.state = "PENDING", !.due = now]

SubmitInsert(c, j) ==
  LET call == ucall[c]
  IN /\ call.op = "submit" /\ ~ KeyFound(c) /\ ~ OverCapacity(c) /\ ~ KeyTaken(c)
     /\ jobs[j].state = "ABSENT"
     /\ jobs' = [jobs EXCEPT ![j] = [state |-> "PENDING", key |-> call.key,
                                     request |-> call.request,
                                     created |-> call.now, finished |-> NoTime]]
     /\ tasks' = [t \in Task |->
          IF JobOf(t) = j /\ t[2] \in call.request.configs
          THEN NewTask(call.now)
          ELSE tasks[t]]
     /\ Reply(c, "accepted", j)
     /\ UNCHANGED <<clock, attempts, wcall, ccall>>

-----------------------------------------------------------------------------
WorkerStep(w) ==
  \/ \E t \in Task : BeginClaim(w, t)
  \/ BeginOwned(w)
  \/ Claim(w) \/ ClaimIgnored(w)
  \/ Heartbeat(w) \/ FencedOut(w)
  \/ \E result \in {0, wcall[w].attempt} : Finish(w, result)
  \/ WorkerRollback(w) \/ WorkerGone(w)

ClientStep(c) ==
  \/ \E request \in Request, key \in Key \cup {NoKey} : BeginSubmit(c, request, key)
  \/ \E j \in Job : BeginCancel(c, j) \/ SubmitInsert(c, j)
  \/ SubmitExisting(c) \/ SubmitConflict(c) \/ SubmitOverCapacity(c) \/ SubmitKeyClash(c)
  \/ Cancel(c) \/ CancelRefused(c)
  \/ ClientRollback(c)

CoordinatorStep ==
  \/ BeginCoordinator
  \/ Recover \/ DispatchDue
  \/ CoordinatorRollback

Next ==
  \/ Tick
  \/ \E w \in Worker : WorkerStep(w)
  \/ \E c \in Client : ClientStep(c)
  \/ CoordinatorStep

Spec == Init /\ [][Next]_vars

-----------------------------------------------------------------------------
(* The type of the state *)

Time == Nat \cup {NoTime}
JobRow == [state : JobState \cup {"ABSENT"}, key : Key \cup {NoKey},
           request : Request \cup {NoRequest}, created : Time, finished : Time]
TaskRow == [state : TaskState \cup {"ABSENT"}, attempt : 0..MaxAttempts,
            token : Token \cup {NoToken}, lease : Time, due : Time, dispatched : Nat,
            progress : 0..MaxAttempts, result : 0..MaxAttempts]
AttemptRow == [state : {"ABSENT", "RUNNING"} \cup TERMINAL,
               token : Token \cup {NoToken}, started : Time, finished : Time]
WorkerCall == [op : {"idle", "claim", "own", "call"},
               task : Task \cup {NoTask}, token : Token \cup {NoToken},
               attempt : 0..MaxAttempts, now : Time]
ClientCall == [op : {"idle", "submit", "cancel"}, job : Job \cup {NoJob},
               request : Request \cup {NoRequest}, key : Key \cup {NoKey}, now : Time,
               reply : {"none", "accepted", "existing", "conflict", "capacity",
                        "integrity", "cancelled", "refused"}]
CoordinatorCall == [op : {"idle", "call"}, now : Time]

(* Every row and call has its columns in range; in particular no claim ever *)
(* numbers an attempt beyond max_attempts.                                  *)
TypeOK ==
  /\ clock \in Nat
  /\ jobs \in [Job -> JobRow]
  /\ tasks \in [Task -> TaskRow]
  /\ attempts \in [Task -> [AttemptNo -> AttemptRow]]
  /\ wcall \in [Worker -> WorkerCall]
  /\ ucall \in [Client -> ClientCall]
  /\ ccall \in CoordinatorCall

-----------------------------------------------------------------------------
(* Invariants *)

(* tasks and attempts tell the same story: a task is RUNNING exactly while  *)
(* it has a token and a lease, exactly then its last attempt is RUNNING and *)
(* under that token, and every other attempt of it is closed.  Claims,      *)
(* settlements, recovery and cancellation each write both tables.           *)
ClaimsMatchAttempts ==
  \A t \in Task : LET row == tasks[t] IN
    /\ (row.state = "RUNNING") <=> (row.token # NoToken)
    /\ (row.state = "RUNNING") <=> (row.lease # NoTime)
    /\ \A n \in AttemptNo :
         /\ (attempts[t][n].state = "ABSENT") <=> (n > row.attempt)
         /\ (attempts[t][n].state = "RUNNING") <=> (row.state = "RUNNING" /\ n = row.attempt)
         /\ attempts[t][n].state = "RUNNING" => attempts[t][n].token = row.token

(* At most one worker holds a claim the fence of heartbeat and finish would *)
(* still accept, however often deliveries are duplicated or leases lost.    *)
OneOwner ==
  \A t \in Task : tasks[t].state = "RUNNING" =>
    \A v, w \in Worker :
      /\ wcall[v].task = t /\ wcall[v].token = tasks[t].token
      /\ wcall[w].task = t /\ wcall[w].token = tasks[t].token
      => v = w

(* Exactly one result per completed task: the one its last attempt wrote,   *)
(* which is its only COMPLETED attempt; no other task carries a result.     *)
SingleResult ==
  \A t \in Task :
    /\ tasks[t].result = IF tasks[t].state = "COMPLETED" THEN tasks[t].attempt ELSE 0
    /\ \A n \in AttemptNo : (attempts[t][n].state = "COMPLETED")
                            <=> (tasks[t].state = "COMPLETED" /\ n = tasks[t].attempt)

(* A task is given up only after max_attempts failed attempts, waits for a  *)
(* retry only between failed attempts, and was never tried when PENDING.    *)
AttemptBudget ==
  \A t \in Task :
    /\ tasks[t].state \in {"ABSENT", "PENDING"} => tasks[t].attempt = 0
    /\ tasks[t].state = "RETRYING" => tasks[t].attempt \in 1..(MaxAttempts - 1)
    /\ tasks[t].state = "FAILED" => tasks[t].attempt = MaxAttempts
    /\ tasks[t].state \in {"RETRYING", "FAILED"} =>
         \A n \in 1..tasks[t].attempt : attempts[t][n].state = "FAILED"

(* The job row is what its tasks say: the state refresh_job would compute,  *)
(* with a finish time exactly when terminal; a cancelled job has only       *)
(* settled tasks, and only a cancelled job has cancelled tasks.             *)
JobMatchesTasks ==
  \A j \in Job : LET states == {tasks[t].state : t \in RowsOf(j, tasks)} IN
    /\ (jobs[j].state = "ABSENT") <=> (states = {})
    /\ (jobs[j].state = "CANCELLED") <=> ("CANCELLED" \in states)
    /\ jobs[j].state = "CANCELLED" => states \subseteq TERMINAL
    /\ jobs[j].state \notin {"ABSENT", "CANCELLED"} => jobs[j].state = RefreshedState(states)
    /\ (jobs[j].state \in TERMINAL) <=> (jobs[j].finished # NoTime)

(* Admission: however submissions interleave with the workers, no more than *)
(* max_pending tasks are outstanding.                                       *)
AdmissionBound == Cardinality(Outstanding) <= MaxPending

(* A retry starts no earlier than its backoff after the failure was         *)
(* recorded, although both times were read before the locks were held.      *)
RetrySpacing ==
  \A t \in Task, n \in AttemptNo :
    n < tasks[t].attempt =>
      attempts[t][n + 1].started >= attempts[t][n].finished + Backoff(n)

-----------------------------------------------------------------------------
(* Action properties *)

(* What is terminal stays as it is: the result and the number of tries of a *)
(* settled task, the record of a closed attempt, and the verdict and finish *)
(* time of a job; late owners, recovery and cancellation never touch them.  *)
TerminalIsFinal ==
  [][ /\ \A t \in Task : tasks[t].state \in TERMINAL => tasks'[t] = tasks[t]
      /\ \A t \in Task, n \in AttemptNo :
           attempts[t][n].state \in TERMINAL => attempts'[t][n] = attempts[t][n]
      /\ \A j \in Job : jobs[j].state \in TERMINAL => jobs'[j] = jobs[j]
    ]_db

(* Progress and results are written only on a RUNNING task and only by the  *)
(* attempt that owns it; a worker fenced out by recovery, by a retry or by  *)
(* a cancellation changes nothing (a failure clears the result).            *)
OnlyOwnerWrites ==
  [][ \A t \in Task :
        /\ tasks'[t].progress # tasks[t].progress =>
             tasks[t].state = "RUNNING" /\ tasks'[t].progress = tasks[t].attempt
        /\ tasks'[t].result # tasks[t].result =>
             tasks[t].state = "RUNNING" /\ tasks'[t].result = tasks[t].attempt
    ]_db

(* What a lease promises is kept, although heartbeat and recover both read  *)
(* the clock before they wait for the lock: while one attempt runs its      *)
(* lease only moves forward, and recovery takes a RUNNING task only once    *)
(* its lease has really run out.                                            *)
LeaseIsKept ==
  [][ \A t \in Task : tasks[t].state = "RUNNING" =>
        /\ tasks'[t].state = "RUNNING" => tasks'[t].lease >= tasks[t].lease
        /\ tasks'[t].state \in {"RETRYING", "FAILED"} /\ ccall'.op # ccall.op =>
             tasks[t].lease < clock
    ]_vars

(* A submission repeated with its own key always finds its job, whatever    *)
(* became of the job since and however full the platform is: it is never    *)
(* answered with a conflict, a capacity error or a second job.              *)
RetriedSubmitFindsItsJob ==
  [][ \A c \in Client, j \in Job :
        /\ ucall[c].op = "submit" /\ ucall'[c].reply # "none"
        /\ jobs[j].state # "ABSENT"
        /\ ~ Falsy(ucall[c].key) /\ jobs[j].key = ucall[c].key
        /\ jobs[j].request = ucall[c].request
        => ucall'[c].reply = "existing" /\ ucall'[c].job = j
    ]_vars

-----------------------------------------------------------------------------
(* What the documents say and the code does not do *)

(* docs/operations.md, "Delivery and failure guarantees": an expired lease  *)
(* is a failed attempt, so no owner settles its task after its lease ended. *)
ExpiredLeaseIsFailure ==
  [][ \A t \in Task :
        tasks[t].state = "RUNNING" /\ tasks'[t].state = "COMPLETED" => tasks[t].lease >= clock
    ]_vars

(* docs/operations.md: a key reused for a different request is answered     *)
(* with the conflict (409), never by the database's own error.              *)
ReusedKeyIsConflict ==
  \A c \in Client : ucall[c].reply # "integrity"

(* metrics.py, "Finished attempt duration": finished - started is a         *)
(* duration, so an attempt never ends before it starts.                     *)
DurationsNotNegative ==
  \A t \in Task, n \in AttemptNo :
    attempts[t][n].finished # NoTime => attempts[t][n].finished >= attempts[t][n].started
=============================================================================
