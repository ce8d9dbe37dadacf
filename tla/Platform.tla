------------------------------- MODULE Platform -------------------------------
(***************************************************************************)
(* The running platform around the authority store: the coordinator's loop *)
(* (coordinator.py), the delivery queue of Redis and Celery                *)
(* (celery_app.py), the task supervisors (tasks.py) and the research       *)
(* children they watch (child.py).  EvalStore checks the transactions of   *)
(* the store against every clock and order of calls; here a transaction is *)
(* one step and the clock is reduced to what it decides: whether a row is  *)
(* due, was dispatched within the window, and has a live lease.  That      *)
(* leaves a finite model in which liveness can be checked.                 *)
(*                                                                         *)
(* The environment does at most MaxFaults of the things nothing in the     *)
(* code prevents: raising where a call may raise, killing a worker,        *)
(* losing or repeating a message, and stalling an owner past its lease.    *)
(***************************************************************************)
EXTENDS Integers, FiniteSets, FiniteSetsExt

CONSTANTS
  Job, Config,  \* jobs and (chunker, noise) configurations
  Worker,       \* Celery workers, each of concurrency 1 and prefetch 1
  NoTask,       \* an idle worker's task
  MaxAttempts,  \* settings.max_attempts
  MaxPending,   \* settings.max_pending
  MaxFaults     \* bound on the faults of the environment

ASSUME PlatformAssumption ==
  /\ IsFiniteSet(Job) /\ IsFiniteSet(Config) /\ IsFiniteSet(Worker) /\ Config # {}
  /\ NoTask \notin Job \X Config
  /\ MaxAttempts \in Nat \ {0} /\ MaxPending \in Nat \ {0} /\ MaxFaults \in Nat

VARIABLES
  tasks,    \* table tasks, its times reduced to due, recent and leased
  waiting,  \* the list "evaluation" of Redis: per task, its messages
  lost,     \* per task: unacknowledged messages of workers that died
  tick,     \* the coordinator: where tick stands, its room and its batch
  worker,   \* per worker: its supervisor, child and unacknowledged message
  orphans,  \* children <<task, attempt>> whose supervisor died
  faults    \* faults so far

vars == <<tasks, waiting, lost, tick, worker, orphans, faults>>

Task == Job \X Config
JobOf(t) == t[1]
TERMINAL == {"COMPLETED", "FAILED", "CANCELLED"}

AbsentTask == [state |-> "ABSENT", attempt |-> 0, due |-> FALSE,
               recent |-> FALSE, leased |-> FALSE]
IdleTick == [at |-> "idle", room |-> 0, batch |-> {}]
IdleWorker == [at |-> "idle", task |-> NoTask, attempt |-> 0,
               child |-> "none", unacked |-> FALSE]

Open(row) == row.state \notin TERMINAL \cup {"ABSENT"}

ClaimableOnceLapsed(row) ==   \* a mistake: a lapsed attempt taken over in place
  \/ row.state \in {"PENDING", "RETRYING"} /\ row.due
  \/ row.state = "RUNNING" /\ ~ row.leased

Claimable(row) == row.state \in {"PENDING", "RETRYING"} /\ row.due

Holds(t, n) == tasks[t].state = "RUNNING" /\ tasks[t].attempt = n /\ tasks[t].leased
LiveOwner(t) == \E w \in Worker : /\ worker[w].task = t
                                  /\ worker[w].attempt = tasks[t].attempt
                                  /\ worker[w].at \in {"prepare", "watch", "commit", "fail"}
Messages(count) == UNION {{t} \X (1..count[t]) : t \in Task}
Total(count) == Cardinality(Messages(count))
Put(count, t) == [count EXCEPT ![t] = @ + 1]
Take(count, t) == [count EXCEPT ![t] = @ - 1]

Init ==
  /\ tasks = [t \in Task |-> AbsentTask]
  /\ waiting = [t \in Task |-> 0]
  /\ lost = [t \in Task |-> 0]
  /\ tick = IdleTick
  /\ worker = [w \in Worker |-> IdleWorker]
  /\ orphans = {}
  /\ faults = 0

Fault == faults < MaxFaults /\ faults' = faults + 1

-----------------------------------------------------------------------------
(* Clients (api.py) *)

Submit(j) ==
  /\ \A t \in Task : JobOf(t) = j => tasks[t].state = "ABSENT"
  /\ Cardinality({t \in Task : Open(tasks[t])}) + Cardinality(Config) <= MaxPending
  /\ tasks' = [t \in Task |-> IF JobOf(t) # j THEN tasks[t]
                              ELSE [AbsentTask EXCEPT !.state = "PENDING", !.due = TRUE]]
  /\ UNCHANGED <<waiting, lost, tick, worker, orphans, faults>>

Cancel(j) ==
  /\ \E t \in Task : JobOf(t) = j /\ Open(tasks[t])
  /\ tasks' = [t \in Task |-> IF JobOf(t) = j /\ Open(tasks[t])
                              THEN [tasks[t] EXCEPT !.state = "CANCELLED", !.leased = FALSE]
                              ELSE tasks[t]]
  /\ UNCHANGED <<waiting, lost, tick, worker, orphans, faults>>

-----------------------------------------------------------------------------
(* Time: what the clock decides about a row *)

(* 30 s after a dispatch, and once a backoff is over. *)
WindowEnds(t) ==
  /\ tasks[t].recent
  /\ tasks' = [tasks EXCEPT ![t].recent = FALSE]
  /\ UNCHANGED <<waiting, lost, tick, worker, orphans, faults>>

BackoffEnds(t) ==
  /\ tasks[t].state = "RETRYING" /\ ~ tasks[t].due
  /\ tasks' = [tasks EXCEPT ![t].due = TRUE]
  /\ UNCHANGED <<waiting, lost, tick, worker, orphans, faults>>

(* Nobody renews the lease any more; or, a fault, the owner stalls too long. *)
LeaseEnds(t) ==
  /\ tasks[t].leased
  /\ tasks' = [tasks EXCEPT ![t].leased = FALSE]
  /\ UNCHANGED <<waiting, lost, tick, worker, orphans>>

LeaseAbandoned(t) == ~ LiveOwner(t) /\ LeaseEnds(t) /\ UNCHANGED faults
OwnerStalls(t) == LiveOwner(t) /\ LeaseEnds(t) /\ Fault

-----------------------------------------------------------------------------
(* The coordinator: tick() every two seconds *)

(* A mistake: the attempts of a dead worker never count. *)
SettledForEver(row, ok) ==
  [row EXCEPT !.state = IF ok THEN "COMPLETED" ELSE "RETRYING",
              !.due = FALSE, !.recent = FALSE, !.leased = FALSE]

Settled(row, ok) ==
  [row EXCEPT !.state = IF ok THEN "COMPLETED"
                        ELSE IF row.attempt >= MaxAttempts THEN "FAILED" ELSE "RETRYING",
              !.due = FALSE, !.recent = FALSE, !.leased = FALSE]

Recover ==
  /\ tick.at = "idle"
  /\ tasks' = [t \in Task |-> IF tasks[t].state = "RUNNING" /\ ~ tasks[t].leased
                              THEN Settled(tasks[t], FALSE) ELSE tasks[t]]
  /\ tick' = [tick EXCEPT !.at = "depth"]
  /\ UNCHANGED <<waiting, lost, worker, orphans, faults>>

RoomForAll(depth) == MaxPending   \* a mistake: the depth only decides whether to return
Room(depth) == MaxPending - depth

ReadDepth ==
  /\ tick.at = "depth"
  /\ tick' = IF Total(waiting) >= MaxPending THEN IdleTick
             ELSE [tick EXCEPT !.at = "dispatch", !.room = Room(Total(waiting))]
  /\ UNCHANGED <<tasks, waiting, lost, worker, orphans, faults>>

DispatchableOnce(row) == row.state = "PENDING" /\ ~ row.recent  \* a mistake: no retries
Dispatchable(row) == Claimable(row) /\ ~ row.recent

(* The rows are marked in one transaction, and published one by one after it. *)
DispatchDue ==
  LET due == {t \in Task : Dispatchable(tasks[t])}
  IN /\ tick.at = "dispatch"
     /\ \E S \in SUBSET due :
          /\ Cardinality(S) = Min({tick.room, 16, Cardinality(due)})
          /\ tasks' = [t \in Task |-> IF t \in S THEN [tasks[t] EXCEPT !.recent = TRUE]
                                      ELSE tasks[t]]
          /\ tick' = [at |-> "publish", room |-> 0, batch |-> S]
     /\ UNCHANGED <<waiting, lost, worker, orphans, faults>>

Publish(t) ==
  /\ tick.at = "publish" /\ t \in tick.batch
  /\ waiting' = Put(waiting, t)
  /\ tick' = [tick EXCEPT !.batch = @ \ {t}]
  /\ UNCHANGED <<tasks, lost, worker, orphans, faults>>

TickEnds ==
  /\ tick.at = "publish" /\ tick.batch = {}
  /\ tick' = IdleTick
  /\ UNCHANGED <<tasks, waiting, lost, worker, orphans, faults>>

(* serve() logs whatever tick raises; a restarted coordinator starts over too. *)
TickFails ==
  /\ tick.at # "idle" /\ Fault
  /\ tick' = IdleTick
  /\ UNCHANGED <<tasks, waiting, lost, worker, orphans>>

-----------------------------------------------------------------------------
(* A worker: Celery hands it one message, and its supervisor runs run_task *)

Deliver(w, t) ==
  /\ worker[w].at = "idle" /\ waiting[t] > 0
  /\ waiting' = Take(waiting, t)
  /\ worker' = [worker EXCEPT ![w] = [IdleWorker EXCEPT !.at = "claim", !.task = t,
                                                        !.unacked = TRUE]]
  /\ UNCHANGED <<tasks, lost, tick, orphans, faults>>

Claim(w) ==
  LET t == worker[w].task IN
  /\ worker[w].at = "claim" /\ Claimable(tasks[t])
  /\ tasks' = [tasks EXCEPT ![t].state = "RUNNING", ![t].attempt = @ + 1,
                            ![t].leased = TRUE]
  /\ worker' = [worker EXCEPT ![w].at = "prepare", ![w].attempt = tasks[t].attempt + 1]
  /\ UNCHANGED <<waiting, lost, tick, orphans, faults>>

(* run_task returns, or raises what nothing catches: acknowledged all the same. *)
Returns(w) == worker' = [worker EXCEPT ![w] = IdleWorker] /\ UNCHANGED waiting

RequeuesIgnored(w) ==   \* a mistake: a delivery that cannot be claimed is put back
  worker' = [worker EXCEPT ![w] = IdleWorker] /\ waiting' = Put(waiting, worker[w].task)

Ignored(w) == Returns(w)

ClaimIgnored(w) ==
  /\ worker[w].at = "claim" /\ ~ Claimable(tasks[worker[w].task])
  /\ Ignored(w)
  /\ UNCHANGED <<tasks, lost, tick, orphans, faults>>

(* claim, the reading of the job, or the writing of the request file raises: *)
(* outside the try block, so a claimed task stays RUNNING.                   *)
RaisesEarly(w) ==
  /\ worker[w].at \in {"claim", "prepare"} /\ Fault
  /\ Returns(w)
  /\ UNCHANGED <<tasks, lost, tick, orphans>>

Moves(w, at, child) ==
  /\ worker' = [worker EXCEPT ![w].at = at, ![w].child = child]
  /\ UNCHANGED <<tasks, waiting, lost, tick, orphans>>

Spawn(w) ==
  /\ worker[w].at = "prepare"
  /\ \/ Moves(w, "watch", "running")
     \/ Moves(w, "fail", "none")        \* Popen or the log file raises
  /\ UNCHANGED faults

(* The child exits by itself: with a valid result, or in any other way. *)
ChildEnds(w) ==
  /\ worker[w].child = "running"
  /\ \E exit \in {"result", "error"} : Moves(w, worker[w].at, exit)
  /\ UNCHANGED faults

TimedOut(w) == worker[w].child = "running"

(* One round of the loop that ends it: fenced out, timed out, or the child *)
(* has exited.  A round that only renews the lease changes nothing here.   *)
WatchEnds(w) ==
  LET fenced == ~ Holds(worker[w].task, worker[w].attempt)
  IN /\ worker[w].at = "watch"
     /\ \/ worker[w].child = "running" /\ (fenced \/ TimedOut(w)) /\ Moves(w, "fail", "running")
        \/ worker[w].child = "error" /\ Moves(w, "fail", "error")
        \/ worker[w].child = "result" /\ Moves(w, "commit", "result")
     /\ UNCHANGED faults

(* finish(): with the result, or with the error of the except clause. *)
Finish(w) ==
  LET t == worker[w].task
      ok == worker[w].at = "commit"
  IN /\ worker[w].at \in {"commit", "fail"}
     /\ tasks' = IF Holds(t, worker[w].attempt)
                 THEN [tasks EXCEPT ![t] = Settled(@, ok)] ELSE tasks
     /\ worker' = [worker EXCEPT ![w].at = "cleanup"]
     /\ UNCHANGED <<waiting, lost, tick, orphans, faults>>

(* It raises: from the commit into the except clause, from there onwards. *)
FinishFails(w) ==
  /\ Fault
  /\ \/ worker[w].at = "commit" /\ Moves(w, "fail", worker[w].child)
     \/ worker[w].at = "fail" /\ Moves(w, "cleanup", worker[w].child)

(* The finally clause kills the process group of a child still running. *)
Cleanup(w) ==
  /\ worker[w].at = "cleanup"
  /\ Returns(w)
  /\ UNCHANGED <<tasks, lost, tick, orphans, faults>>

(* The worker is killed, or cancels its task on losing the broker: the child *)
(* lives in its own process group and notices within two seconds.            *)
WorkerDies(w) ==
  /\ worker[w].at # "idle" /\ Fault
  /\ orphans' = IF worker[w].child # "running" THEN orphans
                ELSE orphans \cup {<<worker[w].task, worker[w].attempt>>}
  /\ lost' = IF worker[w].unacked THEN Put(lost, worker[w].task) ELSE lost
  /\ worker' = [worker EXCEPT ![w] = IdleWorker]
  /\ UNCHANGED <<tasks, waiting, tick>>

NeverExits(o) == FALSE   \* a mistake: the child does not watch its parent
ParentGone(o) == o \in orphans

OrphanExits(o) ==
  /\ ParentGone(o)
  /\ orphans' = orphans \ {o}
  /\ UNCHANGED <<tasks, waiting, lost, tick, worker, faults>>

-----------------------------------------------------------------------------
(* The broker *)

(* reject_on_worker_lost, or the visibility timeout of a dead worker. *)
Restore(t) ==
  /\ lost[t] > 0
  /\ lost' = Take(lost, t) /\ waiting' = Put(waiting, t)
  /\ UNCHANGED <<tasks, tick, worker, orphans, faults>>

(* A supervisor stalls past task_timeout + 300 s: its message comes again. *)
Redeliver(w) ==
  /\ worker[w].unacked /\ Fault
  /\ waiting' = Put(waiting, worker[w].task)
  /\ worker' = [worker EXCEPT ![w].unacked = FALSE]
  /\ UNCHANGED <<tasks, lost, tick, orphans>>

LoseMessage(t) ==
  /\ Fault
  /\ \/ waiting[t] > 0 /\ waiting' = Take(waiting, t) /\ UNCHANGED lost
     \/ lost[t] > 0 /\ lost' = Take(lost, t) /\ UNCHANGED waiting
  /\ UNCHANGED <<tasks, tick, worker, orphans>>

-----------------------------------------------------------------------------
CoordinatorStep ==
  \/ Recover \/ ReadDepth \/ DispatchDue \/ TickEnds
  \/ \E t \in Task : Publish(t)

SupervisorStep(w) ==
  \/ \E t \in Task : Deliver(w, t)
  \/ Claim(w) \/ ClaimIgnored(w) \/ Spawn(w) \/ WatchEnds(w) \/ Finish(w) \/ Cleanup(w)

Passing(t) == WindowEnds(t) \/ BackoffEnds(t) \/ LeaseAbandoned(t)

Faulty ==
  \/ TickFails
  \/ \E t \in Task : OwnerStalls(t) \/ LoseMessage(t)
  \/ \E w \in Worker : RaisesEarly(w) \/ FinishFails(w) \/ WorkerDies(w) \/ Redeliver(w)

Next ==
  \/ \E j \in Job : Submit(j) \/ Cancel(j)
  \/ CoordinatorStep
  \/ \E w \in Worker : SupervisorStep(w) \/ ChildEnds(w)
  \/ \E t \in Task : Passing(t) \/ Restore(t)
  \/ \E o \in orphans : OrphanExits(o)
  \/ Faulty

(* serve() loops for ever and is restarted; an idle worker fetches and a     *)
(* supervisor runs on; time passes; an orphan looks for its parent every two *)
(* seconds.  Nobody is obliged to submit, to cancel, to finish an evaluation *)
(* in time, or to give a lost message back.                                  *)
Fairness ==
  /\ WF_vars(CoordinatorStep)
  /\ \A w \in Worker : WF_vars(SupervisorStep(w))
  /\ \A t \in Task : WF_vars(WindowEnds(t)) /\ WF_vars(BackoffEnds(t))
                     /\ WF_vars(LeaseAbandoned(t))
  /\ \A o \in Task \X (1..MaxAttempts) : WF_vars(OrphanExits(o))

Spec == Init /\ [][Next]_vars
FairSpec == Spec /\ Fairness

-----------------------------------------------------------------------------
TaskRow == [state : {"ABSENT", "PENDING", "RUNNING", "RETRYING"} \cup TERMINAL,
            attempt : 0..MaxAttempts, due : BOOLEAN, recent : BOOLEAN, leased : BOOLEAN]
WorkerState == [at : {"idle", "claim", "prepare", "watch", "commit", "fail", "cleanup"},
                task : Task \cup {NoTask}, attempt : 0..MaxAttempts,
                child : {"none", "running", "result", "error"}, unacked : BOOLEAN]

(* Rows, messages and processes have their values in range; no delivery, *)
(* recovery or retry ever numbers an attempt beyond max_attempts.        *)
TypeOK ==
  /\ tasks \in [Task -> TaskRow]
  /\ waiting \in [Task -> Nat] /\ lost \in [Task -> Nat]
  /\ tick \in [at : {"idle", "depth", "dispatch", "publish"},
               room : 0..MaxPending, batch : SUBSET Task]
  /\ worker \in [Worker -> WorkerState]
  /\ orphans \subseteq Task \X (1..MaxAttempts)
  /\ faults \in 0..MaxFaults

Unacked == {w \in Worker : worker[w].unacked}

(* "Bounded duplicate publication" (coordinator.py:1): although every task  *)
(* that nobody claims is published again each 30 s, the messages in the     *)
(* queue, at the workers, with dead workers and about to be published never *)
(* exceed max_pending but for the one each worker has taken out of the      *)
(* queue, and one more per crash.                                           *)
DeliveriesBounded ==
  Total(waiting) + Total(lost) + Cardinality(Unacked) + Cardinality(tick.batch)
    <= MaxPending + Cardinality(Worker) + faults

-----------------------------------------------------------------------------
(* Liveness *)

(* Every admitted task is settled in the end: crashes, lost messages, failed *)
(* ticks, stalls and raised errors only delay it.                            *)
Settles == \A t \in Task : (tasks[t].state # "ABSENT") ~> (tasks[t].state \in TERMINAL)

(* No evaluation outlives its attempt: a child that works for an attempt no  *)
(* longer in force - cancelled, timed out, recovered, or orphaned - is       *)
(* stopped, and however it hangs it does not keep its worker, whose only     *)
(* slot it takes, for ever.                                                  *)
ChildRuns(t, n) ==
  \/ <<t, n>> \in orphans
  \/ \E w \in Worker : /\ worker[w].task = t /\ worker[w].attempt = n
                       /\ worker[w].child = "running"
StrayChildrenStop ==
  \A t \in Task, n \in 1..MaxAttempts :
    (ChildRuns(t, n) /\ ~ Holds(t, n)) ~> ~ ChildRuns(t, n)

WorkerFreed == \A w \in Worker : (worker[w].at # "idle") ~> (worker[w].at = "idle")
NothingLingers == StrayChildrenStop /\ WorkerFreed

(* Deliveries nobody can use are thrown away: the queue empties.             *)
QueueDrains == \A t \in Task : (waiting[t] > 0) ~> (waiting[t] = 0)
=============================================================================
