# A specification of the evaluation platform

The repository has two halves. One is a Streamlit application that retrieves
passages from an uploaded PDF and shows a fixed set of research results. The
other, `platform_eval/`, is a small distributed system: an HTTP API admits jobs,
a coordinator thread hands their tasks to Celery over Redis, workers run each
task in a child process, and one SQLite database decides what happened. This
directory holds TLA+ specifications of both halves, as far as they have state or
can go wrong in more than one step, the model-checking configurations that
exercise them, and proofs of the main results.

## 1. The system

| Component | Code | State it keeps | Operations | Talks to |
|---|---|---|---|---|
| Authority store | `platform_eval/db.py` | tables `jobs`, `tasks`, `attempts`, `workers` | submit, claim, heartbeat, finish, recover, dispatch_due, cancel, job, jobs, tasks | called by every process, each over its own connection |
| HTTP API | `api.py`, `contracts.py` | cached input identity per mode; request counters | submit, list, status, tasks, results, cancel, health, ready, metrics | store, inputs, broker (`ping`, `llen`) |
| Coordinator | `coordinator.py` | none of its own | every 2 s: recover, read the queue depth, dispatch_due, publish | store, broker |
| Delivery | `celery_app.py`, Redis | message queue, unacknowledged messages | send, deliver, acknowledge late, redeliver | coordinator, workers |
| Task supervisor | `tasks.py` | the claim it holds, its child process | claim, start, heartbeat about every second, time out, validate, finish, kill | store, child, artifacts |
| Research child | `child.py`, `research.py`, `smoke.py` | none beyond its files | check inputs, prepare queries and index under file locks, evaluate, publish | artifacts |
| Artifacts | `storage.py`, cache directories | files, manifests, locks | atomic JSON, publish and validate a manifest, set aside | children, supervisors |
| Input identity | `inputs.py`, `config.py` | manifests by fingerprint | snapshot, freeze | API, children |
| Metrics, presence | `metrics.py`, `worker_health.py`, `Presence` | request counters, `workers` rows | render, probe | store, broker |
| Evaluation page | `pages/4_...py`, `platform_client.py` | submission key and form of the session | submit with a key, poll, cancel | API |
| Live pages | `services/live_ui.py` and its backends | document, strategy, indexes, results of the session | upload, clear, build, search | research library |
| Dashboard | `results_service.py`, page 3 | none | read CSV files | files |
| Scripts | `scripts/` | none | drive a running platform | API |

What is hard in it:

* **Time is read before the lock.** Each method of `Store` evaluates
  `now = time.time()` and only then executes `BEGIN IMMEDIATE`, which may wait up
  to thirty seconds. Leases, due times and fences are compared with that old
  value, while other transactions have committed in between.
* **Delivery is at least once.** The coordinator republishes every thirty
  seconds, Redis redelivers, lost workers' messages are requeued. Any task may be
  claimed at any time by anybody, also after it has ended.
* **Owners come back.** A worker whose lease was taken over goes on calling
  `heartbeat` and `finish` with its old token, and a crash may follow any call.
* **Three tables tell one story**, and the job row is written from three places.
* **Answers are lost**, and the client repeats its submission under its key.
* **Reads are several transactions** in the results endpoint.
* **Caches are built by processes that may die**, under locks that then vanish,
  and are read again by name after the lock is released.
* **Children outlive their supervisors** for a while, beside the next attempt.
* **Scripts of pages are stopped, not awaited.** Streamlit starts the next run of
  a script while a long call of the last one is still at work on the same session.
* **Pages read what changes**: two requests per poll, six files per dashboard run.
* **One presence row has two writers**, each with a time taken before the lock.

What makes each component correct:

* *store*: one owner per task; one result per completed task; at most
  `max_attempts` attempts, spaced by the backoff; a lease taken only once it is
  over; the job row says what the tasks say; ended things never change; the
  admission bound; idempotent submission;
* *API*: an answer marked complete is complete, results never disappear, a
  repeated submission finds its job, errors are the documented ones;
* *coordinator, delivery, supervisor*: every admitted task ends, whatever is
  lost, provided something keeps running; no settled task runs again;
* *artifacts*: what a manifest certifies is whole and belongs to the identity;
  a crash never leaves a certified partial generation; readers keep what they use;
* *presence*: the row of a worker that runs and reports has a bounded age; a dead
  worker is noticed after the window;
* *pages*: one intended submission makes one job; what is shown belongs to the
  job, document or row it is shown for, and partial results never pass for whole.

## 2. The modules

    TaskLedger             what clients are promised: outcomes, tries, verdicts
       ^      ^      ^
       |      |      |  EXTENDS
       |      |   ResultsView     the results endpoint over the ledger
       |      |      ^
       |      |   JobPage         the evaluation page that polls a job
       |      |
       |      |  INSTANCE ... WITH
       |   PlatformLedger         the platform's refinement mapping
       |      |  EXTENDS
       |   Platform               coordinator, queue, supervisors, children, faults
       |
       |  INSTANCE ... WITH
    EvalStoreLedger               the store's refinement mapping
       |  EXTENDS
    EvalStore                     the tables and every transaction that writes them

    Submission      from the form to the jobs table, through lost answers
    ArtifactCache   one cache directory, its lock, manifest and children
    ResultScan      from the runner's rows to the published result
    Presence        the presence row, its two writers and the probe
    LiveWorkspace   the session of the live retrieval pages
    Dashboard       the six artifacts and the panels drawn from them

| Instances for TLC | of |
|---|---|
| `MCEvalStore` | `EvalStore` with its ledger; symmetry |
| `MCPlatform` | `Platform` with its ledger; symmetry |
| `MCPages` | `JobPage` (with `ResultsView`), `LiveWorkspace` and `Dashboard` |
| `MCContainer` | `Presence`, `ResultScan` and `ArtifactCache` |
| none needed | `Submission`; `ArtifactCache` and `LiveWorkspace` alone, for the departures of section 3 |

| Proofs | about |
|---|---|
| `EvalStoreProofs`, `EvalStoreTimeProofs`, `EvalStoreRefinement` | `EvalStore` |
| `PlatformProofs` | `Platform`, its refinement and its queue |
| `PagesProofs` | `ResultsView`, `JobPage`, `LiveWorkspace`, `Dashboard` and `MCPages` |
| `SubmissionProofs` | `Submission` |
| `ArtifactCacheProofs` | `ArtifactCache` |
| `ContainerProofs` | `Presence` and `ResultScan` |

`MCPages` and `MCContainer` are sums: a behaviour chooses one part at the start,
that part moves and the others rest in a fixed state. The parts share no state, so
their product would show nothing that the parts do not: a sum is one run instead of
several, and claims nothing about the parts together. The fairness of `MCContainer`
is that of the children of its cache.

The store is looked at twice, at two grains. `EvalStore` has every transaction
with the time it read and lets any caller come in any order, as often as it likes.
`Platform` has the processes that make the calls; there a transaction is one step
and a clock value is the one bit that a query gets out of it. Both are shown to
implement the same ledger.

### EvalStore and `db.py`

| In the module | In the code |
|---|---|
| `jobs`, `tasks`, `attempts` | the tables; a missing row is an `Absent...` record, SQL NULL is `NoTime`, `NoToken`, `NoKey` |
| `clock`, `Tick` | `time.time()`, in whole seconds |
| `wcall`, `ucall`, `ccall` | a call in flight: its arguments, and `now` as it was read; for a worker also the claim it holds, for a client the last answer |
| `Begin...` | the lines of a method up to `with self.connection(True)` |
| `Claim`, `ClaimIgnored` | `claim`, with and without a row to take |
| `Heartbeat`, `Finish`, `FencedOut` | `heartbeat` and `finish` with the fence of the `WHERE` clause; a result of 0 stands for a call with an error |
| `Recover`, `DispatchDue` | the two transactions of a coordinator tick |
| `Cancel`, `CancelRefused` | `cancel` |
| `SubmitExisting`, `...Conflict`, `...OverCapacity`, `...KeyClash`, `...Insert` | the five ways `submit` ends |
| `...Rollback` | `connection()` rolls back: lock timeout, disk error, death before the commit |
| `WorkerGone` | the task function returns or its process dies |
| `FinishRows`, `Refreshed` | `_finish` on one or many rows, and `refresh_job` within the same transaction |

A transaction is one action, because SQLite serialises writers; everything
between reading the clock and committing is open to interleaving, because nothing
orders it. Which of its transactions a holder of a claim or the coordinator is
about to run is decided when it runs: the calls carry no other data until then, so
the behaviours are the same and the states far fewer.

Left out of the rows because no transaction compares them: worker names, error
texts, the content of results and progress (they are the number of the attempt
that wrote them), the presence table. A request is its set of configurations
and a `Variant` for the rest of what `request_hash` covers (mode, namespace,
fingerprint); equality of requests stands for equality of hashes. A token is fresh
among the attempts of its task: every query names the task beside the token. The
initial clock is later than `DispatchWindow`, as any epoch time is.
`clock` never goes back, which one host without clock corrections gives.

### TaskLedger, EvalStoreLedger, PlatformLedger

`TaskLedger` is the promise without mechanism: a job is admitted with its
configurations, each is tried one attempt at a time and at most `MaxAttempts`
times, a decided outcome stands, and the verdict on a job is a function of its
tasks. `EvalStoreLedger` reads outcomes, tries and verdicts off the tables, and
`ImplementsLedger` says that every transaction of the store, with whatever stale
clock, is one step of the ledger or none. `PlatformLedger` does the same for the
platform around the store, `ResultsView` and `JobPage` are readers of the ledger:
what is shown for them holds over either implementation.

### Platform and `coordinator.py`, `celery_app.py`, `tasks.py`, `child.py`

| In the module | In the code |
|---|---|
| `tasks[t].due`, `.recent`, `.leased` | `due<=now`, `dispatched>now-30`, `lease>now` |
| `waiting`, `lost`, `worker[w].unacked` | the Redis list; unacknowledged messages of dead workers; the message a worker holds |
| `Recover`, `ReadDepth`, `DispatchDue`, `Publish`, `TickEnds` | one `tick()`: the rows are marked in one transaction and published one by one after it |
| `TickFails` | an exception logged by `serve`, or a restarted coordinator |
| `Deliver`, `Claim`, `ClaimIgnored` | Celery calls `evaluate`; `store.claim` finds a row or not |
| `RaisesEarly` | `run_task` between the claim and its `try` |
| `Spawn`, `ChildEnds`, `WatchEnds` | `Popen`; the child's exit; the round of the loop that ends it: fenced out, timed out, exited |
| `Finish`, `FinishFails`, `Cleanup` | `store.finish` with a result or an error; that it raises; the `finally` clause |
| `WorkerDies`, `orphans`, `OrphanExits` | a killed container or a lost broker connection; the child in its own process group; `watch_parent` |
| `Restore`, `Redeliver`, `LoseMessage` | `task_reject_on_worker_lost`; the visibility timeout; Redis without persistence |
| `WindowEnds`, `BackoffEnds`, `LeaseAbandoned`, `OwnerStalls` | time passes for a row; the last, a fault, although its owner is alive |

A round of the supervisor's loop that only renews the lease changes nothing here:
a lease whose owner lives does not end, except by `OwnerStalls`. `MaxFaults` bounds
what the environment may do, all kinds together.

### ArtifactCache and `research.py`, `smoke.py`, `storage.py`

A child (`ChildStep`) checks the identity of the inputs, takes the `FileLock`,
inspects the manifest, and builds, file by file, or not; `Certify` publishes
`checksums.json` last. In mode `research` an invalid directory is set aside first,
and the files are opened by name after the lock is released (`Read`); in mode
`smoke` they are overwritten in place and loaded under the lock. Bytes are
represented by who wrote them and from which version of the inputs, so that two
builds never look alike. A child may die anywhere (`Dies`), leaving a file cut
short; the system drops its lock. `Damage` and `EditInputs` are the disk and the
user.

### ResultScan and the end of `research.py`

`execute` reads the runner's batch files row by row (`ReadHeader`, `ReadRow`). A
foreign header, a foreign or repeated row (`Belongs`) and a measurement that
`float()` refuses (`Readable`) end it; otherwise the row is counted and summed.
`Publish` compares the coverage (`Covered`), needs the index's `profile.json` and
asks `validate_result` (`Verdicts`): every mean finite and between 0 and 1, Hit@1
at most Hit@5. The runner is external: its output is any sequence of lines whose
measurements are two hits, some number that is no hit, or no number. Whether a mean
over a number that is no hit passes is left open, because it may: one 7 among many
misses does. `validate_result` looks at the means over all questions only, so those
of the verified subset are published as they are. Hit@1 and Hit@5 stand for the
measurements; the reciprocal rank is summed in the same way.

### Submission and page 4, `platform_client.py`, `api.py`, `inputs.py`

`session` holds `submission_key` and `submission_spec`; `Press` sends a request
under them, `GetAnswer` and `GiveUp` end the call, and a request in `flight` may be
executed after the page has given up, or never. Two requests with the same key and
form are two requests (`sent`), and both may be executed. `Execute` is `submit` on the
server with its cached input identity, which a `Restart` forgets. `wanted` and
`owed` are what the user meant; no code reads them.

### ResultsView, JobPage and `api.py`, page 4

`get_results` reads the job (`ReadJob`) and then, in another transaction, its
tasks (`ReadTasks`); the platform, here the ledger, moves in between. The fragment
`progress()` of the page does the same with two requests (`PollJob`, `PollTasks`),
and may fail at either, which leaves an error in place of the picture (`ReadFails`).
The cancel button starts the fragment again (`PressCancel`): it polls and draws
first and only then sends the cancellation (`CancelArrives`), unless the job has
ended by then, and an error of that last call stands below what was drawn. The
order of the reads matters: a job row read first as COMPLETED cannot be followed by
fewer results.

### LiveWorkspace and `live_ui.py`

`space` is the workspace of a session, `script` the run of the page that is under
way, `widget` what the browser holds. Each interaction stops the script and starts
the next one at once; Streamlit stops a script at its next output. A script inside
its last index build has no output before it stores the indexes: such a script is
a ghost (`ghosts`, `GhostStores`). With `Impatient` FALSE users do not change the
document or the strategy during a long call, though they may press any button.

### Dashboard and page 3, `results_service.py`

One run of the script is `Load` of six files in order and then one panel after the
other, with its filters, pairings and pivots; a file may be absent, lack a column
or be replaced between any two steps (`Replace`). Rows of every evaluation set may
stand in every file that has the column, and a panel keeps what its own filter keeps:
the comparison takes the rows of `sensitivity_metrics.csv` without looking at their
set. A panel that raises leaves on the page what it had drawn: the summary its first
figures when the manifest lacks a count, the tables their heading when two rows claim
one cell. A number on the page is the row and column it came from. `held`, which no
code reads, is what has stood in the place of each file since the run began.

### Presence and `celery_app.py`, `db.py`, `worker_health.py`

The thread of the Celery parent and the supervisor both upsert the row of their
worker; each takes the time, waits for the write lock up to `MaxWait` seconds, and
writes or fails. `Healthy` is the probe, and the gauge of `metrics.py`. The
container may be killed at any time, and its row stays.

### Mistakes

Definitions whose comment calls them a mistake (`HoldsUnfenced`,
`SettledOneLess`, ...) are used by no action. Each is a plausible slip in the
definition next to it; put in its place, it makes TLC refute the property named
beside it in `PROJECT.json`, which is how we know the property is about the code.

## 3. The runs

| Run | Instance | What it shows |
|---|---|---|
| `claims` | 1 task, 2 workers, 2 attempts, backoff 1, `MaxClock` 4 | `TypeOK`, `ClaimsMatchAttempts`, `OneOwner`, `SingleResult`, `AttemptBudget`, `RetrySpacing`, `OnlyOwnerWrites`, `LeaseIsKept`, `TerminalIsFinal`, `ImplementsLedger` under racing owners, recovery, cancellation and stale clocks; 1.2 million states |
| `store` | 2 jobs of 1 or 2 configurations, 2 clients, a real key and the empty key, `MaxPending` 3, 2 attempts, `MaxClock` 3 | `AdmissionBound`, `RetriedSubmitFindsItsJob`, `JobMatchesTasks`: three of four tasks fit, also on a platform that is full; a job row follows its tasks through retries and recovery row by row |
| `delivery` | `Platform`, 2 jobs, 1 worker, 2 attempts, `MaxPending` 2, 1 fault | `TypeOK`, `DeliveriesBounded`, `PlatformKeepsLedger` |
| `settling` | `Platform`, 1 task, 2 workers, 2 attempts, 2 faults, fair | `Settles`, `QueueDrains`, `NothingLingers` |
| `submission` | 2 forms, 3 keys, 3 lost answers or restarts, 2 changes of the inputs, 3 jobs, fair | `TypeOK`, `RetriedSafely`, `AcceptedIsAsked`, `EventuallyTold` |
| `pages` | 2 jobs of 2 configurations and a reader; 2 documents, 3 strategies, 2 questions in both modes; every pair of score tables of at most 2 rows of any set, and 2 editions with 2 copies | `TypeOK`, `AnswersAreFinal`, `PageIsHonest`, `FinalViewsAgree`, `EvidenceBelongs`, `PanelsAgree`, `ShownWasOnDisk`; 2.3 million states |
| `container` | presence: heartbeats every 15 seconds, a window of 45, waits up to 30, 1 failure in a row, 130 seconds, in steps of 5; cache: 3 children of either mode, 3 files, 2 deaths, 1 damaged file, 2 edits, fair; scan: every output of at most 4 lines with one of any kind, for 2 expected questions | `LiveRowIsRecent`, `GoneIsNoticed`; `CacheTypeOK`, `GenerationsAreWhole`, `ResultsMatchIdentity`, `CertifiedIsImmutable`, `LockIsPassedOn`; `PublishedExactlyIfRight`, `SumsAreOfTheRows`; 1.4 million states |

The bounds are the least that let each hazard happen, and what the proofs of
section 5 cover holds without them.

* *claims*: two workers for a race and a late owner; two attempts for a retry and a
  last attempt; a clock that passes a lease, a backoff and one stale read.
  `MaxClock` bounds only `Tick`. Workers need tokens as many as attempts; keys and
  variants are enumerated only where a property looks at them. Nothing deadlocks:
  somebody can always begin a call.
* *store*: its `CONSTRAINT` keeps to two situations (`MCEvalStore`): clients
  compete for admission while nobody else calls, or one job is worked on through
  three claims. The proofs have no such limit.
* *delivery*: two tasks of which one fills the queue while the other is due; one
  fault is enough to leave a message behind and to lose one.
* *settling*: two workers so that a second one meets a task in the hands of the
  first, two faults so that a fault can strike the repair of the first one. Both
  attempts can be lost, which is the way to FAILED.
* *submission*: a lost answer, a retry whose answer is lost too, and a request
  executed after both; the bounds on keys, failures and edits are guards, so a
  behaviour may end there, and deadlock is not checked.
* *pages*: one attempt per task, since no page looks at tries; two rows are what it
  takes to confuse two rows, two editions what it takes to mix editions.
* *container*: the times are those of the code, in steps of 5 seconds; a row 120
  seconds old, the oldest possible with one failure, is reached within them. One child
  builds, one waits, one comes after; a directory of three files can be half written
  twice before it is certified. Four lines hold a header, two rows and one line too
  many.

Symmetry is over values the modules only compare for equality, and is used in no
run with a liveness property.

### Where the code departs from its documents

| Run | Property | What happens |
|---|---|---|
| `expired_lease` | `ExpiredLeaseIsFailure` | `finish()` reads the clock, waits for the lock past the end of its lease, and commits. `docs/operations.md:147-148` calls an expired lease a failed attempt. No second result can appear: the token still fences. |
| `empty_key` | `ReusedKeyIsConflict` | An empty `Idempotency-Key` is ignored by the lookup and stored under UNIQUE; its second use raises `sqlite3.IntegrityError` (500) where `docs/operations.md:114` promises 409. |
| `durations` | `DurationsNotNegative` | `cancel()` reads the clock, a claim begins and commits, and the cancellation closes the attempt before its start: `metrics.py:34-41` observes a negative "Finished attempt duration". |

| `identity` | `ResultsMatchIdentity` | The identity is compared once (`research.py:65`); inputs changed after that are built into the cache and evaluated, although `docs/operations.md:109-110` promises an explicit identity failure. |
| `late_store` | `EvidenceBelongs` | A document or strategy changed during the last index build is followed by the indexes of the old one (`live_ui.py:70-72`), although `README.md:70` says that the change invalidates them. |

Two more are not runs of their own; each shows when one constant is changed.

| Constant | Property | What happens |
|---|---|---|
| `FaultsLive = TRUE` in `Container.cfg` | `GenerationsAreWhole` | "Immutable shared index generations are read concurrently" (`research.py:140`): a file damaged while a child reads by name (line 146) makes the next child set the directory aside and rebuild it, and the first may read half of each. |
| `EditsWhilePending = TRUE` in `Submission.cfg` | `RetriedSafely` | Page 4 keeps one key (lines 39-41): a user who changes the form after a lost answer and then changes it back submits the first request under a new key, while line 48 says that the same request can be retried safely. |

So four properties hold under a proviso only: `GenerationsAreWhole` and
`ResultsMatchIdentity` while faults keep to the times when no child runs,
`RetriedSafely` for a user who waits, `EvidenceBelongs` for one who does not change
the document or the strategy in a long call. The runs that check them with the
proviso show that nothing else breaks them; the hazard itself is what the tables
above show.

Two things that the code nowhere promises are worth knowing. *A live worker may be
called unavailable*: with waits of up to 30 seconds its row may be 75 seconds old
although no heartbeat failed, and the window is 45. `LiveRowIsRecent` states the
bound that does hold. *The panels of one dashboard run may show different editions*,
because the six files are read one after the other. `ShownWasOnDisk` states what holds
of each panel, and `PanelsAgree` what holds between them.

## 4. Fairness

`Platform` (`FairSpec`): weak fairness on the coordinator's next step, because
`serve` loops every two seconds whatever a tick raised and is restarted when it
dies; on each supervisor's next step, because an idle Celery worker fetches and
`run_task` polls about every second and is bounded by `task_timeout`; on the
passing of time for each row; and on each orphan, which looks for its parent every
two seconds. Nothing obliges a client to submit or cancel, a child to end by itself,
a fault to happen or a lost message to be given back. A supervisor's fairness is one
condition over all its steps, so a child that hangs is stopped by the time limit and
not by luck.

`ArtifactCache`, in `MCContainer`: a child goes on unless it is killed. The timeout of the lock has
no fairness, so `LockIsPassedOn` has to come from locks being released.

`Submission`: a user who got an error presses again (`Insisting`), requests that are
not lost are executed, and answers arrive. The first is an assumption about people;
`EventuallyTold` is what the page owes such a user.

All other runs check safety and need no fairness.

## 5. The proofs

| Module | Theorems | Establish, for every instance |
|---|---|---|
| `EvalStoreProofs` | `TypeCorrect`, `ClaimsAgree`, `BudgetKept`, `ResultUnique`, `OwnerUnique`, `JobStateRight`, `AdmissionKept`, `TerminalStays`, `OwnersWrite`, `TablesFullHolds` | `TypeOK`, `ClaimsMatchAttempts`, `AttemptBudget`, `SingleResult`, `OneOwner`, `JobMatchesTasks`, `AdmissionBound`, `TerminalIsFinal`, `OnlyOwnerWrites`, and the inductive invariant they come from |
| `EvalStoreTimeProofs` | `RetriesSpaced`, `LeasesKept`, `RetriesFindTheirJob`, `LeasesFollowHolds` | `RetrySpacing`, `LeaseIsKept`, `RetriedSubmitFindsItsJob`, and an invariant of the leases |
| `EvalStoreRefinement` | `StoreImplementsLedger` | `ImplementsLedger`: every transaction is one step of the ledger, or none |
| `PlatformProofs` | `PlatformImplementsLedger`, `PlatformTypeOK`, `PlatformDeliveriesBounded` | `PlatformKeepsLedger`: so is every step of the platform; its `TypeOK` and `DeliveriesBounded` |
| `PagesProofs` | `AnswersStayFinal`, `AnswersStayFinalBesidePage`, `PageTypeCorrect`, `PageStaysHonest`, `FinalViewsMatch` | `AnswersAreFinal`, `PageTypeOK`, `PageIsHonest`, `FinalViewsAgree` |
| | `WorkspaceTypeCorrect`, `EvidenceStaysMatched` | `WorkspaceTypeOK` and, if `Impatient` is FALSE, `EvidenceBelongs` |
| | `PanelsStayInAgreement`, `ShownStaysOnDisk` | `PanelsAgree`, `ShownWasOnDisk` |
| | `ApplicationTypeCorrect`, `ApplicationKeepsPromises`, `ApplicationEvidenceMatched` | the same of `MCPages`, whose `TypeOK` and properties the run `pages` checks |
| `SubmissionProofs` | `SubmissionTypeCorrect`, `AcceptedJobIsAsked`, `NoConflictForOwnKey`, `OneJobPerKey`, `RetriesAreSafe`, `SubmissionInvHolds` | `TypeOK`, `AcceptedIsAsked`, two facts for any user, and, if `EditsWhilePending` is FALSE, `RetriedSafely` |
| `ArtifactCacheProofs` | `CacheTypeCorrect`, `CertifiedStays`, `GenerationsStayWhole` | `CacheTypeOK`, `CertifiedIsImmutable`, and, if `FaultsLive` is FALSE, `GenerationsAreWhole` |
| `ContainerProofs` | `PInvHolds`, `LiveRowStaysRecent`, `DeadWorkerIsNoticed` | `LiveRowIsRecent`, `GoneIsNoticed`, and the inductive invariant they come from |
| | `SInvHolds`, `PublicationIsExact`, `PublishedSumsAreTheRows` | `PublishedExactlyIfRight`, `SumsAreOfTheRows`, and their inductive invariant |

Every safety property that a passing run checks, invariant, action property or
refinement, is thus proved without bounds, but for `ResultsMatchIdentity`, which is
only model-checked. Where a property holds only under a proviso (`FaultsLive`,
`EditsWhilePending`, `Impatient`), the theorem assumes the value that the run gives
that constant, and section 3 shows what happens otherwise.

### The store

The assumption asks little: finite sets where rows are counted, the null values
outside the sets they extend, natural numbers, at least one attempt, a dispatch
window of at least a second.

The argument. None of the checked invariants is inductive alone. Two facts are
missing, and neither is visible in a single table. *The history of a task*: a
RUNNING task has failed in every attempt before its last, and all its attempts
carry different tokens (`Retried`, `Fenced`); without it a retry cannot be known
to be within the budget, nor a recycled token to be harmless. *The calls in
flight*: a claim held by a worker names an attempt that was made under its token,
a clock read earlier is not in the future, and no two workers hold the same claim
(`CallsOK`, `DistinctClaims`); without it a late `finish` could not be known to
belong to the last attempt. `TablesFull` collects them.

1. Steps are split by `StepKinds` into those that write tables (`Writes`) and
   those that move calls or the clock (`CallsOnly`).
2. For one row and its attempts, each write keeps `TaskInv`: `ClaimedInv`,
   `RenewedInv`, `SettledInv`, `WithdrawnInv`, `DispatchedInv`, `NewTaskInv`.
   They speak of rows, not of the state, so recovery of many rows is the same
   lemma under a quantifier (`FinishRowsInv`).
3. `HolderIsLast`: a caller that passes the fence made the last attempt. This is
   why a result carries the number of the attempt that is counted.
4. Writes forget nothing (`KeepsHistory`), so calls in flight stay meaningful
   (`WritesKeepCalls`).
5. On top of it, `JobMatchesTasks` is inductive, job by job (`JobInv`), with the
   set of the states of a job's tasks as the only link between the two tables.
6. The action properties follow from the invariants of the state before the step.
7. The refinement. `VerdictAgrees` shows that the verdict read off a job row is
   the one the ledger computes from the outcomes of the job's tasks, which is
   `JobMatchesTasks` seen from the ledger; so every transaction only has to be
   matched on the tasks. A claim is `Try`, `finish` is `Succeed` or `Fail`,
   recovery is `Fail` on a set of tasks or nothing, a cancellation is `Withdraw`,
   an insertion is `Admit`; heartbeats and dispatches are invisible. `StepRefines`
   puts the cases together.
8. Time (`EvalStoreTimeProofs`). A RETRYING row is due one backoff after its last
   attempt finished, and every gap between two attempts already made is a backoff
   at least (`Spaced`); a claim compares `due` with a clock that is old but never
   in the future, so the gap only widens. The lease of a running row is no later
   than what each call in flight under its token will make of it (`LeasesFollow`),
   because an owner reads the clock anew for each call; so a late heartbeat cannot
   shorten it, and recovery, whose clock is old too, cannot come early.
9. No two jobs share a key (`KeysUnique`), so the job a repeated submission finds
   is the one it made.

### The platform

The mapping needs two facts. `RowsInv`: attempts follow the state of a row, and the
rows of a job are inserted together and cancelled together, so that an open task
belongs to a job that was not cancelled. `Working`: a worker that is not idle works
on a task. Given them a write on some open rows of a job records the verdict the
ledger computes (`MovedKeeps`), and every other step changes nothing a client sees
(`UnseenKeeps`). Nothing is needed of the queue, which is the point: no number of
messages makes the platform break its promise. `PlatformAssumption` asks for at
least one configuration, as `contracts.py:25` does.

That the queue itself is bounded is another matter. `DeliveriesBounded` alone says
nothing of the room that a tick has computed and not yet used, nor of the messages
that a dead worker left. `QueueInv` counts both: what waits, what is left behind,
the room and the batch are at most `MaxPending` and one per fault, and what is left
behind is at most one per fault. `ReadDepth` makes room for what waits only, so at
that step the messages left behind have to be paid by faults; `Publish` takes one
out of the batch for each that it puts into the queue; a delivery takes one out of
the queue. `Supervising` says that a worker owes an acknowledgement only while it
has a task, which gives one message per worker. `Total` is the number of members of
a finite set (`Messages`), so that putting and taking a message are lemmas on
cardinality (`PutCounts`, `TakeCounts`). For `TypeOK`, `Supervising` also bounds the
attempts at the workers, and `OrphansInv` those of the orphans.

### The readers

`LedgerInv` says what a verdict means, and `Forward` what no step of the ledger
undoes: jobs stay, final verdicts stand, decided outcomes stand. A state that was
read is therefore worth what it was when it was read (`Known`), and so is an answer
(`AnswerHolds`) and what the page has drawn (`ShownHolds`); `ViewInv` and `PageInv`
collect these. The assumptions: the stand-ins for "no job" are no jobs, and a job has
finitely many configurations, whose count the page compares.

### The live pages

`EvidenceBelongs` is about what the workspace holds, but what breaks it is a write
that was prepared before the workspace changed. `EvidenceInv` is about everyone who
may still write: a script about to store indexes, one about to store results, and
every ghost made them from the document and the strategy the workspace has now, and
the widgets ask for no other (`Matched`). A choice of another document or strategy
makes `Matched` false, which is why it may not come while a ghost is about. That is
what `Impatient = FALSE` excludes, and all it excludes: buttons may be pressed, the
document removed and the page left and found again at any time, and any script may
be stopped or fail.

### The dashboard

`DashboardInv` says that the frames are read in order and that each is something that
has stood in the place of its file since the run began (`FramesInv`, with `FromHeld`),
and that a panel, once drawn, is a picture of the frames (`PanelsInv`, `Pictures`). A
panel rests on frames only, never on files, so a replacement between two panels
cannot set them against each other; that the frames do not change after the first
panel is what `PanelsAgree` needs. `ShownWasOnDisk` then is the picture with each frame
replaced by the file it was. The pivots raise on a repeated pair (`Reshapes`), which is
why a cell has one number. `ContentsAssumption` asks that files hold tables with the
columns of their kind, whatever the rows, and that the marker of an unreadable file is
not itself a table.

### The application

`ApplicationIsItsPages`: a behaviour of `MCPages` is a behaviour of each of the
three pages, since a page moves as it would alone or rests. The theorems about the
parts are therefore theorems about the whole.

### Submission

`RetriedSafely` compares the table with what the user asked, but jobs come from
requests, and requests outlive the call that sent them. The invariants are about all
requests that exist (`Asked`): those in flight, those admitted, and the one the
session would send again. `KeysInv`: a key stands for one request, and no key is
above the session's. So a late execution finds its own job or makes the only one of
its key, and, while the process, the table and the files agree on the inputs
(`InputsInv`), never a conflict. This much holds whatever the user does; with it,
`CallInv` gives `AcceptedIsAsked`. `WantedInv` adds that the keys that stand for a
spec are no more than the pieces of work asked for. A press makes a key only when
nothing is pending, so it always asks for new work; this needs the form left alone
until it is answered. The jobs of a spec have keys of their own (`JobsHaveKeys`, an
injection), which makes the bound on keys one on jobs.

### The cache

`Directory` is the invariant: a manifest names the files of one build, of a child
that has got past building, and whoever builds does so in a directory that does
not validate. It makes `CertifiedIsImmutable` hold even while files are damaged and
inputs edited. What readers rely on, `ReaderInv`, is that the directory still
validates while they read; that is not true if a file is damaged under them, which
is why `GenerationsStayWhole` assumes that faults keep to the times when no child
runs, and section 3 shows what happens otherwise.

### Presence and scan

`PInv` bounds how old the row can be by the number of failures in a row; the two
waits enter because a heartbeat carries a time older by its own wait and starts late
by the one before. The bound, `Oldest`, is 75 seconds for the times of the code when no
heartbeat fails and 120 with one, more than the window of 45. The supervisor is no
help: it may overwrite the row with an older time, which the bound allows for.

`SInv` says that what is seen, counted and summed is that of the lines read so far,
and why the scan ended if it has (`Judged`); that a set of ids without repetition has
as many members as lines gives coverage, by the facts on finite sets. The two
directions of `PublishedExactlyIfRight` meet except over an output with a number that
is no hit, for which `validate_result` promises neither.

### Only model-checked

* Liveness, all of it: `Settles`, `QueueDrains`, `NothingLingers`, `LockIsPassedOn`,
  `EventuallyTold`. Fairness and ENABLED are beyond the prover.
* `ResultsMatchIdentity`, which under its proviso follows from the one comparison at
  the start of a child.
* The five departures of section 3 that are runs: each is one counterexample, and
  needs one instance.

## 6. What is not modelled

* **The research algorithms**: chunking, embedding, indexing, scoring. They are
  external to the modules: an index is what it was made from, an output of the runner
  any sequence of lines. `research_backend.py:197-250` is not called by the pages.
* **Formats and hashing**: fingerprints, checksums and request hashes are equality
  of what they are of. `inputs.py` beyond what changes between two snapshots.
* **Validation of request bodies** (`contracts.py`), health and
  readiness, the other gauges of `metrics.py`: functions of one request or one read.
* **Order, wording and rounding** on all pages.
* **Samples of CPU and memory** by the supervisor; logs.
* **Scripts and deployment files**: they drive a platform and keep no state.
* **Clock corrections**: time does not go back in any module.
