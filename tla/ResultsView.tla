---------------------------- MODULE ResultsView ----------------------------
(***************************************************************************)
(* GET /api/jobs/{id}/results (platform_eval/api.py get_results) reads the *)
(* job in one transaction and its tasks in a second one; the platform goes *)
(* on between the two.  The platform is the TaskLedger, which the tables   *)
(* implement.  A reader asks for one job again and again (the dashboard    *)
(* polls every 5 seconds).                                                 *)
(***************************************************************************)
EXTENDS TaskLedger, FiniteSets

CONSTANT Reader

ASSUME ViewAssumption == "none" \notin Job   \* a reader that has not asked yet

VARIABLE view   \* per reader: the request it makes and the answer it last got

NoAnswer == [state |-> "ABSENT", complete |-> FALSE, results |-> {}]
IdleReader == [phase |-> "idle", job |-> "none", state |-> "ABSENT", answer |-> NoAnswer]

ViewInit ==
  /\ LedgerInit
  /\ view = [r \in Reader |-> IdleReader]

(* require_job(job_id): 404 for an unknown job. *)
ReadJob(r, j) ==
  /\ view[r].phase = "idle"
  /\ verdict[j] # "ABSENT"
  /\ view[r].job \in {"none", j}
  /\ view' = [view EXCEPT ![r].phase = "job", ![r].job = j, ![r].state = verdict[j]]
  /\ UNCHANGED ledger

Answer(r, complete, results) ==
  view' = [view EXCEPT ![r].phase = "idle",
             ![r].answer = [state |-> view[r].state, complete |-> complete,
                            results |-> results]]

(* Mistakes: tasks of other jobs among the results; every final job complete. *)
ReadAllTasks(r) ==
  /\ view[r].phase = "job"
  /\ Answer(r, view[r].state = "COMPLETED", {t \in LedgerTask : outcome[t] = "done"})
  /\ UNCHANGED ledger
ReadTasksOfFinal(r) ==
  /\ view[r].phase = "job"
  /\ Answer(r, view[r].state \notin {"PENDING", "RUNNING"},
            {t \in Members(view[r].job, outcome) : outcome[t] = "done"})
  /\ UNCHANGED ledger

(* store.tasks(job_id), and the answer. *)
ReadTasks(r) ==
  /\ view[r].phase = "job"
  /\ Answer(r, view[r].state = "COMPLETED",
            {t \in Members(view[r].job, outcome) : outcome[t] = "done"})
  /\ UNCHANGED ledger

ViewNext ==
  \/ LedgerNext /\ UNCHANGED view
  \/ \E r \in Reader : ReadTasks(r) \/ \E j \in Job : ReadJob(r, j)

ViewSpec == ViewInit /\ [][ViewNext]_<<ledger, view>>

-----------------------------------------------------------------------------
(* The ledger and the readers' answers are well formed; an answer holds only *)
(* tasks of the job that was asked for (the WHERE job_id of store.tasks).    *)
ViewTypeOK ==
  /\ outcome \in [LedgerTask -> {"none", "waiting", "trying"} \cup Decided]
  /\ tries \in [LedgerTask -> 0..MaxAttempts]
  /\ verdict \in [Job -> {"ABSENT", "PENDING", "RUNNING", "COMPLETED", "FAILED", "CANCELLED"}]
  /\ \A r \in Reader : view[r].phase \in {"idle", "job"}
                       /\ view[r].answer.results \subseteq Members(view[r].job, outcome)

(* "Partial results are explicit, never passed off as a complete            *)
(* experiment" (api.py): although the two reads are separate, an answer     *)
(* marked complete carries the result of every task of the job, and one     *)
(* marked FAILED or CANCELLED every result the job will ever have.          *)
AnswersAreFinal ==
  \A r \in Reader : LET answer == view[r].answer
                        members == Members(view[r].job, outcome)
                    IN /\ answer.complete => answer.results = members
                       /\ answer.state \in {"FAILED", "CANCELLED"} =>
                            answer.results = {t \in members : outcome[t] = "done"}
=============================================================================
