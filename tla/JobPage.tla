------------------------------- MODULE JobPage -------------------------------
(***************************************************************************)
(* The lower half of pages/4_Distributed_Evaluation.py: the list of jobs,  *)
(* the fragment progress() that polls the chosen job every five seconds    *)
(* with two requests (the job with its counts, then its tasks), and the    *)
(* button that cancels it.  The platform - the TaskLedger, which the       *)
(* store's tables implement - goes on between any two of these requests,   *)
(* other clients read the results of a job meanwhile (ResultsView), and    *)
(* any request of the page may fail.                                       *)
(***************************************************************************)
EXTENDS ResultsView

CONSTANT NoJob   \* nothing chosen yet

ASSUME PageAssumption == NoJob \notin Job /\ IsFiniteSet(Config)

VARIABLE page   \* where the script stands, what it has read, what it shows

Blank == [job |-> NoJob, state |-> "ABSENT", completed |-> 0, total |-> 0]
Nothing == [job |-> NoJob, state |-> "ABSENT", completed |-> 0, total |-> 0,
            partial |-> FALSE, results |-> {}, rows |-> {}]

PageInit ==
  /\ ViewInit
  /\ page = [at |-> "list", pressed |-> FALSE, listed |-> {}, read |-> Blank, shown |-> Nothing]

Done(j) == {t \in Members(j, outcome) : outcome[t] = "done"}
Final(state) == state \in {"COMPLETED", "FAILED", "CANCELLED"}

(* client.call("/api/jobs?limit=50"); without jobs, or on an error, st.stop(). *)
ListJobs ==
  /\ page.at = "list"
  /\ page' = [page EXCEPT !.listed = {j \in Job : verdict[j] # "ABSENT"}]
  /\ UNCHANGED ledger

Opened(j) == [page EXCEPT !.at = "poll", !.read = [Blank EXCEPT !.job = j], !.shown = Nothing]

(* The selectbox: the job just submitted or the first one, or the user's choice; *)
(* a choice starts the script again with nothing drawn.                          *)
Pick(j) ==
  /\ page.at \in {"list", "shown"} /\ j \in page.listed
  /\ page' = Opened(j)
  /\ UNCHANGED ledger

Completed(j) == Cardinality(Done(j))

(* GET /api/jobs/{id}: Store.job reads the row and the counts in one snapshot. *)
PollJob ==
  LET j == page.read.job
  IN /\ page.at = "poll"
     /\ page' = [page EXCEPT !.at = "job",
                   !.read = [job |-> j, state |-> verdict[j],
                             completed |-> Completed(j),
                             total |-> Cardinality(Members(j, outcome))]]
     /\ UNCHANGED ledger

(* What is drawn from the job that was read first and the tasks read after it. *)
PartialUntilFinal(job) == ~ Final(job.state)   \* a mistake: a failed job is whole
Partial(job) == job.state # "COMPLETED"

(* A mistake: the results of a cancelled job are hidden. *)
DrawnUnlessCancelled(job) == IF job.state = "CANCELLED" THEN {} ELSE Done(job.job)
Drawn(job) == Done(job.job)

(* The tasks, and the picture of both; below it the cancel button, which does something *)
(* only in the run its press started, and is not drawn if the job has ended by then.     *)
PollTasks ==
  LET job == page.read
      results == Drawn(job)
  IN /\ page.at = "job"
     /\ page' = [page EXCEPT !.at = IF page.pressed /\ ~ Final(job.state) THEN "cancel"
                                                                        ELSE "shown",
                   !.pressed = FALSE,
                   !.shown = [job |-> job.job, state |-> job.state,
                              completed |-> job.completed, total |-> job.total,
                              partial |-> Partial(job), results |-> results,
                              rows |-> Members(job.job, outcome)]]
     /\ UNCHANGED ledger

(* A read fails: show_error in place of what it was for, a press of the button is lost. *)
ReadFails ==
  /\ page.at \in {"list", "poll", "job"}
  /\ page' = [page EXCEPT !.at = IF page.at = "list" THEN "list" ELSE "shown",
                         !.pressed = FALSE, !.shown = Nothing]
  /\ UNCHANGED ledger

(* run_every="5s" *)
PollAgain ==
  /\ page.at = "shown" /\ page.read.job # NoJob
  /\ page' = [page EXCEPT !.at = "poll"]
  /\ UNCHANGED ledger

CancelOffered == page.shown.job # NoJob /\ ~ Final(page.shown.state)

(* A press runs the fragment again from the top: it polls before it cancels. *)
PressCancel ==
  /\ page.at = "shown" /\ CancelOffered
  /\ page' = [page EXCEPT !.at = "poll", !.pressed = TRUE]
  /\ UNCHANGED ledger

(* POST .../cancel: the store withdraws the job and st.rerun() starts the script again;  *)
(* or the job has ended meanwhile (409), the request is lost or its answer is, and the   *)
(* error stands below what was drawn.                                                     *)
CancelArrives ==
  /\ page.at = "cancel"
  /\ \/ /\ Withdraw(page.shown.job)
        /\ \/ page' = [page EXCEPT !.at = "list", !.listed = {}]
           \/ page' = [page EXCEPT !.at = "shown"]
     \/ page' = [page EXCEPT !.at = "shown"] /\ UNCHANGED ledger

PageStep ==
  \/ ListJobs \/ PollJob \/ PollTasks \/ ReadFails \/ PollAgain \/ PressCancel \/ CancelArrives
  \/ \E j \in Job : Pick(j)

PageNext ==
  \/ PageStep /\ UNCHANGED view
  \/ ViewNext /\ UNCHANGED page

PageSpec == PageInit /\ [][PageNext]_<<ledger, view, page>>

-----------------------------------------------------------------------------
Shown == page.shown.job # NoJob

(* The page holds what the API can answer; a drawn table has every task of  *)
(* its job, and the counts in the header are of that table.                 *)
PageTypeOK ==
  /\ page.at \in {"list", "poll", "job", "shown", "cancel"}
  /\ page.pressed => page.at \in {"poll", "job"}
  /\ page.listed \subseteq Job
  /\ Shown => /\ page.shown.job = page.read.job
              /\ page.shown.rows = Members(page.shown.job, outcome)
              /\ page.shown.total = Cardinality(page.shown.rows)

(* The header is read before the table: it may lag behind the results drawn *)
(* below it and never claims more of them than there are, and a final state *)
(* is shown with the final count.  Results drawn, or downloaded, without    *)
(* the caption "Partial results" are those of every configuration.          *)
PageIsHonest ==
  Shown =>
    /\ page.shown.completed <= Cardinality(page.shown.results)
    /\ Final(page.shown.state) => page.shown.completed = Cardinality(page.shown.results)
    /\ ~ page.shown.partial =>
         page.shown.results = Members(page.shown.job, outcome) /\ page.shown.results # {}

(* Two endpoints, four reads and one job: once the page shows a final state *)
(* and another client has a final answer, they are the same state with the  *)
(* same results.                                                            *)
FinalViewsAgree ==
  \A r \in Reader :
    Shown /\ Final(page.shown.state) /\ view[r].job = page.shown.job
          /\ Final(view[r].answer.state) =>
      /\ view[r].answer.state = page.shown.state
      /\ view[r].answer.results = page.shown.results
=============================================================================
