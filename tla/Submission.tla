----------------------------- MODULE Submission -----------------------------
(***************************************************************************)
(* From the form of the evaluation page to the jobs table: the page's      *)
(* idempotency key and its session (pages/4_Distributed_Evaluation.py),    *)
(* the HTTP call that gives up after ten seconds (platform_client.py), and *)
(* the submit endpoint with its cached input identity (api.py, inputs.py). *)
(* A request given up by the page may be answered late, executed late, or  *)
(* not at all; the store's own part is one step here (see EvalStore).      *)
(***************************************************************************)
EXTENDS Integers, Sequences, FiniteSets

CONSTANTS
  Form,        \* what the form can ask for: mode and configurations
  NoSpec,      \* no submission_spec in the session
  Version,     \* versions of the input files
  Unreadable,  \* the version whose freeze raises: files missing or not the baseline's
  NotCached,   \* input_identity has not been computed by this process
  MaxKeys, MaxFailures, MaxEdits,  \* bounds: keys made, answers lost or servers restarted,
                                   \* changes of the inputs
  Capacity,    \* jobs the store admits
  EditsWhilePending  \* whether the user changes the form before an answer to it

ASSUME SubmissionAssumption ==
  /\ NoSpec \notin Form /\ Unreadable \in Version /\ NotCached \notin Version
  /\ {MaxKeys, MaxFailures, MaxEdits, Capacity} \subseteq Nat
  /\ EditsWhilePending \in BOOLEAN

VARIABLES
  form,      \* what the widgets of the form say
  session,   \* st.session_state: submission key and spec, and the job accepted
  call,      \* the page's call: idle, or waiting for the answer to a request
  flight,    \* requests sent and not executed
  jobs,      \* the jobs table, in order of insertion
  inputs,    \* version of the files input_identity hashes
  cached,    \* what input_identity remembers
  wanted,    \* per spec: pieces of work the user has asked for
  owed,      \* specs asked for whose acceptance the page has not reported
  failures, edits

vars == <<form, session, call, flight, jobs, inputs, cached, wanted, owed, failures, edits>>

Key == 1..MaxKeys
Idle == [at |-> "idle", key |-> 0, spec |-> NoSpec, reply |-> "none", job |-> 0]
(* Requests with one key and spec are told apart by the failures before each was sent: the page *)
(* sends another only after the call before it was given up, or was answered and so executed.   *)
Request(key, spec) == [key |-> key, spec |-> spec, sent |-> failures]
Sent == Request(call.key, call.spec)   \* nothing fails while the page waits

Init ==
  /\ form \in Form
  /\ session = [key |-> 0, spec |-> NoSpec, job |-> 0]
  /\ call = Idle
  /\ flight = {} /\ jobs = <<>>
  /\ inputs \in Version \ {Unreadable} /\ cached = NotCached
  /\ wanted = [s \in Form |-> 0] /\ owed = {}
  /\ failures = 0 /\ edits = 0

-----------------------------------------------------------------------------
(* The page *)

(* The user has asked for spec and has not been told of a job for it. *)
Pending == session.spec # NoSpec

EditForm ==
  /\ call.at = "idle"
  /\ EditsWhilePending \/ ~ Pending
  /\ \E s \in Form \ {form} : form' = s
  /\ UNCHANGED <<session, call, flight, jobs, inputs, cached, wanted, owed, failures, edits>>

NewKeyAlways(spec) == TRUE    \* a mistake: every press makes a key
NeedsKey(spec) == session.spec # spec

(* The button.  Pressed again on an unanswered form it means the same work. *)
Press ==
  LET key == IF NeedsKey(form) THEN session.key + 1 ELSE session.key
  IN /\ call.at = "idle" /\ key \in Key
     /\ session' = [session EXCEPT !.key = key, !.spec = form]
     /\ call' = [Idle EXCEPT !.at = "waiting", !.key = key, !.spec = form]
     /\ flight' = flight \cup {Request(key, form)}
     /\ wanted' = [wanted EXCEPT ![form] = IF form \in owed THEN @ ELSE @ + 1]
     /\ owed' = owed \cup {form}
     /\ UNCHANGED <<form, jobs, inputs, cached, failures, edits>>

Accepted(job) == [session EXCEPT !.job = job, !.spec = NoSpec]

(* A job: remembered, and the spec forgotten.  An error: shown. *)
GetAnswer ==
  /\ call.at = "answered"
  /\ IF call.reply = "job"
     THEN session' = Accepted(call.job) /\ owed' = owed \ {call.spec}
     ELSE UNCHANGED <<session, owed>>
  /\ call' = Idle
  /\ UNCHANGED <<form, flight, jobs, inputs, cached, wanted, failures, edits>>

(* Ten seconds pass, or the connection breaks, before or after execution. *)
GiveUp ==
  /\ call.at \in {"waiting", "answered"}
  /\ failures < MaxFailures /\ failures' = failures + 1
  /\ call' = Idle
  /\ UNCHANGED <<form, session, flight, jobs, inputs, cached, wanted, owed, edits>>

-----------------------------------------------------------------------------
(* The API process *)

Fingerprint == IF cached # NotCached THEN cached ELSE inputs

(* SELECT ... WHERE request_key, then the comparison of request_hash. *)
ByKey(key) == {n \in 1..Len(jobs) : jobs[n].key = key}
NeverSame(n, r, fp) == FALSE   \* a mistake: the hash covers the time of the request
SameRequest(n, r, fp) == jobs[n].spec = r.spec /\ jobs[n].fingerprint = fp

(* Two mistakes: the key is stored and not looked up; the work is looked up. *)
KeyIgnored(r) == {}
ByContent(r) == {n \in 1..Len(jobs) : jobs[n].spec = r.spec}
Existing(r) == ByKey(r.key)

(* The answer goes to the page only if it still waits for this request. *)
Answers(r, reply, n) ==
  call' = IF call.at = "waiting" /\ Sent = r
          THEN [call EXCEPT !.at = "answered", !.reply = reply, !.job = n] ELSE call

(* The handler of POST /api/jobs: freeze may raise (503); the store finds    *)
(* the key (the job, or 409), is full (429), or inserts.                     *)
Execute(r) ==
  /\ r \in flight
  /\ flight' = flight \ {r}
  /\ IF Fingerprint = Unreadable
     THEN Answers(r, "unavailable", 0) /\ UNCHANGED <<jobs, cached>>
     ELSE /\ cached' = Fingerprint
          /\ IF Existing(r) # {}
             THEN LET n == CHOOSE k \in Existing(r) : TRUE
                  IN Answers(r, IF SameRequest(n, r, Fingerprint) THEN "job" ELSE "conflict", n)
                     /\ UNCHANGED jobs
             ELSE IF Len(jobs) >= Capacity THEN Answers(r, "full", 0) /\ UNCHANGED jobs
             ELSE /\ jobs' = Append(jobs, [key |-> r.key, spec |-> r.spec,
                                           fingerprint |-> Fingerprint])
                  /\ Answers(r, "job", Len(jobs) + 1)
  /\ UNCHANGED <<form, session, inputs, wanted, owed, failures, edits>>

(* The process stops with the requests it has received, and forgets. *)
Restart ==
  /\ failures < MaxFailures /\ failures' = failures + 1
  /\ flight' = {} /\ cached' = NotCached
  /\ call' = IF Sent \in flight /\ call.at = "waiting" THEN Idle ELSE call
  /\ UNCHANGED <<form, session, jobs, inputs, wanted, owed, edits>>

EditInputs ==
  /\ edits < MaxEdits /\ edits' = edits + 1
  /\ \E v \in Version \ {inputs} : inputs' = v
  /\ UNCHANGED <<form, session, call, flight, jobs, cached, wanted, owed, failures>>

Next ==
  \/ EditForm \/ Press \/ GetAnswer \/ GiveUp
  \/ \E r \in flight : Execute(r)
  \/ Restart \/ EditInputs

Spec == Init /\ [][Next]_vars

(* A user who got an error presses again and leaves the form alone; requests *)
(* that are not lost are executed, and answers arrive.                       *)
Insisting == Pending /\ Press
FairSpec == Spec /\ WF_vars(Insisting) /\ WF_vars(GetAnswer)
                 /\ WF_vars(\E r \in flight : Execute(r))

-----------------------------------------------------------------------------
JobRow == [key : Key, spec : Form, fingerprint : Version \ {Unreadable}]

(* Session, call, table and counters in range; a key in the table is unique. *)
TypeOK ==
  /\ form \in Form
  /\ session \in [key : 0..MaxKeys, spec : Form \cup {NoSpec}, job : Nat]
  /\ call.at \in {"idle", "waiting", "answered"}
  /\ flight \subseteq [key : Key, spec : Form, sent : Nat] /\ failures \in Nat
  /\ jobs \in Seq(JobRow) /\ Len(jobs) <= Capacity
  /\ \A m, n \in 1..Len(jobs) : jobs[m].key = jobs[n].key => m = n
  /\ inputs \in Version /\ cached \in (Version \ {Unreadable}) \cup {NotCached}
  /\ session.job \in 0..Len(jobs)

(* "The same request can be retried safely" (page, line 48): however often a *)
(* lost answer makes the user press again, and whenever the requests given   *)
(* up are executed after all, the work is not admitted more often than it    *)
(* was asked for; and while the inputs stay as they are no press is answered *)
(* with a conflict, since a key the page reuses carries its own request.     *)
RetriedSafely ==
  /\ \A s \in Form : Cardinality({n \in 1..Len(jobs) : jobs[n].spec = s}) <= wanted[s]
  /\ edits = 0 => call.reply # "conflict"

(* The job the page reports as accepted is one for what the user had asked.  *)
AcceptedIsAsked ==
  [][ session'.job # session.job =>
        jobs[session'.job].spec = session.spec /\ jobs[session'.job].key = session.key ]_vars

(* A user who keeps pressing is told of the job in the end, unless there is  *)
(* no room or the inputs have changed.                                       *)
EventuallyTold ==
  \A s \in Form : (session.spec = s) ~>
     (session.spec # s \/ Len(jobs) = Capacity \/ edits > 0)
=============================================================================
