----------------------------- MODULE TaskLedger -----------------------------
(***************************************************************************)
(* What the authority of the evaluation platform promises its clients,     *)
(* without tables, tokens, leases, clocks or idempotency keys: a job is    *)
(* admitted with a fixed set of configurations, each is tried one attempt  *)
(* at a time and at most MaxAttempts times, an outcome once decided stands,*)
(* and the verdict on a job is a function of the outcomes of its tasks.    *)
(* EvalStore implements this module (see EvalStoreLedger).                 *)
(***************************************************************************)
EXTENDS Integers

CONSTANTS Job, Config, MaxAttempts

ASSUME LedgerAssumption == MaxAttempts \in Nat \ {0}

VARIABLES
  outcome,  \* per task: where it stands
  tries,    \* per task: attempts started
  verdict   \* per job: the state its clients see

ledger == <<outcome, tries, verdict>>

LedgerTask == Job \X Config
Decided == {"done", "failed", "cancelled"}
Members(j, o) == {t \in LedgerTask : t[1] = j /\ o[t] # "none"}

VerdictOn(j, o, n) ==
  IF \A t \in Members(j, o) : o[t] = "done" THEN "COMPLETED"
  ELSE IF \A t \in Members(j, o) : o[t] \in Decided THEN "FAILED"
  ELSE IF \E t \in Members(j, o) : n[t] > 0 THEN "RUNNING"
  ELSE "PENDING"

(* New outcomes o after n tries, and the verdict on every job touched by S. *)
Record(S, o, n) ==
  /\ outcome' = o
  /\ tries' = n
  /\ verdict' = [j \in Job |-> IF (\E t \in S : t[1] = j) /\ verdict[j] # "CANCELLED"
                               THEN VerdictOn(j, o, n) ELSE verdict[j]]

LedgerInit ==
  /\ outcome = [t \in LedgerTask |-> "none"]
  /\ tries = [t \in LedgerTask |-> 0]
  /\ verdict = [j \in Job |-> "ABSENT"]

Admit(j, configs) ==
  /\ verdict[j] = "ABSENT" /\ configs # {}
  /\ outcome' = [t \in LedgerTask |-> IF t[1] = j /\ t[2] \in configs
                                      THEN "waiting" ELSE outcome[t]]
  /\ verdict' = [verdict EXCEPT ![j] = "PENDING"]
  /\ UNCHANGED tries

Try(t) ==
  /\ outcome[t] = "waiting" /\ tries[t] < MaxAttempts
  /\ Record({t}, [outcome EXCEPT ![t] = "trying"], [tries EXCEPT ![t] = @ + 1])

Succeed(t) ==
  /\ outcome[t] = "trying"
  /\ Record({t}, [outcome EXCEPT ![t] = "done"], tries)

(* Attempts fail one at a time, or many when recovery sweeps the table. *)
Fail(S) ==
  /\ S # {} /\ \A t \in S : outcome[t] = "trying"
  /\ Record(S, [t \in LedgerTask |-> IF t \notin S THEN outcome[t]
                                     ELSE IF tries[t] < MaxAttempts THEN "waiting"
                                     ELSE "failed"], tries)

Withdraw(j) ==
  /\ verdict[j] \in {"PENDING", "RUNNING"}
  /\ outcome' = [t \in LedgerTask |-> IF t[1] = j /\ outcome[t] \in {"waiting", "trying"}
                                      THEN "cancelled" ELSE outcome[t]]
  /\ verdict' = [verdict EXCEPT ![j] = "CANCELLED"]
  /\ UNCHANGED tries

LedgerNext ==
  \/ \E j \in Job, configs \in SUBSET Config : Admit(j, configs)
  \/ \E j \in Job : Withdraw(j)
  \/ \E t \in LedgerTask : Try(t) \/ Succeed(t)
  \/ \E S \in SUBSET LedgerTask : Fail(S)

LedgerSpec == LedgerInit /\ [][LedgerNext]_ledger
=============================================================================
