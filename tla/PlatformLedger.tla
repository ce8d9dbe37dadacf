--------------------------- MODULE PlatformLedger ---------------------------
(* The refinement of TaskLedger by Platform: coordinator, queue, workers,   *)
(* children and faults are hidden, and the verdict on a job is read off its *)
(* tasks, as refresh_job and cancel leave it (EvalStore, JobMatchesTasks).  *)
EXTENDS Platform

PlatformOutcome(state) ==
  CASE state = "ABSENT" -> "none"
    [] state \in {"PENDING", "RETRYING"} -> "waiting"
    [] state = "RUNNING" -> "trying"
    [] state = "COMPLETED" -> "done"
    [] state = "FAILED" -> "failed"
    [] state = "CANCELLED" -> "cancelled"

JobVerdict(j) ==
  LET states == {tasks[t].state : t \in {u \in Task : JobOf(u) = j}}
  IN IF "ABSENT" \in states THEN "ABSENT"
     ELSE IF "CANCELLED" \in states THEN "CANCELLED"
     ELSE IF states \subseteq {"COMPLETED"} THEN "COMPLETED"
     ELSE IF states \subseteq TERMINAL THEN "FAILED"
     ELSE IF states = {"PENDING"} THEN "PENDING" ELSE "RUNNING"

Ledger == INSTANCE TaskLedger
            WITH outcome <- [t \in Task |-> PlatformOutcome(tasks[t].state)],
                 tries <- [t \in Task |-> tasks[t].attempt],
                 verdict <- [j \in Job |-> JobVerdict(j)]

(* The whole platform, faults included, keeps the promise the store makes:  *)
(* whatever is delivered twice, killed, lost or late, each of its steps is  *)
(* a step of the ledger or shows no client anything.                        *)
PlatformKeepsLedger == Ledger!LedgerSpec
=============================================================================
