-------------------------- MODULE EvalStoreLedger --------------------------
(* The refinement of TaskLedger by EvalStore: the ledger is read off the   *)
(* jobs and tasks tables; attempts, tokens, times and calls are hidden.    *)
EXTENDS EvalStore

LedgerOutcome(state) ==
  CASE state = "ABSENT" -> "none"
    [] state \in {"PENDING", "RETRYING"} -> "waiting"
    [] state = "RUNNING" -> "trying"
    [] state = "COMPLETED" -> "done"
    [] state = "FAILED" -> "failed"
    [] state = "CANCELLED" -> "cancelled"

Ledger == INSTANCE TaskLedger
            WITH outcome <- [t \in Task |-> LedgerOutcome(tasks[t].state)],
                 tries <- [t \in Task |-> tasks[t].attempt],
                 verdict <- [j \in Job |-> jobs[j].state]

(* The tables keep the promise of the ledger: every transaction of Store,   *)
(* with whatever stale clock and in whatever order, is one of its steps or  *)
(* changes nothing a client can tell.                                       *)
ImplementsLedger == Ledger!LedgerSpec
=============================================================================
