---------------------------- MODULE MCEvalStore ----------------------------
(* Small instances of EvalStore for TLC: symmetry sets for safety runs, and *)
(* the two situations the run of the job rows and of admission looks at.    *)
EXTENDS EvalStoreLedger, Functions, TLC

(* Every one of these is only ever compared with =, so permuting them maps *)
(* behaviours to behaviours.                                               *)
Symmetry == Permutations(Job) \cup Permutations(Config) \cup Permutations(Token)
            \cup Permutations(Worker) \cup Permutations(Client) \cup Permutations(Variant)

Claims == SumFunction([t \in Task |-> tasks[t].attempt])
Known == {j \in Job : jobs[j].state # "ABSENT"}
Busy == {c \in Client : ucall[c].op # "idle" \/ ucall[c].reply # "none"}

(* Clients compete for admission; nobody else calls and no time passes. *)
Crowd ==
  /\ clock = DispatchWindow /\ Claims = 0
  /\ ccall = IdleCoordinator /\ \A w \in Worker : wcall[w] = IdleWorker

(* One job without a key, one client at a time, up to three claims; what is *)
(* claimed again is claimed before the clock has moved far.                 *)
Alone ==
  /\ Cardinality(Known) <= 1 /\ \A j \in Known : jobs[j].key = NoKey
  /\ Cardinality(Busy) <= 1
  /\ \A c \in Busy : ucall[c].op = "submit" => ucall[c].key = NoKey /\ Known = {}
  /\ Claims <= IF clock > DispatchWindow THEN 2 ELSE 3
  /\ clock > DispatchWindow + 1 => \A t \in Task : tasks[t].attempt <= 1

Situation == Crowd \/ Alone
=============================================================================
