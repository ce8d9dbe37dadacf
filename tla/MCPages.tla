------------------------------- MODULE MCPages -------------------------------
(***************************************************************************)
(* A small instance for TLC of the pages of the Streamlit application      *)
(* (src/pages/): the evaluation page with the readers of the results       *)
(* endpoint, the two live retrieval pages, and the research dashboard.     *)
(* The pages share no state of a session, and a session shows one of them, *)
(* so each behaviour stays on one page while the others rest: letting them *)
(* move together would only multiply the states.                           *)
(***************************************************************************)
EXTENDS JobPage, LiveWorkspace, Dashboard, TLC

(* The directories of the dashboard: every table of at most two rows where   *)
(* the panels select, pair or reshape rows, and whole editions where files   *)
(* are replaced.                                                             *)

Few(rows) == {t \in SUBSET rows : Cardinality(t) \in 1 .. 2}
Bare == [manifest |-> [primary |-> TRUE, context |-> TRUE, edition |-> 1], final |-> {}, robustness |-> {},
         sensitivity |-> {}, efficiency |-> {}, statistics |-> {}]

\* Every small pair of tables for the panels about scores: the page draws the rows of the second
\* whatever their evaluation set.
ScoreTables ==
  {[Bare EXCEPT !.final = a, !.sensitivity = c] :
     a \in {t \in Few(Row) : \E r \in t : r.set = "primary"},
     c \in Few({r \in Row : r.edition = 1})}

\* Every small table for a panel that stands alone.
OneChunker == {CHOOSE c \in Chunker : TRUE}
OtherTables ==
  {[Bare EXCEPT !.manifest.primary = p, !.manifest.context = c] : p, c \in BOOLEAN}
  \cup {[Bare EXCEPT !.robustness = t] :
          t \in Few([set : EvaluationSet, chunker : OneChunker, noise : Noise,
                     metric : Metric, edition : {1}])}
  \cup {[Bare EXCEPT !.efficiency = t] : t \in Few(CostRow)}
  \cup {[Bare EXCEPT !.statistics = t] :
          t \in Few([set : EvaluationSet, statistic : Statistic, chunker : OneChunker,
                     noise : {Severe}, metric : Metric, edition : {1}])}

Whole(e) ==
  [manifest |-> [primary |-> TRUE, context |-> TRUE, edition |-> e],
   final |-> [set : {"primary"}, chunker : Chunker, noise : Noise, edition : {e}],
   robustness |-> [set : EvaluationSet, chunker : Chunker, noise : {Severe}, metric : Metric,
                   edition : {e}],
   sensitivity |-> [set : {"context_verified"}, chunker : Chunker, noise : Noise, edition : {e}],
   efficiency |-> [chunker : Chunker, noise : Noise, edition : {e}],
   statistics |-> [set : EvaluationSet, statistic : Statistic, chunker : Chunker,
                   noise : Noise, metric : Metric, edition : {e}]]

\* Whole snapshots of two editions, copied into place file by file; any file may go away.
Editions == [f \in File |-> {Unreadable, Whole(1)[f], Whole(2)[f]}]

SmallSituations ==
  [disk : {Bare} \cup ScoreTables \cup OtherTables, copies : {0}] \cup [disk : {Whole(1)}, copies : {2}]

-----------------------------------------------------------------------------
VARIABLE open   \* the page of the session

evaluation == <<ledger, view, page>>
pages == <<open, evaluation, workspace, dashboard>>

(* A page that rests has one initial state. *)
Init ==
  /\ open \in {"evaluation", "live", "research"}
  /\ PageInit
  /\ WorkspaceInit /\ (open # "live" => widget = CHOOSE w \in FreshWidgets : TRUE)
  /\ DashboardInit /\ (open # "research" => disk = Bare /\ copies = 0)

Next ==
  \/ open = "evaluation" /\ PageNext /\ UNCHANGED <<open, workspace, dashboard>>
  \/ open = "live" /\ WorkspaceNext /\ UNCHANGED <<open, evaluation, dashboard>>
  \/ open = "research" /\ DashboardNext /\ UNCHANGED <<open, evaluation, workspace>>

Spec == Init /\ [][Next]_pages

(* Whatever page is open: ledger, answers and the state of every page are in range. *)
TypeOK == ViewTypeOK /\ PageTypeOK /\ WorkspaceTypeOK /\ DashboardTypeOK

(* Jobs and configurations are interchangeable; so are documents and questions. *)
Symmetry == Permutations(Job) \cup Permutations(Config) \cup Permutations(Doc)
              \cup Permutations(Question)
=============================================================================
