------------------------------ MODULE Dashboard ------------------------------
(***************************************************************************)
(* pages/3_Research_Dashboard.py over services/results_service.py: every   *)
(* run of the script reads the six saved artifacts one after the other and *)
(* then draws six panels from what it read.  The artifacts are external:   *)
(* an operator may copy another edition of any of them into place between  *)
(* two steps of the script, and a file may be absent or lack a column.     *)
(*                                                                         *)
(* A row of a table is its identity and the edition it belongs to; a       *)
(* number on the page is the row and the column it was taken from, so the  *)
(* properties can tell whose number it is.  The order and the rounding of  *)
(* what is shown are left out.                                             *)
(***************************************************************************)
EXTENDS Naturals, FiniteSets

CONSTANTS
  Chunker, Noise, Metric, Statistic,
  Severe,          \* the noise level two panels are about
  Unreadable,      \* no such file, not a table, or a required column missing
  Situations,      \* directories the page may find, and how often a file is replaced then
  Copies           \* what an operator may copy into the place of each file

File == {"manifest", "final", "robustness", "sensitivity", "efficiency", "statistics"}
Panel == {"summary", "performance", "degradation", "cost", "comparison", "bootstrap"}
EvaluationSet == {"primary", "context_verified"}
Edition == 1 .. 2

Row == [set : EvaluationSet, chunker : Chunker, noise : Noise, edition : Edition]
ChangeRow == [set : EvaluationSet, chunker : Chunker, noise : Noise, metric : Metric,
              edition : Edition]
CostRow == [chunker : Chunker, noise : Noise, edition : Edition]
StatisticRow == [set : EvaluationSet, statistic : Statistic, chunker : Chunker,
                 noise : Noise, metric : Metric, edition : Edition]
Manifest == [primary : BOOLEAN, context : BOOLEAN,   \* is each of the two counts there?
             edition : Edition]

Content(f) ==
  CASE f = "manifest" -> Manifest
    [] f \in {"final", "sensitivity"} -> SUBSET Row
    [] f = "robustness" -> SUBSET ChangeRow
    [] f = "efficiency" -> SUBSET CostRow
    [] f = "statistics" -> SUBSET StatisticRow

MayHold(f, c) == c = Unreadable \/ c \in Content(f)
ASSUME ContentsAssumption ==
  /\ Severe \in Noise /\ \A t \in SUBSET Row : t # Unreadable
  /\ \A s \in Situations : /\ s.copies \in Nat /\ DOMAIN s.disk = File
                           /\ \A f \in File : MayHold(f, s.disk[f])
  /\ \A f \in File : \A c \in Copies[f] : MayHold(f, c)

VARIABLES
  disk,      \* data/research_results
  at,        \* where the script stands
  read,      \* the script's data frames (those of the run before until read again)
  shown,     \* the panels of this run, and what was drawn of one that raised
  copies,    \* replacements to come
  held       \* what has been in the place of each file since this run began

dashboard == <<disk, at, read, shown, copies, held>>

LoadOrder == <<"manifest", "final", "robustness", "sensitivity", "efficiency", "statistics">>
DrawOrder == <<"summary", "performance", "degradation", "cost", "comparison", "bootstrap">>
Position == [step : {"idle", "load", "draw", "done", "failed"}, i : 0 .. 6]
In(step, i) == [step |-> step, i |-> i]
After(step, i, then) == IF i = 6 THEN then ELSE In(step, i + 1)
NoPanel == [drawn |-> FALSE, heading |-> <<>>, cells |-> {}]

DashboardInit ==
  /\ \E s \in Situations : disk = s.disk /\ copies = s.copies
  /\ at = In("idle", 0) /\ read = [f \in File |-> Unreadable] /\ shown = [p \in Panel |-> NoPanel]
  /\ held = [f \in File |-> {disk[f]}]

(* The page is opened or a selector changed: the script starts from its first line. *)
Open ==
  /\ at' = In("load", 1) /\ shown' = [p \in Panel |-> NoPanel]
  /\ held' = [f \in File |-> {disk[f]}]
  /\ UNCHANGED <<disk, read, copies>>

(* An artifact is replaced by another edition, or goes away. *)
Replace(f) ==
  /\ copies > 0 /\ copies' = copies - 1
  /\ \E c \in Copies[f] : /\ disk' = [disk EXCEPT ![f] = c]
                          /\ held' = [held EXCEPT ![f] = @ \cup {c}]
  /\ UNCHANGED <<at, read, shown>>

PrimaryOnly(rows) == {r \in rows : r.set = "primary"}

CachedTable(f) == IF read[f] # Unreadable THEN read[f] ELSE disk[f]   \* a mistake: st.cache_data
Loaded(f) == disk[f]

(* load_...(): _require_file, read, _validate_columns; line 28 then keeps the primary rows. *)
Load ==
  \E i \in 1 .. 6 :
    LET f == LoadOrder[i]
        content == Loaded(f)
    IN /\ at = In("load", i)
       /\ IF content = Unreadable
            THEN at' = In("failed", 0) /\ UNCHANGED read
            ELSE /\ at' = After("load", i, In("draw", 1))
                 /\ read' = [read EXCEPT ![f] = IF f = "final" THEN PrimaryOnly(content)
                                                                ELSE content]
       /\ UNCHANGED <<disk, shown, copies, held>>

Draws(i, heading, cells) ==
  /\ shown' = [shown EXCEPT ![DrawOrder[i]] =
                 [drawn |-> TRUE, heading |-> heading, cells |-> cells]]
  /\ at' = After("draw", i, In("done", 0))
  /\ UNCHANGED <<disk, read, copies, held>>

(* An exception leaves on the page what was drawn before it, and the error under that. *)
Raises(i, heading, cells) ==
  /\ shown' = [shown EXCEPT ![DrawOrder[i]] =
                 [drawn |-> FALSE, heading |-> heading, cells |-> cells]]
  /\ at' = In("failed", 0)
  /\ UNCHANGED <<disk, read, copies, held>>

(* DataFrame.pivot refuses two rows for one cell. *)
Reshapes(rows) ==
  \A r, q \in rows : r.chunker = q.chunker /\ r.noise = q.noise => r = q

Cell(r, column) == [strategy |-> r.chunker, noise |-> r.noise, column |-> column, row |-> r]

Figures(manifest, names) == {[figure |-> n, edition |-> manifest.edition] : n \in names}
EveryFigure == {"configurations", "primary", "context", "rest"}

(* get_experiment_summary returns None for a key the manifest lacks: the two counts are *)
(* formatted, which None refuses, and any other figure is drawn as it is.               *)
DrawSummary ==
  LET manifest == read["manifest"]
  IN /\ at = In("draw", 1)
     /\ \/ ~ manifest.primary /\ Raises(1, <<>>, Figures(manifest, {"configurations"}))
        \/ /\ manifest.primary /\ ~ manifest.context
           /\ Raises(1, <<>>, Figures(manifest, {"configurations", "primary"}))
        \/ manifest.primary /\ manifest.context /\ Draws(1, <<>>, Figures(manifest, EveryFigure))

DrawPerformance ==
  /\ at = In("draw", 2)
  /\ \E m \in Metric :
       IF Reshapes(read["final"])
         THEN Draws(2, <<m>>, {Cell(r, m) : r \in read["final"]})
         ELSE Raises(2, <<m>>, {})

PrimarySevere(r, m) == r.set = "primary" /\ r.noise = Severe /\ r.metric = m
DrawDegradation ==
  /\ at = In("draw", 3)
  /\ \E m \in Metric :
       Draws(3, <<m>>, {Cell(r, m) : r \in {q \in read["robustness"] : PrimarySevere(q, m)}})

DrawCost ==
  /\ at = In("draw", 4)
  /\ \E column \in {"num_chunks", "runtime", "latency", "index_size"} :
       IF Reshapes(read["efficiency"])
         THEN Draws(4, <<column>>, {Cell(r, column) : r \in read["efficiency"]})
         ELSE Raises(4, <<column>>, {})

SevereOnDisk ==   \* a mistake: the comparison reads final_metrics.csv again
  IF disk["final"] = Unreadable THEN {}
  ELSE {r \in disk["final"] : r.set = "primary" /\ r.noise = Severe}
SeverePrimary == {r \in read["final"] : r.noise = Severe}
SevereContext == {r \in read["sensitivity"] : r.noise = Severe}
(* The inner merge of the two severe tables on the chunker; nothing looks at the evaluation *)
(* set of the rows of sensitivity_metrics.csv.                                              *)
DrawComparison ==
  /\ at = In("draw", 5)
  /\ \E m \in Metric :
       Draws(5, <<m>>, {[strategy |-> pair[1].chunker, column |-> m,
                         primary |-> pair[1], context |-> pair[2]] :
                          pair \in {x \in SeverePrimary \X SevereContext :
                                      x[1].chunker = x[2].chunker}})

(* Any statistic of the file may be selected, one of the other evaluation set too; without one *)
(* the selectbox holds None and the table is empty.                                            *)
DrawBootstrap ==
  /\ at = In("draw", 6)
  /\ \E m \in Metric :
       \/ \E s \in {r.statistic : r \in read["statistics"]} :
            Draws(6, <<s, m>>, {Cell(r, m) : r \in {q \in read["statistics"] :
                                  q.set = "primary" /\ q.statistic = s /\ q.metric = m}})
       \/ read["statistics"] = {} /\ Draws(6, <<m>>, {})

DashboardNext ==
  \/ Open \/ Load
  \/ \E f \in File : Replace(f)
  \/ DrawSummary \/ DrawPerformance \/ DrawDegradation
  \/ DrawCost \/ DrawComparison \/ DrawBootstrap

DashboardSpec == DashboardInit /\ [][DashboardNext]_dashboard
-----------------------------------------------------------------------------
(* What is read is what may stand in the file's place, what stands there has been held, and the *)
(* script stands at a line of its own.                                                          *)
DashboardTypeOK ==
  /\ at \in Position /\ copies \in Nat
  /\ \A f \in File : MayHold(f, disk[f]) /\ MayHold(f, read[f]) /\ disk[f] \in held[f]
  /\ \A p \in Panel : DOMAIN shown[p] = {"drawn", "heading", "cells"}

(* All panels rest on one reading: none is drawn while an artifact is still to be read or    *)
(* after one could not be (all six are read, lines 26 to 32, before the first is drawn), none *)
(* under one that is missing, and whatever is copied into place meanwhile, the score of the   *)
(* comparison is the one in the severe row of the performance table.                          *)
PanelsAgree ==
  /\ \A i \in 1 .. 6 : shown[DrawOrder[i]].drawn =>
       /\ at.step # "load" /\ \A f \in File : read[f] # Unreadable
       /\ \A k \in 1 .. i : shown[DrawOrder[k]].drawn
  /\ \A c \in shown["comparison"].cells :
       \E d \in shown["performance"].cells :
         d.row = c.primary /\ d.strategy = c.strategy /\ d.noise = Severe

(* A panel is the picture of files that stood in the directory while its page was made: of one *)
(* edition of each file it is drawn from, neither of an earlier run of the script nor stitched *)
(* together from two editions, with every row the panel is about and no other, and that also   *)
(* while files are being replaced and on a page that ends in an error.  Different panels may   *)
(* show different editions: the six files are read one after the other.                        *)
ShownWasOnDisk ==
  LET Present(f) == held[f] \ {Unreadable}
      Rows(p) == {c.row : c \in shown[p].cells}
  IN /\ shown["summary"].drawn =>
          \E c \in Present("manifest") : shown["summary"].cells = Figures(c, EveryFigure)
     /\ shown["performance"].drawn =>
          \E t \in Present("final") : Rows("performance") = {r \in t : r.set = "primary"}
     /\ shown["degradation"].drawn =>
          \E t \in Present("robustness") :
            Rows("degradation") = {r \in t : /\ r.set = "primary" /\ r.noise = Severe
                                             /\ <<r.metric>> = shown["degradation"].heading}
     /\ shown["cost"].drawn => \E t \in Present("efficiency") : Rows("cost") = t
     /\ shown["comparison"].drawn =>
          \E t \in Present("final"), u \in Present("sensitivity") :
            {<<c.primary, c.context>> : c \in shown["comparison"].cells} =
              {x \in t \X u : /\ x[1].set = "primary" /\ x[1].chunker = x[2].chunker
                              /\ x[1].noise = Severe /\ x[2].noise = Severe}
     /\ shown["bootstrap"].drawn =>
          \E t \in Present("statistics") :
            Rows("bootstrap") = {r \in t : /\ r.set = "primary"
                                           /\ <<r.statistic, r.metric>> = shown["bootstrap"].heading}
=============================================================================
