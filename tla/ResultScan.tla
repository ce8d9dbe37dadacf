------------------------------ MODULE ResultScan ------------------------------
(***************************************************************************)
(* The end of platform_eval/research.py execute(): the query rows that the *)
(* research runner wrote, batch file after batch file, are read row by row *)
(* and summed, and the result is published or refused.                     *)
(*                                                                         *)
(* The runner is external: its output is any sequence of lines, each the   *)
(* header of a batch or the row of a question.  The reciprocal rank is     *)
(* left out: it is summed as the hits are.  validate_result judges the     *)
(* means over all questions and never those of the verified subset.        *)
(***************************************************************************)
EXTENDS Naturals, Sequences, FiniteSets

CONSTANTS
  Question,       \* every id a row may carry
  Expected,       \* the ids of runner.read_qas()
  ExpectedCount,  \* 8456
  VerifiedCount   \* 5277: rows marked context_verified

ASSUME ScanAssumption ==
  /\ Expected \subseteq Question /\ IsFiniteSet(Expected)
  /\ ExpectedCount \in Nat /\ VerifiedCount \in Nat \ {0}

Header == [kind : {"header"}, right : BOOLEAN]
\* mine: of this task's chunker and noise level.  cells: the measurements are two hits
\* ("hits": each 0 or 1), a number no hit can be ("wild": 7, nan, inf) or none ("text").
Cells == {"hits", "wild", "text"}
RowLine == [kind : {"row"}, id : Question, mine : BOOLEAN, verified : BOOLEAN,
            cells : Cells, hit1 : BOOLEAN, hit5 : BOOLEAN]
Line == Header \cup RowLine

VARIABLES
  lines,    \* the batches, in the order of their names
  profile,  \* whether profile.json can be read
  next,     \* the line to read
  seen, count, verified, hits1, hits5, verified1, verified5,   \* of execute
  status    \* "reading", "refused" or "published"

sums == <<count, verified, hits1, hits5, verified1, verified5>>
scan == <<lines, profile, next, seen, sums, status>>

(* Every file begins with its header line. *)
Output(l) == l \in Seq(Line) /\ (l # <<>> => l[1].kind = "header")

ScanStart ==
  /\ next = 1 /\ seen = {} /\ status = "reading"
  /\ count = 0 /\ verified = 0
  /\ hits1 = 0 /\ hits5 = 0 /\ verified1 = 0 /\ verified5 = 0
ScanInit == Output(lines) /\ profile \in BOOLEAN /\ ScanStart

AtLine(kind) == status = "reading" /\ next \in 1 .. Len(lines) /\ lines[next].kind = kind

Refuse == status' = "refused" /\ UNCHANGED <<lines, profile, next, seen, sums>>

(* A batch begins: its columns are the runner's QUERY_COLUMNS, or nothing is published. *)
ReadHeader ==
  /\ AtLine("header")
  /\ IF lines[next].right
       THEN next' = next + 1 /\ UNCHANGED <<lines, profile, seen, sums, status>>
       ELSE Refuse

AnyTask(row) == row.id \in Expected /\ row.id \notin seen   \* a mistake: of any configuration
Belongs(row) == row.id \in Expected /\ row.id \notin seen /\ row.mine
Readable(row) == row.cells # "text"   \* float() raises for what is no number

One(b) == IF b THEN 1 ELSE 0
EveryHit(row, hit) == One(hit)   \* a mistake: the subset sums every row
VerifiedHit(row, hit) == One(row.verified /\ hit)

(* What a wild number adds to the sums is left to the verdict. *)
Hit1(row) == row.cells = "hits" /\ row.hit1
Hit5(row) == row.cells = "hits" /\ row.hit5

ReadRow ==
  /\ AtLine("row")
  /\ LET row == lines[next]
     IN IF Belongs(row) /\ Readable(row)
          THEN /\ next' = next + 1
               /\ seen' = seen \cup {row.id} /\ count' = count + 1
               /\ verified' = verified + One(row.verified)
               /\ hits1' = hits1 + One(Hit1(row)) /\ hits5' = hits5 + One(Hit5(row))
               /\ verified1' = verified1 + VerifiedHit(row, Hit1(row))
               /\ verified5' = verified5 + VerifiedHit(row, Hit5(row))
               /\ UNCHANGED <<lines, profile, status>>
          ELSE Refuse

Rows == {i \in 1 .. Len(lines) : lines[i].kind = "row"}
Wild == \E i \in Rows : lines[i].cells = "wild"

Covered == seen = Expected /\ verified = VerifiedCount
(* validate_result: every mean finite and between 0 and 1, Hit@1 at most Hit@5.  A mean *)
(* over a wild number may be either: nan is always caught, a 7 among many misses is not.  *)
Verdicts == IF Wild THEN BOOLEAN ELSE {hits1 <= hits5}

(* The coverage, the profile and validate_result; then the result and its manifest. *)
Publish ==
  /\ status = "reading" /\ next = Len(lines) + 1
  /\ \E valid \in Verdicts :
       status' = IF Covered /\ profile /\ count = ExpectedCount /\ valid
                   THEN "published" ELSE "refused"
  /\ UNCHANGED <<lines, profile, next, seen, sums>>

ScanOver == status # "reading" /\ UNCHANGED scan

ScanNext == ReadHeader \/ ReadRow \/ Publish \/ ScanOver

ScanSpec == ScanInit /\ [][ScanNext]_scan
-----------------------------------------------------------------------------
ScanTypeOK ==
  /\ lines \in Seq(Line) /\ profile \in BOOLEAN /\ next \in 1 .. Len(lines) + 1
  /\ seen \subseteq Expected /\ count \in Nat /\ verified \in Nat
  /\ hits1 \in 0 .. count /\ hits5 \in 0 .. count
  /\ verified1 \in 0 .. verified /\ verified5 \in 0 .. verified
  /\ status \in {"reading", "refused", "published"}

Marked == {i \in Rows : lines[i].verified}
Top1(rows) == {i \in rows : Hit1(lines[i])}
Top5(rows) == {i \in rows : Hit5(lines[i])}

(* The output of one whole evaluation: every expected question has exactly one row in all *)
(* the batches together, every row is of this configuration and can be read, no batch has *)
(* other columns, the numbers of rows and of marked rows are the official ones, and the   *)
(* profile of the index is there.                                                          *)
WholeEvaluation ==
  /\ \A q \in Expected : \E i \in Rows : lines[i].id = q
  /\ \A i, k \in Rows : lines[i].id = lines[k].id => i = k
  /\ \A i \in Rows : lines[i].id \in Expected /\ lines[i].mine /\ Readable(lines[i])
  /\ \A i \in 1 .. Len(lines) : lines[i].kind = "header" => lines[i].right
  /\ Cardinality(Rows) = ExpectedCount /\ Cardinality(Marked) = VerifiedCount
  /\ profile

Ranked == Cardinality(Top1(Rows)) <= Cardinality(Top5(Rows))

(* A result is published only for a whole evaluation, and a whole evaluation whose hits are   *)
(* hits, no fewer at 5 than at 1, is never refused.  In between lies only an output with wild *)
(* numbers, whose means may pass for means of hits.                                            *)
PublishedExactlyIfRight ==
  /\ status = "published" => WholeEvaluation /\ (Wild \/ Ranked)
  /\ status = "refused" => ~ (WholeEvaluation /\ ~ Wild /\ Ranked)

(* The published means are those of the rows, where no number is wild: the sums count each    *)
(* hit once, and the subset's count exactly the hits of the questions marked verified.         *)
SumsAreOfTheRows ==
  status = "published" /\ ~ Wild =>
    /\ count = Cardinality(Rows) /\ verified = Cardinality(Marked)
    /\ hits1 = Cardinality(Top1(Rows)) /\ hits5 = Cardinality(Top5(Rows))
    /\ verified1 = Cardinality(Top1(Marked)) /\ verified5 = Cardinality(Top5(Marked))
=============================================================================
