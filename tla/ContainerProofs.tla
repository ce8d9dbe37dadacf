---------------------------- MODULE ContainerProofs ----------------------------
(***************************************************************************)
(* Proofs about the presence of a worker container, for every period,      *)
(* window, wait and number of failures in a row, and about the scan of the *)
(* runner's rows, for every output, of any length, and every set of        *)
(* expected questions.                                                     *)
(***************************************************************************)
EXTENDS Presence, ResultScan, FiniteSetTheorems, TLAPS

-----------------------------------------------------------------------------
(* Presence *)

Late == Period + MaxWait   \* what one failed heartbeat adds to the age of a row

(* Everybody is in time, and the row is as recent as the thread's phase says. *)
InPhase ==
  /\ thread.at # "off" => thread.time <= now
  /\ thread.at = "waiting" => now <= thread.time + MaxWait
  /\ thread.at = "sleeping" => now <= thread.time + Period
  /\ sup.at # "off" => sup.time <= now
  /\ sup.at = "waiting" => now <= sup.time + MaxWait

Recent ==
  beaten => /\ lastSeen.present
            /\ thread.at = "sleeping" => lastSeen.time >= thread.time - MaxWait - missed * Late
            /\ thread.at = "waiting" => lastSeen.time >= thread.time - Late - missed * Late

OffIsOff ==
  /\ thread.at = "off" => thread = Off /\ sup = Off /\ ~ beaten /\ lastSeen.time <= died
  /\ sup.at = "off" => sup = Off

PInv == PresenceTypeOK /\ InPhase /\ Recent /\ OffIsOff

LEMMA OneMore == ASSUME NEW k \in Nat PROVE (k + 1) * Late = k * Late + Late /\ k * Late \in Nat
<1>1. Late \in Nat
  BY PresenceAssumption DEF Late
<1> QED
  BY <1>1

LEMMA NotMore ==
  ASSUME NEW k \in Nat, NEW m \in Nat, k <= m PROVE k * Late <= m * Late
<1>1. Late \in Nat
  BY PresenceAssumption DEF Late
<1> QED
  BY <1>1

LEMMA PresenceStarts == PresenceInit => PInv
<1> SUFFICES ASSUME PresenceInit PROVE PInv
  OBVIOUS
<1>1. /\ now = 0 /\ died = 0 /\ missed = 0 /\ beaten = FALSE
      /\ thread = Off /\ sup = Off
      /\ lastSeen.present = FALSE /\ lastSeen.time = 0 /\ lastSeen \in [present : BOOLEAN, time : 0 .. now]
  BY DEF PresenceInit, Nobody
<1>2. Off \in Moment /\ Off.at = "off"
  BY DEF Off, Moment
<1>3. PresenceTypeOK
  <2>1. now \in Nat /\ died \in 0 .. now /\ missed \in 0 .. MaxMissed /\ beaten \in BOOLEAN
    <3>1. MaxMissed \in Nat
      BY PresenceAssumption
    <3>2. 0 \in 0 .. 0 /\ 0 \in 0 .. MaxMissed
      BY <3>1
    <3> QED
      BY <1>1, <3>2
  <2>2. thread \in Moment /\ sup \in Moment
    BY <1>1, <1>2
  <2> QED
    BY <1>1, <2>1, <2>2 DEF PresenceTypeOK
<1> QED
  BY <1>1, <1>2, <1>3 DEF PInv, InPhase, Recent, OffIsOff

(* Every step of the worker, of its supervisor and of time, keeps PInv. *)
LEMMA StepHolds == PInv /\ [PresenceNext]_presence => PInv'
<1> SUFFICES ASSUME PInv, [PresenceNext]_presence PROVE PInv'
  OBVIOUS
<1> USE PresenceAssumption DEF PInv, PresenceTypeOK, Moment, InPhase, Recent, OffIsOff,
      Off, Waiting, Sleeping, PresenceRow
<1>0. missed * Late \in Nat /\ Late \in Nat /\ Late = Period + MaxWait
  BY OneMore DEF Late
<1>1. CASE Tick
  BY <1>0, <1>1 DEF Tick, InTime
<1>2. CASE ThreadStarts
  BY <1>0, <1>2 DEF ThreadStarts
<1>3. CASE Beat
  BY <1>0, <1>3 DEF Beat
<1>4. CASE Written
  <2>1. 0 * Late = 0
    BY <1>0
  <2> QED
    BY <1>0, <1>4, <2>1 DEF Written
<1>5. CASE Failed
  <2> USE DEF AfterFailure
  <2>1. missed' * Late = missed * Late + Late
    BY <1>5, OneMore DEF Failed
  <2>2. PresenceTypeOK' /\ InPhase' /\ OffIsOff'
    BY <1>5 DEF Failed
  <2>3. ASSUME beaten' PROVE lastSeen'.time >= thread'.time - MaxWait - missed' * Late
    BY <1>0, <1>5, <2>1, <2>3 DEF Failed
  <2> QED
    BY <1>5, <2>2, <2>3 DEF Failed
<1>6. CASE Killed
  <2>1. thread' = Off /\ sup' = Off /\ missed' = 0 /\ beaten' = FALSE /\ died' = now
        /\ now' = now /\ lastSeen' = lastSeen
    BY <1>6 DEF Killed
  <2>2. PresenceTypeOK'
    <3>1. 0 \in 0 .. MaxMissed /\ now \in 0 .. now
      OBVIOUS
    <3> QED
      BY <2>1, <3>1
  <2> QED
    BY <2>1, <2>2
<1>7. CASE SupervisorBeats
  BY <1>0, <1>7 DEF SupervisorBeats
<1>8. CASE SupervisorWrites
  BY <1>0, <1>8 DEF SupervisorWrites
<1>9. CASE SupervisorFails
  BY <1>0, <1>9 DEF SupervisorFails
<1>10. CASE UNCHANGED presence
  BY <1>10 DEF presence
<1> QED
  BY <1>1, <1>2, <1>3, <1>4, <1>5, <1>6, <1>7, <1>8, <1>9, <1>10 DEF PresenceNext

THEOREM PInvHolds == PresenceSpec => []PInv
BY PresenceStarts, StepHolds, PTL DEF PresenceSpec

(* The row of a worker that runs and has reported once is at most as old as its heartbeats  *)
(* can make it, for every period, longest wait and number of failures: Presence and the     *)
(* supervisor's heartbeats, whatever the order in which they are written.                   *)
THEOREM LiveRowStaysRecent == PresenceSpec => []LiveRowIsRecent
<1>1. PInv => LiveRowIsRecent
  <2> SUFFICES ASSUME PInv, beaten PROVE lastSeen.present /\ now - lastSeen.time <= Oldest
    BY DEF LiveRowIsRecent
  <2>1. missed \in Nat /\ missed <= MaxMissed /\ now \in Nat /\ lastSeen.time \in Int
        /\ thread.time \in Int /\ thread.at \in {"off", "waiting", "sleeping"}
    BY PresenceAssumption DEF PInv, PresenceTypeOK, Moment
  <2>2. missed * Late <= MaxMissed * Late /\ missed * Late \in Nat /\ MaxMissed * Late \in Nat
    BY <2>1, NotMore, OneMore, PresenceAssumption
  <2>3. Oldest = MaxMissed * Late + Late + MaxWait /\ Late = Period + MaxWait
    BY OneMore, PresenceAssumption DEF Oldest, Late
  <2>4. now - lastSeen.time <= Oldest
    BY <2>1, <2>2, <2>3, PresenceAssumption DEF PInv, InPhase, Recent, OffIsOff
  <2> QED
    BY <2>4 DEF PInv, Recent
<1> QED
  BY <1>1, PInvHolds, PTL

(* A killed container is unavailable once the window has passed since its death. *)
THEOREM DeadWorkerIsNoticed == PresenceSpec => []GoneIsNoticed
<1>1. PInv => GoneIsNoticed
  BY PresenceAssumption DEF PInv, PresenceTypeOK, OffIsOff, Off, GoneIsNoticed, Healthy
<1> QED
  BY <1>1, PInvHolds, PTL

-----------------------------------------------------------------------------
(* The scan of the rows *)

Upto(T, n) == T \cap (1 .. n)

(* What the lines read so far have left in the script's variables. *)
ReadSoFar ==
  /\ \A i \in 1 .. next - 1 : lines[i].kind = "header" => lines[i].right
  /\ \A i \in Upto(Rows, next - 1) : lines[i].id \in seen /\ lines[i].mine /\ Readable(lines[i])
  /\ \A q \in seen : \E i \in Upto(Rows, next - 1) : lines[i].id = q
  /\ \A i, k \in Upto(Rows, next - 1) : lines[i].id = lines[k].id => i = k

Counted ==
  /\ count = Cardinality(Upto(Rows, next - 1))
  /\ verified = Cardinality(Upto(Marked, next - 1))
  /\ hits1 = Cardinality(Upto(Top1(Rows), next - 1))
  /\ hits5 = Cardinality(Upto(Top5(Rows), next - 1))
  /\ verified1 = Cardinality(Upto(Top1(Marked), next - 1))
  /\ verified5 = Cardinality(Upto(Top5(Marked), next - 1))

Judged ==
  /\ status = "published" => /\ next = Len(lines) + 1 /\ Covered /\ profile
                             /\ count = ExpectedCount /\ (Wild \/ hits1 <= hits5)
  /\ status = "refused" => ~ (WholeEvaluation /\ ~ Wild /\ Ranked)

SInv == ScanTypeOK /\ ReadSoFar /\ Counted /\ Judged

(* One more position adds one to the count exactly when it is in the set. *)
LEMMA CountOne ==
  ASSUME NEW T, NEW n \in Nat \ {0}
  PROVE  /\ IsFiniteSet(Upto(T, n)) /\ Cardinality(Upto(T, n)) \in Nat
         /\ Cardinality(Upto(T, n)) = Cardinality(Upto(T, n - 1)) + One(n \in T)
<1>1. IsFiniteSet(1 .. n) /\ IsFiniteSet(1 .. n - 1)
  BY FS_Interval
<1>2. IsFiniteSet(Upto(T, n)) /\ IsFiniteSet(Upto(T, n - 1))
  BY <1>1, FS_Subset DEF Upto
<1>3. Cardinality(Upto(T, n)) \in Nat /\ Cardinality(Upto(T, n - 1)) \in Nat
  BY <1>2, FS_CardinalityType
<1>4. CASE n \in T
  <2>1. Upto(T, n) = Upto(T, n - 1) \cup {n} /\ n \notin Upto(T, n - 1)
    BY <1>4 DEF Upto
  <2>2. Cardinality(Upto(T, n - 1) \cup {n}) = Cardinality(Upto(T, n - 1)) + 1
    BY <1>2, <2>1, FS_AddElement
  <2> QED
    BY <1>2, <1>3, <1>4, <2>1, <2>2 DEF One
<1>5. CASE n \notin T
  <2>1. Upto(T, n) = Upto(T, n - 1)
    BY <1>5 DEF Upto
  <2> QED
    BY <1>2, <1>3, <1>5, <2>1 DEF One
<1> QED
  BY <1>4, <1>5

(* Every line is a header or a row, and the whole output has been counted at its end. *)
LEMMA LineKinds ==
  ASSUME lines \in Seq(Line), NEW i \in 1 .. Len(lines)
  PROVE  \/ lines[i].kind = "row" /\ lines[i] \in RowLine
         \/ lines[i].kind = "header" /\ lines[i] \in Header
<1>1. lines[i] \in Line
  OBVIOUS
<1> QED
  BY <1>1 DEF Line, RowLine, Header

LEMMA WholeIsUpto ==
  ASSUME lines \in Seq(Line), NEW T, T \subseteq 1 .. Len(lines)
  PROVE  Upto(T, Len(lines)) = T
BY DEF Upto

(* A step that leaves the lines alone leaves what is said of the whole output alone. *)
LEMMA SameOutput ==
  ASSUME lines' = lines, profile' = profile
  PROVE  /\ Rows' = Rows /\ Marked' = Marked /\ Wild' = Wild
         /\ Top1(Rows)' = Top1(Rows) /\ Top5(Rows)' = Top5(Rows)
         /\ Top1(Marked)' = Top1(Marked) /\ Top5(Marked)' = Top5(Marked)
         /\ WholeEvaluation' = WholeEvaluation /\ Ranked' = Ranked
BY DEF Rows, Marked, Wild, Top1, Top5, Hit1, Hit5, WholeEvaluation, Ranked, Readable

LEMMA ScanStarts == ScanInit => SInv
<1> SUFFICES ASSUME ScanInit PROVE SInv
  OBVIOUS
<1>1. lines \in Seq(Line) /\ Len(lines) \in Nat /\ profile \in BOOLEAN
  BY DEF ScanInit, Output
<1>2. /\ next = 1 /\ seen = {} /\ count = 0 /\ verified = 0 /\ status = "reading"
      /\ hits1 = 0 /\ hits5 = 0 /\ verified1 = 0 /\ verified5 = 0
  BY DEF ScanInit, ScanStart
<1>3. ScanTypeOK
  BY <1>1, <1>2 DEF ScanTypeOK
<1>4. \A T : Upto(T, next - 1) = {}
  BY <1>2 DEF Upto
<1>5. Cardinality({}) = 0
  BY FS_EmptySet
<1>6. Counted
  BY <1>2, <1>4, <1>5 DEF Counted
<1>7. ReadSoFar
  <2>1. 1 .. next - 1 = {}
    BY <1>2
  <2> QED
    BY <1>2, <1>4, <2>1 DEF ReadSoFar
<1> QED
  BY <1>2, <1>3, <1>6, <1>7 DEF SInv, Judged

(* A refusal keeps what was read; it must have a reason. *)
LEMMA Refusing ==
  ASSUME SInv, Refuse, ~ (WholeEvaluation /\ ~ Wild /\ Ranked)
  PROVE  SInv'
<1>1. /\ lines' = lines /\ profile' = profile /\ next' = next /\ seen' = seen
      /\ count' = count /\ verified' = verified /\ hits1' = hits1 /\ hits5' = hits5
      /\ verified1' = verified1 /\ verified5' = verified5 /\ status' = "refused"
  BY DEF Refuse, sums
<1>2. ScanTypeOK' /\ ReadSoFar' /\ Counted'
  BY <1>1, SameOutput DEF SInv, ScanTypeOK, ReadSoFar, Counted, Readable
<1>3. Judged'
  BY <1>1, SameOutput DEF Judged
<1> QED
  BY <1>2, <1>3 DEF SInv

(* A header: right, and the scan goes on, or wrong, and the reason to refuse is found. *)
LEMMA HeaderStep == SInv /\ ReadHeader => SInv'
<1> SUFFICES ASSUME SInv, ReadHeader PROVE SInv'
  OBVIOUS
<1>1. /\ lines \in Seq(Line) /\ next \in 1 .. Len(lines) /\ status = "reading"
      /\ lines[next].kind = "header"
  BY DEF ReadHeader, AtLine, SInv, ScanTypeOK
<1>2. CASE lines[next].right
  <2>1. /\ lines' = lines /\ profile' = profile /\ next' = next + 1 /\ seen' = seen
        /\ count' = count /\ verified' = verified /\ hits1' = hits1 /\ hits5' = hits5
        /\ verified1' = verified1 /\ verified5' = verified5 /\ status' = status
    BY <1>2 DEF ReadHeader, sums
  <2>2. ScanTypeOK'
    BY <1>1, <2>1 DEF SInv, ScanTypeOK
  <2>3. /\ next \notin Rows /\ next \notin Marked
        /\ next \notin Top1(Rows) /\ next \notin Top5(Rows)
        /\ next \notin Top1(Marked) /\ next \notin Top5(Marked)
    BY <1>1 DEF Rows, Marked, Top1, Top5
  <2>4. \A T : next \notin T => Upto(T, next' - 1) = Upto(T, next - 1)
    BY <1>1, <2>1 DEF Upto
  <2>5. ReadSoFar'
    BY <1>1, <1>2, <2>1, <2>3, <2>4, SameOutput DEF SInv, ReadSoFar, Readable
  <2>6. Counted'
    BY <1>1, <2>1, <2>3, <2>4, SameOutput DEF SInv, Counted
  <2>7. Judged'
    BY <1>1, <2>1 DEF Judged
  <2> QED
    BY <2>2, <2>5, <2>6, <2>7 DEF SInv
<1>3. CASE ~ lines[next].right
  <2>1. ~ WholeEvaluation
    BY <1>1, <1>3 DEF WholeEvaluation
  <2>2. Refuse
    BY <1>3 DEF ReadHeader
  <2> QED
    BY <2>1, <2>2, Refusing
<1> QED
  BY <1>2, <1>3

(* A row that is refused shows the reason. *)
LEMMA RowRefused ==
  SInv /\ ReadRow /\ ~ (Belongs(lines[next]) /\ Readable(lines[next])) => SInv'
<1> SUFFICES ASSUME SInv, ReadRow, ~ (Belongs(lines[next]) /\ Readable(lines[next]))
             PROVE  SInv'
  OBVIOUS
<1>1. /\ lines \in Seq(Line) /\ next \in 1 .. Len(lines)
      /\ lines[next].kind = "row" /\ Refuse
  BY DEF ReadRow, AtLine, SInv, ScanTypeOK
<1>2. next \in Rows
  BY <1>1 DEF Rows
<1>3. ~ WholeEvaluation
  <2>1. CASE lines[next].id \in seen
    <3>1. PICK i \in Upto(Rows, next - 1) : lines[i].id = lines[next].id
      BY <2>1 DEF SInv, ReadSoFar
    <3>2. i \in Rows /\ i # next
      BY <1>1, <3>1 DEF Upto
    <3> QED
      BY <1>2, <3>1, <3>2 DEF WholeEvaluation
  <2>2. CASE lines[next].id \notin seen
    BY <1>2, <2>2 DEF WholeEvaluation, Belongs
  <2> QED
    BY <2>1, <2>2
<1> QED
  BY <1>1, <1>3, Refusing

(* A row that belongs is counted once, in each of the sums it is part of. *)
LEMMA StaysWithin ==
  ASSUME NEW k \in Nat, NEW n \in 0 .. k, NEW b \in {0, 1}, NEW a \in {0, 1}, a <= b
  PROVE  n + a \in 0 .. k + b
  OBVIOUS

LEMMA RowTaken == SInv /\ ReadRow /\ Belongs(lines[next]) /\ Readable(lines[next]) => SInv'
<1> SUFFICES ASSUME SInv, ReadRow, Belongs(lines[next]), Readable(lines[next]) PROVE SInv'
  OBVIOUS
<1> DEFINE row == lines[next]
<1>1. /\ lines \in Seq(Line) /\ next \in 1 .. Len(lines) /\ status = "reading"
      /\ row.kind = "row" /\ lines' = lines /\ profile' = profile /\ status' = status
      /\ next' = next + 1 /\ seen' = seen \cup {row.id} /\ count' = count + 1
      /\ verified' = verified + One(row.verified)
      /\ hits1' = hits1 + One(Hit1(row)) /\ hits5' = hits5 + One(Hit5(row))
      /\ verified1' = verified1 + One(row.verified /\ Hit1(row))
      /\ verified5' = verified5 + One(row.verified /\ Hit5(row))
  BY DEF ReadRow, AtLine, SInv, ScanTypeOK, VerifiedHit
<1>2. row \in RowLine
  BY <1>1, LineKinds
<1>3. /\ row.id \in Expected /\ row.id \notin seen /\ row.mine
      /\ row.verified \in BOOLEAN /\ Hit1(row) \in BOOLEAN /\ Hit5(row) \in BOOLEAN
  BY <1>2 DEF Belongs, RowLine, Hit1, Hit5
<1>4. \A b \in BOOLEAN : One(b) \in {0, 1}
  BY DEF One
<1>5. /\ count \in Nat /\ verified \in Nat /\ seen \subseteq Expected
      /\ hits1 \in 0 .. count /\ hits5 \in 0 .. count
      /\ verified1 \in 0 .. verified /\ verified5 \in 0 .. verified
  BY DEF SInv, ScanTypeOK
<1>6. ScanTypeOK'
  <2>1. hits1' \in 0 .. count' /\ hits5' \in 0 .. count'
    <3>1. One(Hit1(row)) \in {0, 1} /\ One(Hit5(row)) \in {0, 1}
      BY <1>3, <1>4
    <3>2. One(Hit1(row)) <= 1 /\ One(Hit5(row)) <= 1
      BY <3>1
    <3>3. hits1 + One(Hit1(row)) \in 0 .. count + 1 /\ hits5 + One(Hit5(row)) \in 0 .. count + 1
      BY <1>5, <3>1, <3>2, StaysWithin
    <3> QED
      BY <1>1, <3>3
  <2>2. verified1' \in 0 .. verified' /\ verified5' \in 0 .. verified'
    <3>1. \A h \in BOOLEAN : One(row.verified /\ h) <= One(row.verified)
      BY <1>3 DEF One
    <3>2. One(row.verified /\ Hit1(row)) \in {0, 1} /\ One(row.verified /\ Hit5(row)) \in {0, 1}
          /\ One(row.verified) \in {0, 1}
      BY <1>3, <1>4
    <3>3. /\ verified1 + One(row.verified /\ Hit1(row)) \in 0 .. verified + One(row.verified)
          /\ verified5 + One(row.verified /\ Hit5(row)) \in 0 .. verified + One(row.verified)
      <4> HIDE DEF row
      <4>1. /\ One(row.verified /\ Hit1(row)) <= One(row.verified)
            /\ One(row.verified /\ Hit5(row)) <= One(row.verified)
        BY <1>3, <3>1
      <4> QED
        BY <1>5, <3>2, <4>1, StaysWithin
    <3> QED
      BY <1>1, <3>3
  <2>3. count' \in Nat /\ verified' \in Nat /\ next' \in 1 .. Len(lines') + 1
    <3>1. One(row.verified) \in {0, 1}
      BY <1>3, <1>4
    <3>2. count' \in Nat /\ verified' \in Nat
      BY <1>1, <1>5, <3>1
    <3>3. lines' = lines /\ Len(lines) \in Nat /\ next \in 1 .. Len(lines) /\ next' = next + 1
      BY <1>1
    <3> QED
      BY <3>2, <3>3
  <2> QED
    BY <1>1, <1>3, <1>5, <2>1, <2>2, <2>3 DEF SInv, ScanTypeOK
<1>7. /\ next \in Rows
      /\ next \in Marked <=> row.verified
      /\ next \in Top1(Rows) <=> Hit1(row)
      /\ next \in Top5(Rows) <=> Hit5(row)
      /\ next \in Top1(Marked) <=> row.verified /\ Hit1(row)
      /\ next \in Top5(Marked) <=> row.verified /\ Hit5(row)
  BY <1>1 DEF Rows, Marked, Top1, Top5
<1>8. Upto(Rows, next' - 1) = Upto(Rows, next - 1) \cup {next}
  BY <1>1, <1>7 DEF Upto
<1>9. ReadSoFar'
  <2>1. \A i \in 1 .. next' - 1 : lines'[i].kind = "header" => lines'[i].right
    BY <1>1 DEF SInv, ReadSoFar
  <2>2. \A i \in Upto(Rows, next' - 1) :
          lines'[i].id \in seen' /\ lines'[i].mine /\ lines'[i].cells # "text"
    BY <1>1, <1>3, <1>8 DEF SInv, ReadSoFar, Readable
  <2>3. \A q \in seen' : \E i \in Upto(Rows, next' - 1) : lines'[i].id = q
    BY <1>1, <1>8 DEF SInv, ReadSoFar
  <2>4. \A i, k \in Upto(Rows, next' - 1) : lines'[i].id = lines'[k].id => i = k
    BY <1>1, <1>3, <1>8 DEF SInv, ReadSoFar
  <2>5. Rows' = Rows
    BY <1>1, SameOutput
  <2> QED
    BY <2>1, <2>2, <2>3, <2>4, <2>5 DEF ReadSoFar, Readable
<1>10. Counted'
  <2>1. next \in Nat \ {0} /\ next' - 1 = next
    BY <1>1
  <2>2. \A T : Cardinality(Upto(T, next)) = Cardinality(Upto(T, next - 1)) + One(next \in T)
    BY <2>1, CountOne
  <2>3. One(next \in Rows) = 1
    BY <1>7 DEF One
  <2>4. One(next \in Marked) = One(row.verified)
    BY <1>7 DEF One
  <2>5. One(next \in Top1(Rows)) = One(Hit1(row)) /\ One(next \in Top5(Rows)) = One(Hit5(row))
    BY <1>7 DEF One
  <2>6. /\ One(next \in Top1(Marked)) = One(row.verified /\ Hit1(row))
        /\ One(next \in Top5(Marked)) = One(row.verified /\ Hit5(row))
    BY <1>7 DEF One
  <2>7. /\ count' = Cardinality(Upto(Rows, next' - 1))
        /\ verified' = Cardinality(Upto(Marked, next' - 1))
    BY <1>1, <2>1, <2>2, <2>3, <2>4 DEF SInv, Counted
  <2>8. /\ hits1' = Cardinality(Upto(Top1(Rows), next' - 1))
        /\ hits5' = Cardinality(Upto(Top5(Rows), next' - 1))
    BY <1>1, <2>1, <2>2, <2>5 DEF SInv, Counted
  <2>9. /\ verified1' = Cardinality(Upto(Top1(Marked), next' - 1))
        /\ verified5' = Cardinality(Upto(Top5(Marked), next' - 1))
    BY <1>1, <2>1, <2>2, <2>6 DEF SInv, Counted
  <2> QED
    BY <1>1, <2>7, <2>8, <2>9, SameOutput DEF Counted
<1>11. Judged'
  BY <1>1 DEF Judged
<1> QED
  BY <1>6, <1>9, <1>10, <1>11 DEF SInv

(* At the end of the output: what was read is the whole of it. *)
LEMMA AtTheEnd ==
  ASSUME SInv, next = Len(lines) + 1
  PROVE  /\ Upto(Rows, next - 1) = Rows
         /\ count = Cardinality(Rows) /\ verified = Cardinality(Marked)
         /\ hits1 = Cardinality(Top1(Rows)) /\ hits5 = Cardinality(Top5(Rows))
         /\ verified1 = Cardinality(Top1(Marked)) /\ verified5 = Cardinality(Top5(Marked))
<1>1. lines \in Seq(Line) /\ next - 1 = Len(lines)
  BY DEF SInv, ScanTypeOK
<1>2. /\ Rows \subseteq 1 .. Len(lines) /\ Marked \subseteq 1 .. Len(lines)
      /\ Top1(Rows) \subseteq 1 .. Len(lines) /\ Top5(Rows) \subseteq 1 .. Len(lines)
      /\ Top1(Marked) \subseteq 1 .. Len(lines) /\ Top5(Marked) \subseteq 1 .. Len(lines)
  BY DEF Rows, Marked, Top1, Top5
<1> QED
  BY <1>1, <1>2, WholeIsUpto DEF SInv, Counted

LEMMA PublishStep == SInv /\ Publish => SInv'
<1> SUFFICES ASSUME SInv, Publish PROVE SInv'
  OBVIOUS
<1> DEFINE Right(valid) == Covered /\ profile /\ count = ExpectedCount /\ valid
<1>1. PICK valid \in Verdicts : status' = IF Right(valid) THEN "published" ELSE "refused"
  BY DEF Publish
<1>2. /\ next = Len(lines) + 1 /\ lines' = lines /\ profile' = profile /\ next' = next
      /\ seen' = seen /\ count' = count /\ verified' = verified /\ hits1' = hits1
      /\ hits5' = hits5 /\ verified1' = verified1 /\ verified5' = verified5
  BY DEF Publish, sums
<1>3. CASE Right(valid)
  <2>1. Wild \/ hits1 <= hits5
    BY <1>3 DEF Verdicts
  <2>2. Judged'
    BY <1>1, <1>2, <1>3, <2>1, SameOutput DEF Judged, Covered
  <2>3. ScanTypeOK' /\ ReadSoFar' /\ Counted'
    BY <1>1, <1>2, SameOutput DEF SInv, ScanTypeOK, ReadSoFar, Counted, Readable
  <2> QED
    BY <2>2, <2>3 DEF SInv
<1>4. CASE ~ Right(valid)
  <2>1. Refuse
    BY <1>1, <1>2, <1>4 DEF Refuse, sums
  <2>2. ASSUME WholeEvaluation, ~ Wild, Ranked PROVE FALSE
    <3>1. seen = Expected
      <4>1. \A q \in Expected : q \in seen
        BY <1>2, <2>2, AtTheEnd DEF SInv, ReadSoFar, WholeEvaluation
      <4> QED
        BY <4>1 DEF SInv, ScanTypeOK
    <3>2. verified = VerifiedCount /\ count = ExpectedCount /\ profile
      BY <1>2, <2>2, AtTheEnd DEF WholeEvaluation
    <3>3. valid
      BY <1>2, <2>2, AtTheEnd DEF Verdicts, Ranked
    <3> QED
      BY <1>4, <3>1, <3>2, <3>3 DEF Covered
  <2> QED
    BY <2>1, <2>2, Refusing
<1> QED
  BY <1>3, <1>4

THEOREM SInvHolds == ScanSpec => []SInv
<1>1. SInv /\ [ScanNext]_scan => SInv'
  <2> SUFFICES ASSUME SInv, [ScanNext]_scan PROVE SInv'
    OBVIOUS
  <2>1. CASE UNCHANGED scan
    <3>1. /\ lines' = lines /\ profile' = profile /\ next' = next /\ seen' = seen
          /\ count' = count /\ verified' = verified /\ hits1' = hits1 /\ hits5' = hits5
          /\ verified1' = verified1 /\ verified5' = verified5 /\ status' = status
      BY <2>1 DEF scan, sums
    <3>2. ScanTypeOK' /\ ReadSoFar' /\ Counted'
      BY <3>1, SameOutput DEF SInv, ScanTypeOK, ReadSoFar, Counted, Readable
    <3>3. Judged'
      BY <3>1, SameOutput DEF SInv, Judged, Covered
    <3> QED
      BY <3>2, <3>3 DEF SInv
  <2>2. CASE ReadRow
    BY <2>2, RowRefused, RowTaken
  <2> QED
    BY <2>1, <2>2, HeaderStep, PublishStep DEF ScanNext, ScanOver
<1> QED
  BY <1>1, ScanStarts, PTL DEF ScanSpec

(* Whatever the runner wrote, and however its lines are spread over batches, a result is     *)
(* published only for a whole evaluation, and a whole evaluation of proper hits always       *)
(* (execute's loop, its coverage check and validate_result).                                 *)
THEOREM PublicationIsExact == ScanSpec => []PublishedExactlyIfRight
<1>1. SInv => PublishedExactlyIfRight
  <2> SUFFICES ASSUME SInv, status = "published"
               PROVE  WholeEvaluation /\ (Wild \/ Ranked)
    BY DEF PublishedExactlyIfRight, SInv, Judged
  <2>1. /\ next = Len(lines) + 1 /\ seen = Expected /\ verified = VerifiedCount /\ profile
        /\ count = ExpectedCount /\ (Wild \/ hits1 <= hits5)
        /\ lines \in Seq(Line) /\ next - 1 = Len(lines)
    BY DEF SInv, Judged, Covered, ScanTypeOK
  <2>2. WholeEvaluation
    BY <2>1, AtTheEnd DEF SInv, ReadSoFar, WholeEvaluation
  <2>3. Wild \/ Ranked
    BY <2>1, AtTheEnd DEF Ranked
  <2> QED
    BY <2>2, <2>3
<1> QED
  BY <1>1, SInvHolds, PTL

(* The sums a result is made of count every hit of every row once, and the subset's sums     *)
(* exactly the hits of the rows marked verified.                                              *)
THEOREM PublishedSumsAreTheRows == ScanSpec => []SumsAreOfTheRows
<1>1. SInv => SumsAreOfTheRows
  <2> SUFFICES ASSUME SInv, status = "published" PROVE SumsAreOfTheRows
    BY DEF SumsAreOfTheRows
  <2>1. next = Len(lines) + 1
    BY DEF SInv, Judged
  <2> QED
    BY <2>1, AtTheEnd DEF SumsAreOfTheRows
<1> QED
  BY <1>1, SInvHolds, PTL
=============================================================================
