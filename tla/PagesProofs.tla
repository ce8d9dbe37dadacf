--------------------------- MODULE PagesProofs -----------------------------
(* Theorems about the pages of the application and the endpoint behind one  *)
(* of them: the answers with results (ResultsView) and the evaluation page  *)
(* (JobPage), the live pages (LiveWorkspace), the dashboard (Dashboard),    *)
(* and the application that shows one of them at a time (MCPages); for any  *)
(* jobs, configurations, readers, documents, strategies and tables.         *)
EXTENDS MCPages, FiniteSetTheorems, TLAPS

-----------------------------------------------------------------------------
(* The ledger *)

Outcome == {"none", "waiting", "trying"} \cup Decided
Verdict == {"ABSENT", "PENDING", "RUNNING", "COMPLETED", "FAILED", "CANCELLED"}

(* A verdict that is final is borne out by the outcomes of the job's tasks. *)
VerdictHolds(j) ==
  /\ (verdict[j] = "ABSENT") <=> (Members(j, outcome) = {})
  /\ verdict[j] = "COMPLETED" => \A t \in Members(j, outcome) : outcome[t] = "done"
  /\ Final(verdict[j]) => \A t \in Members(j, outcome) : outcome[t] \in Decided

LedgerInv ==
  /\ outcome \in [LedgerTask -> Outcome]
  /\ tries \in [LedgerTask -> 0..MaxAttempts]
  /\ verdict \in [Job -> Verdict]
  /\ \A j \in Job : VerdictHolds(j)

(* What every step of the ledger leaves as it is: the tasks of an admitted  *)
(* job, decided outcomes and final verdicts.                                *)
Forward ==
  \A j \in Job : verdict[j] # "ABSENT" =>
    /\ verdict'[j] # "ABSENT"
    /\ Final(verdict[j]) => verdict'[j] = verdict[j]
    /\ Members(j, outcome') = Members(j, outcome)
    /\ \A t \in Members(j, outcome) : outcome[t] \in Decided => outcome'[t] = outcome[t]

LEMMA MemberJob ==
  ASSUME NEW j \in Job, NEW o, NEW t \in Members(j, o)
  PROVE  t \in LedgerTask /\ t[1] = j /\ o[t] # "none"
BY DEF Members

LEMMA TaskJob == ASSUME NEW t \in LedgerTask PROVE t[1] \in Job /\ t[2] \in Config
BY DEF LedgerTask

(* The verdict computed from outcomes is borne out by them. *)
LEMMA VerdictOnHolds ==
  ASSUME NEW j \in Job, NEW o, NEW n, NEW v, v = VerdictOn(j, o, n)
  PROVE  /\ v \in Verdict \ {"ABSENT", "CANCELLED"}
         /\ v = "COMPLETED" => \A t \in Members(j, o) : o[t] = "done"
         /\ Final(v) => \A t \in Members(j, o) : o[t] \in Decided
BY DEF VerdictOn, Verdict, Final, Decided

(* Recording outcomes for tasks that were waiting or tried. *)
LEMMA RecordForward ==
  ASSUME LedgerInv, NEW S \in SUBSET LedgerTask, NEW o \in [LedgerTask -> Outcome],
         NEW n \in [LedgerTask -> 0..MaxAttempts], Record(S, o, n),
         \A t \in S : outcome[t] \in {"waiting", "trying"} /\ o[t] # "none",
         \A t \in LedgerTask \ S : o[t] = outcome[t]
  PROVE  LedgerInv' /\ Forward
<1>1. outcome' = o /\ tries' = n
  BY DEF Record
<1>2. \A j \in Job : Members(j, o) = Members(j, outcome)
  BY DEF Members
<1>3. ASSUME NEW t \in S PROVE ~ Final(verdict[t[1]]) /\ verdict[t[1]] # "ABSENT"
  <2>1. t[1] \in Job /\ t \in Members(t[1], outcome) /\ outcome[t] \notin Decided
    BY <1>3, TaskJob DEF Members, Decided
  <2> QED BY <2>1 DEF LedgerInv, VerdictHolds
<1>4. ASSUME NEW j \in Job, ~ \E t \in S : t[1] = j
      PROVE  verdict'[j] = verdict[j] /\ \A t \in Members(j, outcome) : o[t] = outcome[t]
  BY <1>4 DEF Record, Members
<1>5. ASSUME NEW j \in Job, \E t \in S : t[1] = j
      PROVE  verdict'[j] = VerdictOn(j, o, n) /\ ~ Final(verdict[j]) /\ verdict[j] # "ABSENT"
  <2>1. ~ Final(verdict[j]) /\ verdict[j] # "ABSENT"
    BY <1>3, <1>5
  <2> QED BY <1>5, <2>1 DEF Record, Final
<1>6. Forward
  <2> SUFFICES ASSUME NEW j \in Job, verdict[j] # "ABSENT"
               PROVE  /\ verdict'[j] # "ABSENT"
                      /\ Final(verdict[j]) => verdict'[j] = verdict[j]
                      /\ Members(j, outcome') = Members(j, outcome)
                      /\ \A t \in Members(j, outcome) :
                           outcome[t] \in Decided => outcome'[t] = outcome[t]
    BY DEF Forward
  <2>1. \A t \in Members(j, outcome) : outcome[t] \in Decided => o[t] = outcome[t]
    BY MemberJob DEF Decided
  <2>2. verdict'[j] # "ABSENT" /\ (Final(verdict[j]) => verdict'[j] = verdict[j])
    BY <1>4, <1>5, VerdictOnHolds
  <2> QED BY <1>1, <1>2, <2>1, <2>2
<1>7. verdict' \in [Job -> Verdict]
  <2>1. \A j \in Job : verdict'[j] \in Verdict
    BY <1>4, <1>5, VerdictOnHolds DEF LedgerInv
  <2>2. DOMAIN verdict' = Job /\ verdict' = [j \in Job |-> verdict'[j]]
    BY DEF Record
  <2> QED BY <2>1, <2>2
<1>8. ASSUME NEW j \in Job PROVE VerdictHolds(j)'
  <2>1. VerdictHolds(j)
    BY DEF LedgerInv
  <2>2. CASE \E t \in S : t[1] = j
    <3>1. Members(j, outcome) # {} /\ verdict'[j] # "ABSENT"
      BY <1>5, <2>1, <2>2, VerdictOnHolds DEF VerdictHolds
    <3> QED BY <1>1, <1>2, <1>5, <2>2, <3>1, VerdictOnHolds DEF VerdictHolds
  <2>3. CASE ~ \E t \in S : t[1] = j
    BY <1>1, <1>2, <1>4, <2>1, <2>3 DEF VerdictHolds
  <2> QED BY <2>2, <2>3
<1> QED BY <1>1, <1>6, <1>7, <1>8 DEF LedgerInv

(* A withdrawal decides what was still open and nothing else. *)
LEMMA WithdrawForward ==
  ASSUME LedgerInv, NEW j \in Job, Withdraw(j)
  PROVE  LedgerInv' /\ Forward
<1>1. /\ outcome' = [t \in LedgerTask |-> IF t[1] = j /\ outcome[t] \in {"waiting", "trying"}
                                         THEN "cancelled" ELSE outcome[t]]
      /\ verdict' = [verdict EXCEPT ![j] = "CANCELLED"] /\ tries' = tries
      /\ verdict[j] \in {"PENDING", "RUNNING"}
  BY DEF Withdraw
<1>2. \A t \in LedgerTask : outcome'[t] = outcome[t] \/ (t[1] = j /\ outcome'[t] = "cancelled"
                                                       /\ outcome[t] \in {"waiting", "trying"})
  BY <1>1
<1>3. \A i \in Job : Members(i, outcome') = Members(i, outcome)
  BY <1>2 DEF Members
<1>4. outcome' \in [LedgerTask -> Outcome]
  BY <1>1 DEF LedgerInv, Outcome, Decided
<1>5. \A t \in LedgerTask : outcome[t] \in Decided => outcome'[t] = outcome[t]
  BY <1>2 DEF Decided
<1>6. \A t \in Members(j, outcome) : outcome'[t] \in Decided
  BY <1>1, MemberJob DEF LedgerInv, Outcome, Decided
<1>7. verdict' \in [Job -> Verdict] /\ verdict'[j] = "CANCELLED"
      /\ \A i \in Job : i # j => verdict'[i] = verdict[i]
  BY <1>1 DEF LedgerInv, Verdict
<1>8. Forward
  BY <1>1, <1>3, <1>5, <1>7, MemberJob DEF Forward, Final
<1>9. ASSUME NEW i \in Job PROVE VerdictHolds(i)'
  <2>1. VerdictHolds(i)
    BY DEF LedgerInv
  <2>2. CASE i = j
    BY <1>1, <1>3, <1>6, <1>7, <2>1, <2>2 DEF VerdictHolds
  <2>3. CASE i # j
    <3>1. \A t \in Members(i, outcome) : outcome'[t] = outcome[t]
      BY <1>2, <2>3, MemberJob
    <3> QED BY <1>3, <1>7, <2>1, <2>3, <3>1 DEF VerdictHolds
  <2> QED BY <2>2, <2>3
<1> QED BY <1>1, <1>4, <1>7, <1>8, <1>9 DEF LedgerInv

(* An admission touches no other job. *)
LEMMA AdmitForward ==
  ASSUME LedgerInv, NEW j \in Job, NEW configs \in SUBSET Config, Admit(j, configs)
  PROVE  LedgerInv' /\ Forward
<1>1. /\ outcome' = [t \in LedgerTask |-> IF t[1] = j /\ t[2] \in configs
                                         THEN "waiting" ELSE outcome[t]]
      /\ verdict' = [verdict EXCEPT ![j] = "PENDING"] /\ tries' = tries
      /\ verdict[j] = "ABSENT" /\ configs # {}
  BY DEF Admit
<1>2. outcome' \in [LedgerTask -> Outcome]
  BY <1>1 DEF LedgerInv, Outcome
<1>3. verdict' \in [Job -> Verdict] /\ verdict'[j] = "PENDING"
      /\ \A i \in Job : i # j => verdict'[i] = verdict[i]
  BY <1>1 DEF LedgerInv, Verdict
<1>4. ASSUME NEW i \in Job, i # j
      PROVE  /\ Members(i, outcome') = Members(i, outcome)
             /\ \A t \in Members(i, outcome) : outcome'[t] = outcome[t]
  BY <1>1, <1>4 DEF Members
<1>5. Members(j, outcome') # {}
  <2>1. PICK c \in Config : c \in configs
    BY <1>1
  <2>2. <<j, c>> \in LedgerTask
    BY <2>1 DEF LedgerTask
  <2>3. <<j, c>> \in Members(j, outcome')
    BY <1>1, <2>1, <2>2 DEF Members
  <2> QED BY <2>3
<1>6. Forward
  BY <1>1, <1>3, <1>4 DEF Forward
<1>7. ASSUME NEW i \in Job PROVE VerdictHolds(i)'
  <2>1. CASE i = j
    BY <1>3, <1>5, <2>1 DEF VerdictHolds, Final
  <2>2. CASE i # j
    BY <1>3, <1>4, <2>2 DEF LedgerInv, VerdictHolds
  <2> QED BY <2>1, <2>2
<1> QED BY <1>1, <1>2, <1>3, <1>6, <1>7 DEF LedgerInv

(* Every step of the ledger keeps its invariant and only goes forward. *)
LEMMA LedgerForward ==
  ASSUME LedgerInv, LedgerNext \/ UNCHANGED ledger
  PROVE  LedgerInv' /\ Forward
<1>1. CASE UNCHANGED ledger
  BY <1>1 DEF ledger, LedgerInv, VerdictHolds, Forward
<1>2. ASSUME NEW j \in Job, NEW configs \in SUBSET Config, Admit(j, configs)
      PROVE  LedgerInv' /\ Forward
  BY <1>2, AdmitForward
<1>3. ASSUME NEW j \in Job, Withdraw(j) PROVE LedgerInv' /\ Forward
  BY <1>3, WithdrawForward
<1>4. ASSUME NEW t \in LedgerTask, Try(t) PROVE LedgerInv' /\ Forward
  <2>1. Record({t}, [outcome EXCEPT ![t] = "trying"], [tries EXCEPT ![t] = @ + 1])
    BY <1>4 DEF Try
  <2>2. [outcome EXCEPT ![t] = "trying"] \in [LedgerTask -> Outcome]
    BY DEF LedgerInv, Outcome
  <2>3. [tries EXCEPT ![t] = @ + 1] \in [LedgerTask -> 0..MaxAttempts]
    <3>1. tries[t] + 1 \in 0..MaxAttempts
      BY <1>4, LedgerAssumption DEF Try, LedgerInv
    <3> QED BY <3>1 DEF LedgerInv
  <2>4. {t} \in SUBSET LedgerTask /\ outcome[t] = "waiting"
    BY <1>4 DEF Try
  <2>5. \A u \in {t} : outcome[u] \in {"waiting", "trying"}
                      /\ [outcome EXCEPT ![t] = "trying"][u] # "none"
    BY <2>4 DEF LedgerInv
  <2>6. \A u \in LedgerTask \ {t} : [outcome EXCEPT ![t] = "trying"][u] = outcome[u]
    BY DEF LedgerInv
  <2> QED BY <2>1, <2>2, <2>3, <2>4, <2>5, <2>6, RecordForward
<1>5. ASSUME NEW t \in LedgerTask, Succeed(t) PROVE LedgerInv' /\ Forward
  <2>1. Record({t}, [outcome EXCEPT ![t] = "done"], tries)
    BY <1>5 DEF Succeed
  <2>2. [outcome EXCEPT ![t] = "done"] \in [LedgerTask -> Outcome]
    BY DEF LedgerInv, Outcome, Decided
  <2>3. {t} \in SUBSET LedgerTask /\ outcome[t] = "trying"
    BY <1>5 DEF Succeed
  <2>4. \A u \in {t} : outcome[u] \in {"waiting", "trying"}
                      /\ [outcome EXCEPT ![t] = "done"][u] # "none"
    BY <2>3 DEF LedgerInv
  <2>5. \A u \in LedgerTask \ {t} : [outcome EXCEPT ![t] = "done"][u] = outcome[u]
    BY DEF LedgerInv
  <2>6. tries \in [LedgerTask -> 0..MaxAttempts]
    BY DEF LedgerInv
  <2> QED BY <2>1, <2>2, <2>3, <2>4, <2>5, <2>6, RecordForward
<1>6. ASSUME NEW S \in SUBSET LedgerTask, Fail(S) PROVE LedgerInv' /\ Forward
  <2> DEFINE o == [t \in LedgerTask |-> IF t \notin S THEN outcome[t]
                                        ELSE IF tries[t] < MaxAttempts THEN "waiting"
                                        ELSE "failed"]
  <2>1. Record(S, o, tries) /\ \A t \in S : outcome[t] = "trying"
    BY <1>6 DEF Fail
  <2>2. o \in [LedgerTask -> Outcome]
    BY DEF LedgerInv, Outcome, Decided
  <2>3. (\A t \in S : o[t] # "none") /\ (\A t \in LedgerTask \ S : o[t] = outcome[t])
    OBVIOUS
  <2> HIDE DEF o
  <2> QED BY <2>1, <2>2, <2>3, RecordForward DEF LedgerInv
<1> QED BY <1>1, <1>2, <1>3, <1>4, <1>5, <1>6 DEF LedgerNext

LEMMA LedgerStarts == LedgerInit => LedgerInv
BY LedgerAssumption DEF LedgerInit, LedgerInv, VerdictHolds, Members, Outcome, Verdict, Final

-----------------------------------------------------------------------------
(* The readers of the results endpoint *)

(* A state that was read, of a job that exists: a final one is its state for *)
(* good.                                                                     *)
Known(j, state) ==
  /\ j \in Job /\ verdict[j] # "ABSENT" /\ state # "ABSENT"
  /\ Final(state) => verdict[j] = state

(* What an answer is worth at any later time. *)
AnswerHolds(j, answer) ==
  /\ Known(j, answer.state)
  /\ answer.complete => answer.state = "COMPLETED"
  /\ answer.results \subseteq Done(j)
  /\ Final(answer.state) => answer.results = Done(j)

ReaderInv(r) ==
  /\ view[r].phase \in {"idle", "job"}
  /\ view[r].job \in Job \cup {"none"}
  /\ view[r].phase = "job" => Known(view[r].job, view[r].state)
  /\ view[r].answer = NoAnswer \/ AnswerHolds(view[r].job, view[r].answer)

Views == [Reader -> [phase : {"idle", "job"}, job : Job \cup {"none"}, state : Verdict,
                     answer : [state : Verdict, complete : BOOLEAN, results : SUBSET LedgerTask]]]

ViewInv == LedgerInv /\ view \in Views /\ \A r \in Reader : ReaderInv(r)

(* What was read stays worth what it was while the ledger goes forward. *)
LEMMA DoneForward ==
  ASSUME LedgerInv, Forward, NEW j \in Job, verdict[j] # "ABSENT"
  PROVE  /\ Members(j, outcome') = Members(j, outcome)
         /\ Done(j) \subseteq Done(j)'
         /\ Final(verdict[j]) => Done(j)' = Done(j)
<1>1. /\ Members(j, outcome') = Members(j, outcome)
      /\ \A t \in Members(j, outcome) : outcome[t] \in Decided => outcome'[t] = outcome[t]
  BY DEF Forward
<1>2. Done(j) \subseteq Done(j)'
  BY <1>1 DEF Done, Decided
<1>3. ASSUME Final(verdict[j]) PROVE Done(j)' = Done(j)
  <2>1. \A t \in Members(j, outcome) : outcome[t] \in Decided
    BY <1>3 DEF LedgerInv, VerdictHolds
  <2> QED BY <1>1, <2>1 DEF Done
<1> QED BY <1>1, <1>2, <1>3

LEMMA KnownForward ==
  ASSUME LedgerInv, Forward, NEW j, NEW state, Known(j, state) PROVE Known(j, state)'
BY DEF Known, Forward

LEMMA AnswerForward ==
  ASSUME LedgerInv, Forward, NEW j, NEW answer, AnswerHolds(j, answer)
  PROVE  AnswerHolds(j, answer)'
<1>1. Known(j, answer.state) /\ Known(j, answer.state)'
  BY KnownForward DEF AnswerHolds
<1>2. Done(j) \subseteq Done(j)' /\ (Final(verdict[j]) => Done(j)' = Done(j))
  BY <1>1, DoneForward DEF Known
<1>3. Final(answer.state) => answer.results = Done(j)'
  BY <1>1, <1>2 DEF AnswerHolds, Known
<1> QED BY <1>1, <1>2, <1>3 DEF AnswerHolds

LEMMA ViewStarts == ViewInit => ViewInv
<1> SUFFICES ASSUME ViewInit PROVE ViewInv
  OBVIOUS
<1>1. LedgerInv
  BY LedgerStarts DEF ViewInit
<1>2. view \in Views
  BY DEF ViewInit, Views, IdleReader, NoAnswer, Verdict
<1>3. ASSUME NEW r \in Reader PROVE ReaderInv(r)
  BY DEF ViewInit, ReaderInv, IdleReader
<1> QED BY <1>1, <1>2, <1>3 DEF ViewInv

(* Readers that rest keep what they have while the ledger goes forward. *)
LEMMA ViewRests ==
  ASSUME ViewInv, LedgerInv', Forward, UNCHANGED view PROVE ViewInv'
<1>1. ASSUME NEW r \in Reader PROVE ReaderInv(r)'
  BY KnownForward, AnswerForward DEF ViewInv, ReaderInv
<1> QED BY <1>1 DEF ViewInv

LEMMA ReadKeepsViews ==
  ASSUME ViewInv, NEW r \in Reader, ReadTasks(r) \/ \E j \in Job : ReadJob(r, j)
  PROVE  ViewInv'
<1>1. UNCHANGED ledger
  BY DEF ReadTasks, ReadJob
<1>2. LedgerInv'
  BY <1>1 DEF ViewInv, ledger, LedgerInv, VerdictHolds
<1>3. /\ \A j, state : Known(j, state)' <=> Known(j, state)
      /\ \A j, answer : AnswerHolds(j, answer)' <=> AnswerHolds(j, answer)
  BY <1>1 DEF ledger, Known, AnswerHolds, Done
<1>4. view[r] \in [phase : {"idle", "job"}, job : Job \cup {"none"}, state : Verdict,
                   answer : [state : Verdict, complete : BOOLEAN, results : SUBSET LedgerTask]]
  BY DEF ViewInv, Views
<1>5. ASSUME NEW j \in Job, ReadJob(r, j) PROVE ViewInv'
  <2>1. /\ view' = [view EXCEPT ![r] = [view[r] EXCEPT !.phase = "job", !.job = j, !.state = verdict[j]]]
        /\ verdict[j] # "ABSENT" /\ view[r].job \in {"none", j}
    BY <1>5 DEF ReadJob, ViewInv, Views
  <2> DEFINE new == [view[r] EXCEPT !.phase = "job", !.job = j, !.state = verdict[j]]
  <2>2. /\ new.phase = "job" /\ new.job = j /\ new.state = verdict[j]
        /\ new.answer = view[r].answer
    BY <1>4
  <2>3. view' \in Views
    <3>1. verdict[j] \in Verdict
      BY DEF ViewInv, LedgerInv
    <3> QED BY <1>4, <2>1, <3>1 DEF ViewInv, Views
  <2>4. view[r].answer = NoAnswer \/ AnswerHolds(j, view[r].answer)
    BY <2>1, ViewAssumption DEF ViewInv, ReaderInv, AnswerHolds, Known
  <2>5. Known(j, verdict[j])
    BY <2>1 DEF Known
  <2>6. view'[r] = new
    BY <2>1 DEF ViewInv, Views
  <2> HIDE DEF new
  <2>7. ReaderInv(r)'
    BY <1>3, <2>2, <2>4, <2>5, <2>6 DEF ReaderInv
  <2>8. ASSUME NEW s \in Reader, s # r PROVE ReaderInv(s)'
    <3>1. view'[s] = view[s]
      BY <2>1, <2>8 DEF ViewInv, Views
    <3> QED BY <1>3, <3>1 DEF ViewInv, ReaderInv
  <2> QED BY <1>2, <2>3, <2>7, <2>8 DEF ViewInv
<1>6. CASE ReadTasks(r)
  <2> DEFINE j == view[r].job
             state == view[r].state
             answer == [state |-> state, complete |-> state = "COMPLETED", results |-> Done(j)]
             new == [view[r] EXCEPT !.phase = "idle", !.answer = answer]
  <2>1. view[r].phase = "job" /\ view' = [view EXCEPT ![r] = new]
    BY <1>6 DEF ReadTasks, Answer, Done, ViewInv, Views
  <2>2. Known(j, state)
    BY <2>1 DEF ViewInv, ReaderInv
  <2>3. answer \in [state : Verdict, complete : BOOLEAN, results : SUBSET LedgerTask]
    BY <1>4 DEF Done, Members
  <2>4. AnswerHolds(j, answer)
    BY <2>2 DEF AnswerHolds
  <2> HIDE DEF answer
  <2>5. new.phase = "idle" /\ new.job = j /\ new.answer = answer
    BY <1>4
  <2>6. view' \in Views
    BY <1>4, <2>1, <2>3 DEF ViewInv, Views
  <2>7. view'[r] = new
    BY <2>1 DEF ViewInv, Views
  <2>8. j \in Job
    BY <2>2 DEF Known
  <2> HIDE DEF new, j
  <2>9. ReaderInv(r)'
    BY <1>3, <2>4, <2>5, <2>7, <2>8 DEF ReaderInv
  <2>10. ASSUME NEW s \in Reader, s # r PROVE ReaderInv(s)'
    <3>1. view'[s] = view[s]
      BY <2>1, <2>10 DEF ViewInv, Views
    <3> QED BY <1>3, <3>1 DEF ViewInv, ReaderInv
  <2> QED BY <1>2, <2>6, <2>9, <2>10 DEF ViewInv
<1> QED BY <1>5, <1>6

(* Whatever the ledger or a reader does. *)
LEMMA ViewSteps == ViewInv /\ [ViewNext]_<<ledger, view>> => ViewInv'
<1> SUFFICES ASSUME ViewInv, [ViewNext]_<<ledger, view>> PROVE ViewInv'
  OBVIOUS
<1>1. CASE (LedgerNext \/ UNCHANGED ledger) /\ UNCHANGED view
  BY <1>1, LedgerForward, ViewRests DEF ViewInv
<1>2. ASSUME NEW r \in Reader, ReadTasks(r) \/ \E j \in Job : ReadJob(r, j) PROVE ViewInv'
  BY <1>2, ReadKeepsViews
<1> QED BY <1>1, <1>2 DEF ViewNext

LEMMA AnswersFollow == ViewInv => AnswersAreFinal
<1> SUFFICES ASSUME ViewInv, NEW r \in Reader
             PROVE  LET answer == view[r].answer
                        members == Members(view[r].job, outcome)
                    IN /\ answer.complete => answer.results = members
                       /\ answer.state \in {"FAILED", "CANCELLED"} =>
                            answer.results = {t \in members : outcome[t] = "done"}
  BY DEF AnswersAreFinal
<1>1. CASE view[r].answer = NoAnswer
  BY <1>1 DEF NoAnswer
<1>2. CASE AnswerHolds(view[r].job, view[r].answer)
  <2>1. Known(view[r].job, view[r].answer.state)
    BY <1>2 DEF AnswerHolds
  <2>2. view[r].answer.complete => \A t \in Members(view[r].job, outcome) : outcome[t] = "done"
    BY <1>2, <2>1 DEF AnswerHolds, Known, Final, ViewInv, LedgerInv, VerdictHolds
  <2> QED BY <1>2, <2>2 DEF AnswerHolds, Final, Done
<1> QED BY <1>1, <1>2 DEF ViewInv, ReaderInv

(* The endpoint reads a job and its tasks in two transactions; all the same *)
(* an answer marked complete has every result, and a FAILED or CANCELLED    *)
(* one every result there will ever be.                                     *)
THEOREM AnswersStayFinal == ViewSpec => []AnswersAreFinal
BY ViewStarts, ViewSteps, AnswersFollow, PTL DEF ViewSpec

-----------------------------------------------------------------------------
(* The evaluation page *)

LEMMA TasksAreFinite ==
  ASSUME NEW j \in Job
  PROVE  /\ IsFiniteSet(Members(j, outcome)) /\ Cardinality(Members(j, outcome)) \in Nat
         /\ IsFiniteSet(Done(j)) /\ Cardinality(Done(j)) \in Nat
<1>1. IsFiniteSet({j} \X Config)
  BY PageAssumption, FS_Singleton, FS_Product
<1>2. Members(j, outcome) \subseteq {j} \X Config /\ Done(j) \subseteq Members(j, outcome)
  BY DEF Members, LedgerTask, Done
<1>3. IsFiniteSet(Members(j, outcome))
  BY <1>1, <1>2, FS_Subset
<1>4. IsFiniteSet(Done(j))
  BY <1>2, <1>3, FS_Subset
<1> QED BY <1>3, <1>4, FS_CardinalityType

(* The header that was read is never ahead of the tasks. *)
HeaderHolds(header) ==
  /\ Known(header.job, header.state)
  /\ header.completed <= Cardinality(Done(header.job))
  /\ Final(header.state) => header.completed = Cardinality(Done(header.job))
  /\ header.total = Cardinality(Members(header.job, outcome))

ShownHolds(picture) ==
  /\ Known(picture.job, picture.state)
  /\ picture.completed <= Cardinality(picture.results)
  /\ Final(picture.state) => /\ picture.completed = Cardinality(picture.results)
                             /\ picture.results = Done(picture.job)
  /\ ~ picture.partial => picture.state = "COMPLETED"
  /\ picture.rows = Members(picture.job, outcome)
  /\ picture.total = Cardinality(picture.rows)

Pages ==
  [at : {"list", "poll", "job", "shown", "cancel"}, pressed : BOOLEAN, listed : SUBSET Job,
   read : [job : Job \cup {NoJob}, state : Verdict, completed : Nat, total : Nat],
   shown : [job : Job \cup {NoJob}, state : Verdict, completed : Nat, total : Nat,
            partial : BOOLEAN, results : SUBSET LedgerTask, rows : SUBSET LedgerTask]]

PageHolds ==
  /\ \A j \in page.listed : verdict[j] # "ABSENT"
  /\ page.read.job # NoJob => verdict[page.read.job] # "ABSENT"
  /\ page.at \in {"poll", "job"} => page.read.job # NoJob
  /\ page.at = "cancel" => Shown
  /\ page.pressed => page.at \in {"poll", "job"}
  /\ page.at = "job" => HeaderHolds(page.read)
  /\ Shown => page.shown.job = page.read.job /\ ShownHolds(page.shown)

PageInv == ViewInv /\ page \in Pages /\ PageHolds

LEMMA HeaderForward ==
  ASSUME LedgerInv, Forward, NEW header, header.completed \in Nat, HeaderHolds(header)
  PROVE  HeaderHolds(header)'
<1>1. Known(header.job, header.state) /\ Known(header.job, header.state)' /\ header.job \in Job
  BY KnownForward DEF HeaderHolds, Known
<1>2. /\ Members(header.job, outcome') = Members(header.job, outcome)
      /\ Done(header.job) \subseteq Done(header.job)'
      /\ Final(verdict[header.job]) => Done(header.job)' = Done(header.job)
  BY <1>1, DoneForward DEF Known
<1>3. Done(header.job)' \subseteq Members(header.job, outcome')
  BY DEF Done
<1>4. /\ Cardinality(Done(header.job)) <= Cardinality(Done(header.job)')
      /\ Cardinality(Done(header.job)) \in Nat /\ Cardinality(Done(header.job)') \in Nat
  BY <1>1, <1>2, <1>3, TasksAreFinite, FS_Subset, FS_CardinalityType
<1>5. header.completed <= Cardinality(Done(header.job)')
  BY <1>4 DEF HeaderHolds
<1>6. Final(header.state) => header.completed = Cardinality(Done(header.job)')
  BY <1>1, <1>2 DEF HeaderHolds, Known
<1> QED BY <1>1, <1>2, <1>5, <1>6 DEF HeaderHolds

LEMMA ShownForward ==
  ASSUME LedgerInv, Forward, NEW picture, ShownHolds(picture) PROVE ShownHolds(picture)'
<1>1. Known(picture.job, picture.state) /\ Known(picture.job, picture.state)' /\ picture.job \in Job
  BY KnownForward DEF ShownHolds, Known
<1>2. /\ Members(picture.job, outcome') = Members(picture.job, outcome)
      /\ Final(verdict[picture.job]) => Done(picture.job)' = Done(picture.job)
  BY <1>1, DoneForward DEF Known
<1>3. Final(picture.state) => picture.results = Done(picture.job)'
  BY <1>1, <1>2 DEF ShownHolds, Known
<1> QED BY <1>1, <1>2, <1>3 DEF ShownHolds

(* A page that rests stays honest while ledger and readers go on. *)
LEMMA PageRests ==
  ASSUME PageInv, ViewInv', Forward, UNCHANGED page PROVE PageInv'
<1>1. LedgerInv /\ page \in Pages /\ PageHolds
  BY DEF PageInv, ViewInv
<1>2. \A j \in Job : verdict[j] # "ABSENT" => verdict'[j] # "ABSENT"
  BY DEF Forward
<1>3. page.listed \subseteq Job /\ page.read.job \in Job \cup {NoJob} /\ page.read.completed \in Nat
  BY <1>1 DEF Pages
<1>4. page.at = "job" => HeaderHolds(page.read)'
  BY <1>1, <1>3, HeaderForward DEF PageHolds
<1>5. Shown => ShownHolds(page.shown)'
  BY <1>1, ShownForward DEF PageHolds
<1> QED BY <1>1, <1>2, <1>3, <1>4, <1>5 DEF PageInv, PageHolds, Shown

LEMMA PageStarts == PageInit => PageInv
<1> SUFFICES ASSUME PageInit PROVE PageInv
  OBVIOUS
<1>1. ViewInv
  BY ViewStarts DEF PageInit
<1>2. page = [at |-> "list", pressed |-> FALSE, listed |-> {}, read |-> Blank, shown |-> Nothing]
  BY DEF PageInit
<1>3. page \in Pages
  BY <1>2 DEF Pages, Blank, Nothing, Verdict
<1> QED BY <1>1, <1>2, <1>3 DEF PageInv, PageHolds, Shown, Blank, Nothing

(* Steps of the page that ask the platform for nothing, or only read it. *)
LEMMA ReadingKeepsPage ==
  ASSUME PageInv, UNCHANGED <<ledger, view>>,
         \/ ListJobs \/ PollJob \/ PollTasks \/ ReadFails \/ PollAgain \/ PressCancel
         \/ \E j \in Job : Pick(j)
  PROVE  PageInv'
<1>1. LedgerInv /\ ViewInv /\ page \in Pages /\ PageHolds
  BY DEF PageInv, ViewInv
<1>2. /\ outcome' = outcome /\ verdict' = verdict /\ ViewInv'
      /\ \A j : Done(j)' = Done(j) /\ Members(j, outcome') = Members(j, outcome)
  BY <1>1 DEF ledger, ViewInv, LedgerInv, VerdictHolds, ReaderInv, Known, AnswerHolds, Done
<1>3. /\ \A header : HeaderHolds(header)' <=> HeaderHolds(header)
      /\ \A picture : ShownHolds(picture)' <=> ShownHolds(picture)
  BY <1>2 DEF HeaderHolds, ShownHolds, Known
<1>4. /\ page.listed \subseteq Job /\ page.read.job \in Job \cup {NoJob}
      /\ page.shown.job \in Job \cup {NoJob} /\ NoJob \notin Job
  BY <1>1, PageAssumption DEF Pages
<1>5. CASE ListJobs
  <2> DEFINE listed == {j \in Job : verdict[j] # "ABSENT"}
  <2>1. page' = [page EXCEPT !.listed = listed]
    BY <1>5 DEF ListJobs
  <2>2. page' \in Pages
    BY <1>1, <2>1 DEF Pages
  <2>3. /\ page'.at = page.at /\ page'.read = page.read /\ page'.shown = page.shown
        /\ page'.listed = listed /\ page'.pressed = page.pressed
    BY <1>1, <2>1 DEF Pages
  <2> QED BY <1>1, <1>2, <1>3, <2>2, <2>3 DEF PageInv, PageHolds, Shown
<1>6. ASSUME NEW j \in Job, Pick(j) PROVE PageInv'
  <2>1. page' = Opened(j) /\ j \in page.listed
    BY <1>6 DEF Pick
  <2>2. page' \in Pages
    BY <1>1, <2>1 DEF Pages, Opened, Blank, Nothing, Verdict
  <2>3. /\ page'.at = "poll" /\ page'.read.job = j /\ page'.shown = Nothing
        /\ page'.listed = page.listed /\ page'.pressed = page.pressed
    BY <1>1, <2>1 DEF Pages, Opened, Blank
  <2>4. page'.shown.job = NoJob
    BY <2>3 DEF Nothing
  <2>5. page'.read.job # NoJob /\ \A i \in page'.listed : verdict'[i] # "ABSENT"
    BY <1>1, <1>2, <1>4, <2>3 DEF PageHolds
  <2>6. verdict'[page'.read.job] # "ABSENT" /\ ~ Shown'
    BY <2>1, <2>3, <2>4, <2>5 DEF Shown
  <2> QED BY <1>2, <2>2, <2>3, <2>5, <2>6 DEF PageInv, PageHolds
<1>7. CASE PollJob
  <2> DEFINE j == page.read.job
             header == [job |-> j, state |-> verdict[j], completed |-> Completed(j),
                        total |-> Cardinality(Members(j, outcome))]
  <2>1. page.at = "poll" /\ page' = [page EXCEPT !.at = "job", !.read = header]
    BY <1>7 DEF PollJob
  <2>2. j \in Job /\ verdict[j] # "ABSENT" /\ verdict[j] \in Verdict
    BY <1>1, <1>4, <2>1 DEF PageHolds, LedgerInv
  <2>3. header \in [job : Job \cup {NoJob}, state : Verdict, completed : Nat, total : Nat]
    BY <2>2, TasksAreFinite DEF Completed
  <2>4. HeaderHolds(header)
    BY <2>2, TasksAreFinite DEF HeaderHolds, Known, Completed
  <2>5. header.job = j
    OBVIOUS
  <2> HIDE DEF header
  <2>6. page' \in Pages
    BY <1>1, <2>1, <2>3 DEF Pages
  <2>7. /\ page'.at = "job" /\ page'.read = header /\ page'.shown = page.shown
        /\ page'.listed = page.listed
    BY <1>1, <2>1 DEF Pages
  <2>8. HeaderHolds(page.read)'
    BY <1>3, <2>4, <2>7
  <2>9. Shown' => page'.shown.job = page'.read.job /\ ShownHolds(page.shown)'
    BY <1>1, <1>3, <2>5, <2>7 DEF PageHolds, Shown
  <2>10. /\ \A i \in page'.listed : verdict'[i] # "ABSENT"
         /\ verdict'[page'.read.job] # "ABSENT" /\ page'.read.job # NoJob
    BY <1>1, <1>2, <1>4, <2>2, <2>5, <2>7 DEF PageHolds
  <2> QED BY <1>2, <2>6, <2>7, <2>8, <2>9, <2>10 DEF PageInv, PageHolds
<1>8. CASE PollTasks
  <2> DEFINE job == page.read
             picture == [job |-> job.job, state |-> job.state,
                         completed |-> job.completed, total |-> job.total,
                         partial |-> Partial(job), results |-> Done(job.job),
                         rows |-> Members(job.job, outcome)]
  <2>1. /\ page.at = "job"
        /\ \E place \in {"shown", "cancel"} :
             page' = [page EXCEPT !.at = place, !.pressed = FALSE, !.shown = picture]
    BY <1>8 DEF PollTasks, Drawn
  <2>2. HeaderHolds(job) /\ job.job \in Job
    BY <1>1, <2>1 DEF PageHolds, HeaderHolds, Known
  <2>3. picture \in [job : Job \cup {NoJob}, state : Verdict, completed : Nat, total : Nat,
                   partial : BOOLEAN, results : SUBSET LedgerTask, rows : SUBSET LedgerTask]
    BY <1>1 DEF Pages, Partial, Done, Members
  <2>4. ShownHolds(picture)
    BY <2>2 DEF ShownHolds, HeaderHolds, Known, Partial
  <2>5. picture.job = job.job
    OBVIOUS
  <2> HIDE DEF picture
  <2>6. page' \in Pages
    BY <1>1, <2>1, <2>3 DEF Pages
  <2>7. /\ page'.at \in {"shown", "cancel"} /\ page'.read = page.read /\ page'.shown = picture
        /\ page'.listed = page.listed /\ page'.pressed = FALSE
    BY <1>1, <2>1 DEF Pages
  <2>8. ShownHolds(page.shown)' /\ page'.shown.job = page'.read.job
    BY <1>3, <2>4, <2>5, <2>7
  <2>9. /\ \A i \in page'.listed : verdict'[i] # "ABSENT"
        /\ page'.read.job # NoJob => verdict'[page'.read.job] # "ABSENT"
    BY <1>1, <1>2, <2>7 DEF PageHolds
  <2>10. Shown'
    BY <1>4, <2>2, <2>5, <2>7 DEF Shown
  <2> QED BY <1>2, <2>6, <2>7, <2>8, <2>9, <2>10 DEF PageInv, PageHolds
<1>9. CASE ReadFails
  <2>1. PICK place \in {"list", "shown"} :
          page' = [page EXCEPT !.at = place, !.pressed = FALSE, !.shown = Nothing]
    BY <1>9 DEF ReadFails
  <2> DEFINE picture == Nothing
  <2>2. page' \in Pages
    <3>1. picture \in [job : Job \cup {NoJob}, state : Verdict, completed : Nat, total : Nat,
                      partial : BOOLEAN, results : SUBSET LedgerTask, rows : SUBSET LedgerTask]
      BY DEF Nothing, Verdict
    <3>2. page' = [page EXCEPT !.at = place, !.pressed = FALSE, !.shown = picture]
      BY <2>1
    <3> HIDE DEF picture
    <3> QED BY <1>1, <3>1, <3>2 DEF Pages
  <2>3. /\ page'.at \in {"list", "shown"} /\ page'.read = page.read /\ page'.shown.job = NoJob
        /\ page'.listed = page.listed /\ page'.pressed = FALSE
    BY <1>1, <2>1 DEF Pages, Nothing
  <2> QED BY <1>1, <1>2, <2>2, <2>3 DEF PageInv, PageHolds, Shown
<1>10. CASE PollAgain \/ PressCancel
  <2>1. /\ page.read.job # NoJob
        /\ \E press \in BOOLEAN : page' = [page EXCEPT !.at = "poll", !.pressed = press]
    <3>1. CASE PollAgain
      <4>1. page' = [page EXCEPT !.at = "poll", !.pressed = page.pressed]
        BY <1>1, <3>1 DEF PollAgain, Pages
      <4>2. page.pressed \in BOOLEAN /\ page.read.job # NoJob
        BY <1>1, <3>1 DEF PollAgain, Pages
      <4> QED BY <4>1, <4>2
    <3>2. CASE PressCancel
      <4>1. page.read.job # NoJob
        BY <1>1, <3>2 DEF PressCancel, CancelOffered, PageHolds, Shown
      <4>2. page' = [page EXCEPT !.at = "poll", !.pressed = TRUE]
        BY <3>2 DEF PressCancel
      <4> QED BY <4>1, <4>2
    <3> QED BY <1>10, <3>1, <3>2
  <2>2. PICK press \in BOOLEAN : page' = [page EXCEPT !.at = "poll", !.pressed = press]
    BY <2>1
  <2>3. page' \in Pages
    BY <1>1, <2>2 DEF Pages
  <2>4. /\ page'.at = "poll" /\ page'.read = page.read /\ page'.shown = page.shown
        /\ page'.listed = page.listed
    BY <1>1, <2>2 DEF Pages
  <2> QED BY <1>1, <1>2, <1>3, <2>1, <2>3, <2>4 DEF PageInv, PageHolds, Shown
<1> QED BY <1>5, <1>6, <1>7, <1>8, <1>9, <1>10

(* A cancellation that arrives is a step of the ledger, or leaves everything *)
(* as it is; what was drawn before it stays, and stays true.                 *)
LEMMA CancelKeepsPage == ASSUME PageInv, CancelArrives, UNCHANGED view PROVE PageInv'
<1>1. LedgerInv /\ ViewInv /\ page \in Pages /\ PageHolds
  BY DEF PageInv, ViewInv
<1>2. /\ page.at = "cancel" /\ ~ page.pressed /\ Shown
      /\ page.shown.job = page.read.job /\ page.shown.job \in Job
  BY <1>1 DEF CancelArrives, PageHolds, Shown, ShownHolds, Known
<1>3. LedgerInv' /\ Forward
  <2>1. CASE Withdraw(page.shown.job)
    BY <1>1, <1>2, <2>1, WithdrawForward
  <2>2. CASE UNCHANGED ledger
    BY <1>1, <2>2, LedgerForward
  <2> QED BY <2>1, <2>2 DEF CancelArrives
<1>4. ViewInv'
  BY <1>1, <1>3, ViewRests
<1>5. \E place \in {"list", "shown"}, list \in SUBSET page.listed :
        page' = [page EXCEPT !.at = place, !.listed = list]
  <2>1. CASE page' = [page EXCEPT !.at = "list", !.listed = {}]
    BY <2>1
  <2>2. CASE page' = [page EXCEPT !.at = "shown"]
    <3>1. page' = [page EXCEPT !.at = "shown", !.listed = page.listed]
      BY <1>1, <2>2 DEF Pages
    <3> QED BY <3>1
  <2> QED BY <2>1, <2>2 DEF CancelArrives
<1>6. page' \in Pages
  BY <1>1, <1>5 DEF Pages
<1>7. /\ page'.at \in {"list", "shown"} /\ page'.read = page.read /\ page'.shown = page.shown
      /\ page'.listed \subseteq page.listed /\ page'.pressed = page.pressed
  BY <1>1, <1>5 DEF Pages
<1>8. /\ \A j \in page'.listed : verdict'[j] # "ABSENT"
      /\ page'.read.job # NoJob /\ verdict'[page'.read.job] # "ABSENT"
  BY <1>1, <1>2, <1>3, <1>7 DEF PageHolds, Pages, Forward, Shown
<1>9. \A picture : ShownHolds(picture) => ShownHolds(picture)'
  BY <1>1, <1>3, ShownForward
<1>10. Shown' => page'.shown.job = page'.read.job /\ ShownHolds(page.shown)'
  BY <1>1, <1>7, <1>9 DEF PageHolds, Shown
<1> QED BY <1>2, <1>4, <1>6, <1>7, <1>8, <1>10 DEF PageInv, PageHolds

(* PageInv is inductive. *)
LEMMA PageSteps == PageInv /\ [PageNext]_<<ledger, view, page>> => PageInv'
<1> SUFFICES ASSUME PageInv, [PageNext]_<<ledger, view, page>> PROVE PageInv'
  OBVIOUS
<1>1. LedgerInv /\ ViewInv
  BY DEF PageInv, ViewInv
<1>2. CASE PageStep /\ UNCHANGED view
  <2>1. CASE CancelArrives
    BY <1>2, <2>1, CancelKeepsPage
  <2>2. CASE ~ CancelArrives
    <3>1. UNCHANGED ledger
      BY <1>2, <2>2 DEF PageStep, ListJobs, PollJob, PollTasks, ReadFails, PollAgain, PressCancel, Pick
    <3> QED BY <1>2, <2>2, <3>1, ReadingKeepsPage DEF PageStep
  <2> QED BY <2>1, <2>2
<1>3. CASE ViewNext /\ UNCHANGED page
  <2>1. ViewInv'
    BY <1>1, <1>3, ViewSteps
  <2>2. LedgerNext \/ UNCHANGED ledger
    BY <1>3 DEF ViewNext, ReadTasks, ReadJob
  <2>3. Forward
    BY <1>1, <2>2, LedgerForward
  <2> QED BY <1>3, <2>1, <2>3, PageRests
<1>4. CASE UNCHANGED <<ledger, view, page>>
  <2>1. ViewInv' /\ Forward
    BY <1>1, <1>4, LedgerForward, ViewRests
  <2> QED BY <1>4, <2>1, PageRests
<1> QED BY <1>2, <1>3, <1>4 DEF PageNext

LEMMA PageInvHolds == PageSpec => []PageInv
BY PageStarts, PageSteps, PTL DEF PageSpec

LEMMA PageFollows == PageInv => PageTypeOK /\ PageIsHonest /\ FinalViewsAgree /\ AnswersAreFinal
<1> SUFFICES ASSUME PageInv PROVE PageTypeOK /\ PageIsHonest /\ FinalViewsAgree /\ AnswersAreFinal
  OBVIOUS
<1>1. LedgerInv /\ ViewInv /\ page \in Pages /\ PageHolds
  BY DEF PageInv, ViewInv
<1>2. Shown => ShownHolds(page.shown) /\ Known(page.shown.job, page.shown.state)
  BY <1>1 DEF PageHolds, ShownHolds
<1>3. PageTypeOK
  BY <1>1, <1>2 DEF PageTypeOK, Pages, PageHolds, ShownHolds
<1>4. ASSUME Shown, ~ page.shown.partial
      PROVE  /\ page.shown.results = Members(page.shown.job, outcome)
             /\ page.shown.results # {}
  <2>1. page.shown.job \in Job /\ verdict[page.shown.job] = "COMPLETED"
        /\ page.shown.results = Done(page.shown.job)
    BY <1>2, <1>4 DEF ShownHolds, Known, Final
  <2>2. VerdictHolds(page.shown.job)
    BY <1>1, <2>1 DEF LedgerInv
  <2> QED BY <2>1, <2>2 DEF VerdictHolds, Done
<1>5. PageIsHonest
  BY <1>2, <1>4 DEF PageIsHonest, ShownHolds
<1>6. ASSUME NEW r \in Reader, Shown, Final(page.shown.state), view[r].job = page.shown.job,
             Final(view[r].answer.state)
      PROVE  /\ view[r].answer.state = page.shown.state
             /\ view[r].answer.results = page.shown.results
  <2>1. AnswerHolds(view[r].job, view[r].answer)
    BY <1>1, <1>6 DEF ViewInv, ReaderInv, NoAnswer, Final
  <2> QED BY <1>2, <1>6, <2>1 DEF AnswerHolds, ShownHolds, Known
<1>7. FinalViewsAgree
  BY <1>6 DEF FinalViewsAgree
<1> QED BY <1>1, <1>3, <1>5, <1>7, AnswersFollow

(* The state of the evaluation page is in range; a drawn table has every    *)
(* task of its job.                                                         *)
THEOREM PageTypeCorrect == PageSpec => []PageTypeOK
BY PageInvHolds, PageFollows, PTL

(* The header of the page, read before the table, never claims more than the *)
(* table shows, and only whole results are shown without the caption          *)
(* "Partial results".                                                         *)
THEOREM PageStaysHonest == PageSpec => []PageIsHonest
BY PageInvHolds, PageFollows, PTL

(* The page and every other reader of a job that has ended see one state and *)
(* one set of results, whatever either had read before.                      *)
THEOREM FinalViewsMatch == PageSpec => []FinalViewsAgree
BY PageInvHolds, PageFollows, PTL

(* A client's answers stay final while the page polls and cancels.           *)
THEOREM AnswersStayFinalBesidePage == PageSpec => []AnswersAreFinal
BY PageInvHolds, PageFollows, PTL

-----------------------------------------------------------------------------
(* The live retrieval pages *)

Documents == Doc \cup {NoDoc}
Widgets == [mode : Modes, upload : Documents, strategy : Strategy]
Spaces == [doc : Documents, strategy : Strategy \cup {AllStrategies, NoStrategy},
           indexes : Possible \cup {None},
           results : {None} \cup [indexes : Possible, question : Question]]
Scripts == [at : {"idle", "start", "extract", "body", "build", "search"},
            press : {"none", "build", "search"}, doc : Documents, left : SUBSET Strategy,
            names : SUBSET Strategy, indexes : Possible \cup {None},
            question : Question \cup {None}]

(* A script past its first lines has the document it works on, and what it   *)
(* searches for and in.                                                      *)
ScriptHolds ==
  /\ script.press = "search" => script.question \in Question
  /\ script.at = "extract" => widget.upload \in Doc
  /\ script.at = "body" => space.doc \in Doc
  /\ script.at = "build" => script.doc \in Doc
  /\ script.at = "search" => script.indexes \in Possible /\ script.question \in Question
  /\ script.at # "start" => space.doc = NoDoc \/ widget.upload \in {NoDoc, space.doc}

WorkspaceInv ==
  /\ widget \in Widgets /\ space \in Spaces /\ script \in Scripts /\ ghosts \subseteq Possible
  /\ ScriptHolds

LEMMA IdleScripts ==
  /\ EmptyWorkspace \in Spaces /\ EmptyWorkspace.doc = NoDoc
  /\ IdleScript \in Scripts /\ IdleScript.at = "idle" /\ IdleScript.press = "none"
BY DEF EmptyWorkspace, IdleScript, Spaces, Scripts, Documents

LEMMA WorkspaceStarts == WorkspaceInit => WorkspaceInv
BY IdleScripts DEF WorkspaceInit, WorkspaceInv, FreshWidgets, Widgets, Documents, ScriptHolds

LEMMA IndexesPossible ==
  ASSUME NEW d \in Doc, NEW names \in SUBSET Strategy
  PROVE  Indexes(d, names) \in Possible
BY DEF Indexes, Possible

LEMMA HauntingPossible == ASSUME WorkspaceInv PROVE Haunting \subseteq Possible
BY IndexesPossible DEF WorkspaceInv, Scripts, ScriptHolds, Haunting, LastIndex

(* A script that starts knows nothing yet. *)
LEMMA StartKeepsWorkspace ==
  ASSUME WorkspaceInv, NEW press \in {"none", "build", "search"}, NEW q \in Question \cup {None},
         press = "search" => q \in Question,
         Starts(press, q), widget' \in Widgets, space' \in Spaces, ghosts' \subseteq Possible
  PROVE  WorkspaceInv'
<1>1. script' \in Scripts /\ script'.at = "start" /\ script'.press = press /\ script'.question = q
  BY IdleScripts DEF Starts, Scripts
<1> QED BY <1>1 DEF WorkspaceInv, ScriptHolds

LEMMA InteractionKeepsWorkspace == ASSUME WorkspaceInv, Interaction PROVE WorkspaceInv'
<1>1. widget \in Widgets /\ space \in Spaces /\ Haunting \subseteq Possible
  BY HauntingPossible DEF WorkspaceInv
<1>2. ASSUME NEW d \in Documents PROVE [widget EXCEPT !.upload = d] \in Widgets
  BY <1>1, <1>2 DEF Widgets
<1>3. ASSUME NEW d \in Doc, Upload(d) PROVE WorkspaceInv'
  BY <1>1, <1>2, <1>3, StartKeepsWorkspace DEF Upload, Documents
<1>4. ASSUME NEW s \in Strategy, Select(s) PROVE WorkspaceInv'
  <2>1. [widget EXCEPT !.strategy = s] \in Widgets
    BY <1>1 DEF Widgets
  <2> QED BY <1>1, <1>4, <2>1, StartKeepsWorkspace DEF Select
<1>5. ASSUME NEW q \in Question, PressSearch(q) PROVE WorkspaceInv'
  BY <1>1, <1>5, StartKeepsWorkspace DEF PressSearch
<1>6. CASE Remove
  BY <1>2, <1>6, IdleScripts, StartKeepsWorkspace DEF Remove, Documents
<1>7. CASE SwitchPages
  BY <1>1, <1>2, <1>7, StartKeepsWorkspace DEF SwitchPages, Documents
<1>8. CASE PressBuild
  BY <1>1, <1>8, StartKeepsWorkspace DEF PressBuild
<1> QED BY <1>3, <1>4, <1>5, <1>6, <1>7, <1>8 DEF Interaction

LEMMA ScriptKeepsWorkspace ==
  ASSUME WorkspaceInv, ScriptStep \/ \E g \in ghosts : GhostStores(g)
  PROVE  WorkspaceInv'
<1>1. /\ widget \in Widgets /\ space \in Spaces /\ script \in Scripts
      /\ ghosts \subseteq Possible /\ ScriptHolds
  BY DEF WorkspaceInv
<1>2. CASE Begin
  <2>1. UNCHANGED <<widget, ghosts>> /\ script.at = "start"
    BY <1>2 DEF Begin
  <2>2. CASE widget.upload \notin {NoDoc, space.doc}
    <3>1. space' = EmptyWorkspace /\ script' = [script EXCEPT !.at = "extract"]
      BY <1>2, <2>2 DEF Begin, Cleared
    <3>2. script' \in Scripts /\ script'.at = "extract" /\ script'.press = script.press
          /\ script'.question = script.question
      BY <1>1, <3>1 DEF Scripts
    <3>3. widget.upload \in Doc
      BY <1>1, <2>2 DEF Widgets, Documents
    <3> QED BY <1>1, <2>1, <3>1, <3>2, <3>3, IdleScripts DEF WorkspaceInv, ScriptHolds
  <2>3. CASE widget.upload \in {NoDoc, space.doc} /\ space.doc = NoDoc
    <3>1. script' = IdleScript /\ UNCHANGED space
      BY <1>2, <2>3 DEF Begin
    <3> QED BY <1>1, <2>1, <2>3, <3>1, IdleScripts DEF WorkspaceInv, ScriptHolds
  <2>4. CASE widget.upload \in {NoDoc, space.doc} /\ space.doc # NoDoc
    <3>1. script' = [script EXCEPT !.at = "body"] /\ UNCHANGED space
      BY <1>2, <2>4 DEF Begin
    <3>2. script' \in Scripts /\ script'.at = "body" /\ script'.press = script.press
          /\ script'.question = script.question
      BY <1>1, <3>1 DEF Scripts
    <3>3. space.doc \in Doc
      BY <1>1, <2>4 DEF Spaces, Documents
    <3> QED BY <1>1, <2>1, <2>4, <3>1, <3>2, <3>3 DEF WorkspaceInv, ScriptHolds
  <2> QED BY <2>2, <2>3, <2>4
<1>3. CASE Extract
  <2>1. UNCHANGED <<widget, ghosts>> /\ script.at = "extract" /\ widget.upload \in Doc
    BY <1>1, <1>3 DEF Extract, ScriptHolds
  <2>2. CASE space' = [space EXCEPT !.doc = widget.upload] /\ script' = [script EXCEPT !.at = "body"]
    <3>1. space' \in Spaces /\ space'.doc = widget.upload
      BY <1>1, <2>1, <2>2 DEF Spaces, Documents
    <3>2. script' \in Scripts /\ script'.at = "body" /\ script'.press = script.press
          /\ script'.question = script.question
      BY <1>1, <2>2 DEF Scripts
    <3> QED BY <1>1, <2>1, <3>1, <3>2 DEF WorkspaceInv, ScriptHolds
  <2>3. CASE script' = IdleScript /\ UNCHANGED space
    BY <1>1, <2>1, <2>3, IdleScripts DEF WorkspaceInv, ScriptHolds
  <2> QED BY <1>3, <2>2, <2>3 DEF Extract
<1>4. CASE Body
  <2> DEFINE s == IF space.strategy # Chosen THEN Invalidated(space) ELSE space
  <2>1. /\ script.at = "body" /\ UNCHANGED <<widget, ghosts>> /\ space.doc \in Doc
        /\ widget.upload \in {NoDoc, space.doc} \/ space.doc = NoDoc
    BY <1>1, <1>4 DEF Body, ScriptHolds
  <2>2. Chosen \in Strategy \cup {AllStrategies} /\ Wanted \in SUBSET Strategy
    BY <1>1 DEF Chosen, Wanted, Widgets
  <2>3. s \in Spaces /\ s.doc = space.doc
    BY <1>1, <2>2 DEF Invalidated, Spaces
  <2>4. CASE script.press = "build"
    <3>1. /\ space' = BuildStarted(s)
          /\ script' = [script EXCEPT !.at = "build", !.doc = s.doc, !.left = Wanted,
                                      !.names = Wanted]
      BY <1>4, <2>4 DEF Body
    <3> HIDE DEF s
    <3>2. space' \in Spaces /\ space'.doc = space.doc
      BY <2>3, <3>1 DEF BuildStarted, Spaces
    <3>3. script' \in Scripts /\ script'.at = "build" /\ script'.press = "build"
          /\ script'.doc = space.doc
      BY <1>1, <2>1, <2>2, <2>3, <2>4, <3>1 DEF Scripts, Documents
    <3> QED BY <1>1, <2>1, <3>2, <3>3 DEF WorkspaceInv, ScriptHolds
  <2>5. CASE script.press = "search" /\ s.indexes # None
    <3>1. /\ space' = SearchStarted(s)
          /\ \/ script' = [script EXCEPT !.at = "search", !.indexes = s.indexes]
             \/ script' = IdleScript
      BY <1>4, <2>5 DEF Body
    <3> HIDE DEF s
    <3>2. space' \in Spaces /\ space'.doc = space.doc /\ s.indexes \in Possible
      BY <2>3, <2>5, <3>1 DEF SearchStarted, Spaces
    <3>3. CASE script' = [script EXCEPT !.at = "search", !.indexes = s.indexes]
      <4>1. script' \in Scripts /\ script'.at = "search" /\ script'.press = "search"
            /\ script'.indexes = s.indexes /\ script'.question = script.question
        BY <1>1, <2>5, <3>2, <3>3 DEF Scripts
      <4> QED BY <1>1, <2>1, <2>5, <3>2, <4>1 DEF WorkspaceInv, ScriptHolds
    <3>4. CASE script' = IdleScript
      BY <1>1, <2>1, <3>2, <3>4, IdleScripts DEF WorkspaceInv, ScriptHolds
    <3> QED BY <3>1, <3>3, <3>4
  <2>6. CASE script.press # "build" /\ ~ (script.press = "search" /\ s.indexes # None)
    <3>1. space' = s /\ script' = IdleScript
      BY <1>4, <2>6 DEF Body
    <3> HIDE DEF s
    <3> QED BY <1>1, <2>1, <2>3, <3>1, IdleScripts DEF WorkspaceInv, ScriptHolds
  <2> QED BY <2>4, <2>5, <2>6
<1>5. ASSUME NEW name \in Strategy, BuildOne(name) PROVE WorkspaceInv'
  <2>1. script.at = "build" /\ UNCHANGED <<widget, ghosts>> /\ script.doc \in Doc
    BY <1>1, <1>5 DEF BuildOne, ScriptHolds
  <2>2. CASE LastIndex
    <3>1. space' = [space EXCEPT !.indexes = Indexes(script.doc, script.names)]
          /\ script' = IdleScript
      BY <1>5, <2>2 DEF BuildOne
    <3>2. Indexes(script.doc, script.names) \in Possible
      BY <1>1, <2>1, IndexesPossible DEF Scripts
    <3>3. space' \in Spaces /\ space'.doc = space.doc
      BY <1>1, <3>1, <3>2 DEF Spaces
    <3> QED BY <1>1, <2>1, <3>1, <3>3, IdleScripts DEF WorkspaceInv, ScriptHolds
  <2>3. CASE ~ LastIndex
    <3>1. script' = [script EXCEPT !.left = @ \ {name}] /\ UNCHANGED space
      BY <1>5, <2>3 DEF BuildOne
    <3>2. script' \in Scripts /\ script'.at = "build" /\ script'.press = script.press
          /\ script'.doc = script.doc /\ script'.question = script.question
      BY <1>1, <2>1, <3>1 DEF Scripts
    <3> QED BY <1>1, <2>1, <3>1, <3>2 DEF WorkspaceInv, ScriptHolds
  <2> QED BY <2>2, <2>3
<1>6. CASE BuildFails
  BY <1>1, <1>6, IdleScripts DEF BuildFails, WorkspaceInv, ScriptHolds
<1>7. CASE Search
  <2>1. /\ script.at = "search" /\ script' = IdleScript /\ UNCHANGED <<widget, ghosts>>
        /\ script.indexes \in Possible /\ script.question \in Question
    BY <1>1, <1>7 DEF Search, ScriptHolds
  <2>2. space' \in Spaces /\ space'.doc = space.doc
    BY <1>1, <1>7, <2>1 DEF Search, Evidence, Spaces
  <2> QED BY <1>1, <2>1, <2>2, IdleScripts DEF WorkspaceInv, ScriptHolds
<1>8. ASSUME NEW g \in ghosts, GhostStores(g) PROVE WorkspaceInv'
  <2>1. space' = [space EXCEPT !.indexes = g] /\ g \in Possible /\ UNCHANGED <<widget, script>>
        /\ ghosts' \subseteq Possible
    BY <1>1, <1>8 DEF GhostStores
  <2>2. space' \in Spaces /\ space'.doc = space.doc
    BY <1>1, <2>1 DEF Spaces
  <2> QED BY <1>1, <2>1, <2>2 DEF WorkspaceInv, ScriptHolds
<1> QED BY <1>2, <1>3, <1>4, <1>5, <1>6, <1>7, <1>8 DEF ScriptStep

LEMMA WorkspaceSteps == WorkspaceInv /\ [WorkspaceNext]_workspace => WorkspaceInv'
<1>1. WorkspaceInv /\ UNCHANGED workspace => WorkspaceInv'
  BY DEF WorkspaceInv, ScriptHolds, workspace
<1> QED BY <1>1, InteractionKeepsWorkspace, ScriptKeepsWorkspace DEF WorkspaceNext

LEMMA WorkspaceFollows == WorkspaceInv => WorkspaceTypeOK
BY DEF WorkspaceInv, Widgets, Spaces, Scripts, ScriptHolds, Documents, WorkspaceTypeOK

(* A workspace and its script stay in range, stopped scripts and their late  *)
(* writes included, and a document shown beside an upload is that upload.    *)
THEOREM WorkspaceTypeCorrect == WorkspaceSpec => []WorkspaceTypeOK
BY WorkspaceStarts, WorkspaceSteps, WorkspaceFollows, PTL DEF WorkspaceSpec

(* The indexes that belong to the workspace as it stands. *)
Current == Indexes(space.doc, IF widget.mode = "single" THEN {space.strategy} ELSE Strategy)

SpaceBelongs ==
  /\ space.indexes \in {None, Current}
  /\ space.results # None => space.indexes = Current /\ space.results.indexes = Current

(* The widgets ask for the document and the strategy the workspace has. *)
Matched == Chosen = space.strategy /\ widget.upload \in {NoDoc, space.doc}

(* Whoever is about to write indexes or results, stopped or not, made them   *)
(* from the document and the strategy in the workspace, and no widget asks   *)
(* for another one before that write.                                        *)
EvidenceInv ==
  /\ SpaceBelongs
  /\ script.at = "extract" => space = EmptyWorkspace /\ ghosts = {}
  /\ script.at = "build" => Matched /\ Indexes(script.doc, script.names) = Current
  /\ script.at = "search" => Matched /\ script.indexes = Current /\ space.indexes = Current
  /\ ghosts # {} => Matched /\ ghosts = {Current}

LEMMA EvidenceStarts == WorkspaceInit => EvidenceInv
BY DEF WorkspaceInit, EvidenceInv, SpaceBelongs, EmptyWorkspace, IdleScript

LEMMA CurrentStays ==
  ASSUME widget'.mode = widget.mode, space'.doc = space.doc, space'.strategy = space.strategy
  PROVE  Current' = Current
BY DEF Current, Indexes

(* A stopped script leaves a ghost only if it was at its last index. *)
LEMMA HauntingBelongs ==
  ASSUME EvidenceInv
  PROVE  Haunting # {} => /\ Matched /\ Haunting = {Current}
                          /\ script.at # "extract" /\ (LastIndex \/ ghosts # {})
BY DEF EvidenceInv, Haunting, LastIndex

LEMMA StartKeepsEvidence ==
  ASSUME WorkspaceInv, EvidenceInv, NEW press, NEW q, Starts(press, q), UNCHANGED space,
         widget'.mode = widget.mode, ghosts' = Haunting, Haunting # {} => Matched'
  PROVE  EvidenceInv'
<1>1. script'.at = "start"
  BY DEF Starts, IdleScript
<1>2. Current' = Current
  BY CurrentStays
<1>3. SpaceBelongs'
  BY <1>2 DEF EvidenceInv, SpaceBelongs
<1>4. ghosts' # {} => Matched' /\ ghosts' = {Current'}
  BY <1>2, HauntingBelongs
<1> QED BY <1>1, <1>3, <1>4 DEF EvidenceInv

LEMMA InteractionKeepsEvidence ==
  ASSUME Impatient = FALSE, WorkspaceInv, EvidenceInv, Interaction
  PROVE  EvidenceInv'
<1>1. widget \in Widgets
  BY DEF WorkspaceInv
<1>2. \A d \in Documents : LET w == [widget EXCEPT !.upload = d]
                           IN w.mode = widget.mode /\ w.upload = d /\ w.strategy = widget.strategy
  BY <1>1 DEF Widgets
<1>3. ASSUME Interruptible PROVE Haunting = {}
  BY <1>3, HauntingBelongs DEF Interruptible, LongCall
<1>4. ASSUME NEW d \in Doc, Upload(d) PROVE EvidenceInv'
  BY <1>2, <1>3, <1>4, StartKeepsEvidence DEF Upload, Documents
<1>5. ASSUME NEW s \in Strategy, Select(s) PROVE EvidenceInv'
  <2>1. [widget EXCEPT !.strategy = s].mode = widget.mode
    BY <1>1 DEF Widgets
  <2> QED BY <1>3, <1>5, <2>1, StartKeepsEvidence DEF Select
<1>6. ASSUME UNCHANGED <<widget, space>>, ghosts' = Haunting, NEW press, NEW q, Starts(press, q)
      PROVE  EvidenceInv'
  <2>1. Haunting # {} => Matched'
    BY <1>6, HauntingBelongs DEF Matched, Chosen
  <2> QED BY <1>6, <2>1, StartKeepsEvidence
<1>7. CASE SwitchPages
  <2>1. widget' = [widget EXCEPT !.upload = NoDoc] /\ UNCHANGED space /\ ghosts' = Haunting
        /\ Starts("none", None)
    BY <1>7 DEF SwitchPages
  <2>2. widget'.mode = widget.mode /\ widget'.upload = NoDoc /\ widget'.strategy = widget.strategy
    BY <1>2, <2>1 DEF Documents
  <2>3. Haunting # {} => Matched'
    BY <2>1, <2>2, HauntingBelongs DEF Matched, Chosen
  <2> QED BY <2>1, <2>2, <2>3, StartKeepsEvidence
<1>8. CASE Remove
  <2>1. space' = EmptyWorkspace /\ ghosts' = {} /\ script'.at = "start"
    BY <1>8 DEF Remove, Starts, IdleScript
  <2> QED BY <2>1 DEF EvidenceInv, SpaceBelongs, EmptyWorkspace
<1> QED BY <1>4, <1>5, <1>6, <1>7, <1>8 DEF Interaction, PressSearch, PressBuild

LEMMA ScriptKeepsEvidence ==
  ASSUME WorkspaceInv, EvidenceInv, ScriptStep
  PROVE  EvidenceInv'
<1>1. /\ widget \in Widgets /\ space \in Spaces /\ script \in Scripts
      /\ UNCHANGED <<widget, ghosts>>
  BY DEF WorkspaceInv, ScriptStep, Begin, Extract, Body, BuildFails, Search, BuildOne
<1>2. IdleScript.at = "idle" /\ EmptyWorkspace.indexes = None /\ EmptyWorkspace.results = None
  BY DEF IdleScript, EmptyWorkspace
<1>3. ghosts # {} => Matched /\ ghosts = {Current}
  BY DEF EvidenceInv
<1>4. ASSUME UNCHANGED space PROVE Current' = Current /\ Matched' = Matched /\ SpaceBelongs'
  BY <1>1, <1>4 DEF Current, Indexes, Matched, Chosen, EvidenceInv, SpaceBelongs
<1>5. CASE Begin
  <2>1. script.at = "start"
    BY <1>5 DEF Begin
  <2>2. CASE widget.upload \notin {NoDoc, space.doc}
    <3>1. space' = EmptyWorkspace /\ script' = [script EXCEPT !.at = "extract"] /\ ghosts = {}
      BY <1>3, <1>5, <2>2 DEF Begin, Cleared, Matched
    <3>2. script'.at = "extract"
      BY <1>1, <3>1 DEF Scripts
    <3> QED BY <1>1, <1>2, <3>1, <3>2 DEF EvidenceInv, SpaceBelongs
  <2>3. CASE widget.upload \in {NoDoc, space.doc}
    <3>1. UNCHANGED space /\ script' \in {IdleScript, [script EXCEPT !.at = "body"]}
      BY <1>5, <2>3 DEF Begin
    <3>2. script'.at \in {"idle", "body"}
      BY <1>1, <1>2, <3>1 DEF Scripts
    <3> QED BY <1>1, <1>3, <1>4, <3>1, <3>2 DEF EvidenceInv
  <2> QED BY <2>2, <2>3
<1>6. CASE Extract
  <2>1. script.at = "extract" /\ space = EmptyWorkspace /\ ghosts = {}
    BY <1>6 DEF Extract, EvidenceInv
  <2>2. space'.indexes = None /\ space'.results = None /\ script'.at \in {"body", "idle"}
    BY <1>1, <1>2, <1>6, <2>1 DEF Extract, Spaces, Scripts
  <2> QED BY <1>1, <2>1, <2>2 DEF EvidenceInv, SpaceBelongs
<1>7. CASE Body
  <2> DEFINE s == IF space.strategy # Chosen THEN Invalidated(space) ELSE space
  <2>1. /\ space.doc \in Doc /\ widget.upload \in {NoDoc, space.doc}
        /\ script.at = "body" /\ NoDoc \notin Doc
    BY <1>7, WorkspaceAssumption DEF Body, WorkspaceInv, ScriptHolds
  <2>2. s.doc = space.doc /\ s.strategy = Chosen
    BY <1>1 DEF Invalidated, Spaces
  <2>3. s.indexes \in {None, Indexes(s.doc, Wanted)}
        /\ (s.results # None => s.indexes = Indexes(s.doc, Wanted)
                                /\ s.results.indexes = Indexes(s.doc, Wanted))
    <3>1. CASE space.strategy # Chosen
      BY <1>1, <3>1 DEF Invalidated, Spaces
    <3>2. CASE space.strategy = Chosen
      <4>1. Indexes(s.doc, Wanted) = Current
        BY <2>2, <3>2 DEF Current, Chosen, Wanted
      <4> QED BY <3>2, <4>1 DEF EvidenceInv, SpaceBelongs
    <3> QED BY <3>1, <3>2
  <2>4. s = space \/ ghosts = {}
    BY <1>3 DEF Matched
  <2>5. s \in Spaces
    <3>1. Chosen \in Strategy \cup {AllStrategies}
      BY <1>1 DEF Chosen, Widgets
    <3> QED BY <1>1, <3>1 DEF Invalidated, Spaces
  <2> HIDE DEF s
  <2>6. ASSUME space'.doc = s.doc, space'.strategy = s.strategy
        PROVE  /\ Current' = Indexes(s.doc, Wanted) /\ Matched'
               /\ ghosts' # {} => ghosts' = {Current'}
    <3>1. Current' = Indexes(s.doc, Wanted)
      BY <1>1, <2>2, <2>6 DEF Current, Chosen, Wanted
    <3>2. Matched'
      BY <1>1, <2>1, <2>2, <2>6 DEF Matched, Chosen
    <3>3. s = space => Current' = Current
      BY <1>1, <2>6, CurrentStays
    <3> QED BY <1>1, <1>3, <2>4, <3>1, <3>2, <3>3
  <2>7. CASE script.press = "build"
    <3>1. /\ space' = [s EXCEPT !.indexes = None, !.results = None]
          /\ script' = [script EXCEPT !.at = "build", !.doc = s.doc, !.left = Wanted,
                                      !.names = Wanted]
      BY <1>7, <2>7 DEF Body, BuildStarted, s
    <3>2. /\ space'.doc = s.doc /\ space'.strategy = s.strategy
          /\ space'.indexes = None /\ space'.results = None
      BY <2>5, <3>1 DEF Spaces
    <3>3. script'.at = "build" /\ script'.doc = s.doc /\ script'.names = Wanted
      BY <1>1, <3>1 DEF Scripts
    <3> QED BY <2>6, <3>2, <3>3 DEF EvidenceInv, SpaceBelongs
  <2>8. CASE script.press = "search" /\ s.indexes # None
    <3>1. /\ space' = [s EXCEPT !.results = None]
          /\ \/ script' = [script EXCEPT !.at = "search", !.indexes = s.indexes]
             \/ script' = IdleScript
      BY <1>7, <2>8 DEF Body, SearchStarted, s
    <3>2. /\ space'.doc = s.doc /\ space'.strategy = s.strategy
          /\ space'.indexes = Indexes(s.doc, Wanted) /\ space'.results = None
      BY <2>3, <2>5, <2>8, <3>1 DEF Spaces
    <3>3. \/ script'.at = "idle"
          \/ script'.at = "search" /\ script'.indexes = Indexes(s.doc, Wanted)
      BY <1>1, <1>2, <2>3, <2>8, <3>1 DEF Scripts
    <3> QED BY <2>6, <3>2, <3>3 DEF EvidenceInv, SpaceBelongs
  <2>9. CASE script.press # "build" /\ ~ (script.press = "search" /\ s.indexes # None)
    <3>1. space' = s /\ script' = IdleScript
      BY <1>7, <2>9 DEF Body, s
    <3> QED BY <1>2, <2>3, <2>6, <3>1 DEF EvidenceInv, SpaceBelongs
  <2> QED BY <2>7, <2>8, <2>9
<1>8. ASSUME NEW name \in Strategy, BuildOne(name) PROVE EvidenceInv'
  <2>1. script.at = "build" /\ Matched /\ Indexes(script.doc, script.names) = Current
    BY <1>8 DEF BuildOne, EvidenceInv
  <2>2. CASE LastIndex
    <3>1. space' = [space EXCEPT !.indexes = Current] /\ script' = IdleScript
      BY <1>8, <2>1, <2>2 DEF BuildOne
    <3>2. /\ space'.doc = space.doc /\ space'.strategy = space.strategy
          /\ space'.indexes = Current /\ space'.results = space.results
      BY <1>1, <3>1 DEF Spaces
    <3>3. Current' = Current /\ Matched'
      BY <1>1, <2>1, <3>2, CurrentStays DEF Matched, Chosen
    <3> QED BY <1>1, <1>2, <1>3, <3>1, <3>2, <3>3 DEF EvidenceInv, SpaceBelongs
  <2>3. CASE ~ LastIndex
    <3>1. script' = [script EXCEPT !.left = @ \ {name}] /\ UNCHANGED space
      BY <1>8, <2>3 DEF BuildOne
    <3>2. script'.at = "build" /\ script'.doc = script.doc /\ script'.names = script.names
      BY <1>1, <2>1, <3>1 DEF Scripts
    <3> QED BY <1>1, <1>3, <1>4, <2>1, <3>1, <3>2 DEF EvidenceInv
  <2> QED BY <2>2, <2>3
<1>9. CASE BuildFails
  BY <1>1, <1>2, <1>3, <1>4, <1>9 DEF BuildFails, EvidenceInv
<1>10. CASE Search
  <2>1. /\ script.at = "search" /\ script' = IdleScript
        /\ Matched /\ script.indexes = Current /\ space.indexes = Current
    BY <1>10 DEF Search, EvidenceInv
  <2>2. CASE UNCHANGED space
    BY <1>1, <1>2, <1>3, <1>4, <2>1, <2>2 DEF EvidenceInv
  <2>3. CASE space' = [space EXCEPT !.results = Evidence(script.indexes, script.question)]
    <3>1. /\ space'.doc = space.doc /\ space'.strategy = space.strategy
          /\ space'.indexes = Current /\ space'.results.indexes = Current
      BY <1>1, <2>1, <2>3 DEF Spaces, Evidence
    <3>2. Current' = Current /\ Matched'
      BY <1>1, <2>1, <3>1, CurrentStays DEF Matched, Chosen
    <3> QED BY <1>1, <1>2, <1>3, <2>1, <3>1, <3>2 DEF EvidenceInv, SpaceBelongs
  <2> QED BY <1>10, <2>2, <2>3 DEF Search
<1> QED BY <1>5, <1>6, <1>7, <1>8, <1>9, <1>10 DEF ScriptStep

LEMMA GhostKeepsEvidence ==
  ASSUME WorkspaceInv, EvidenceInv, NEW g \in ghosts, GhostStores(g)
  PROVE  EvidenceInv'
<1>1. /\ space' = [space EXCEPT !.indexes = g] /\ UNCHANGED <<widget, script>>
      /\ ghosts' = ghosts \ {g} /\ Matched /\ g = Current /\ ghosts' = {} /\ space \in Spaces
  BY DEF GhostStores, EvidenceInv, WorkspaceInv
<1>2. /\ space'.doc = space.doc /\ space'.strategy = space.strategy
      /\ space'.indexes = Current /\ space'.results = space.results
  BY <1>1 DEF Spaces
<1>3. Current' = Current /\ Matched'
  BY <1>1, <1>2, CurrentStays DEF Matched, Chosen
<1>4. script.at # "extract"
  BY DEF EvidenceInv
<1> QED BY <1>1, <1>2, <1>3, <1>4 DEF EvidenceInv, SpaceBelongs

LEMMA EvidenceFollows == EvidenceInv => EvidenceBelongs
BY DEF EvidenceInv, SpaceBelongs, Current, Indexes, Built, EvidenceBelongs

LEMMA EvidenceSteps ==
  ASSUME Impatient = FALSE
  PROVE  WorkspaceInv /\ EvidenceInv /\ [WorkspaceNext]_workspace => EvidenceInv'
<1>1. EvidenceInv /\ UNCHANGED workspace => EvidenceInv'
  BY DEF EvidenceInv, SpaceBelongs, Current, Indexes, Matched, Chosen, workspace
<1> QED BY <1>1, InteractionKeepsEvidence, ScriptKeepsEvidence, GhostKeepsEvidence DEF WorkspaceNext

(* "Replacing a document or changing the single strategy invalidates indexes *)
(* and evidence" (README.md:70): whatever scripts are stopped, wherever, the *)
(* indexes are those of the document and strategy in the workspace and the   *)
(* evidence was found in them.  Under the proviso of the model: the user     *)
(* waits for a long call before choosing another document or strategy.       *)
THEOREM EvidenceStaysMatched == ASSUME Impatient = FALSE PROVE WorkspaceSpec => []EvidenceBelongs
<1>1. WorkspaceInit => WorkspaceInv /\ EvidenceInv
  BY WorkspaceStarts, EvidenceStarts
<1>2. WorkspaceInv /\ EvidenceInv /\ [WorkspaceNext]_workspace => (WorkspaceInv /\ EvidenceInv)'
  BY WorkspaceSteps, EvidenceSteps
<1> QED BY <1>1, <1>2, EvidenceFollows, PTL DEF WorkspaceSpec

-----------------------------------------------------------------------------
(* The research dashboard *)

HasRead(f) == read[f] # Unreadable
Frame(f, content) == IF f = "final" THEN PrimaryOnly(content) ELSE content
FromHeld(f) == \E c \in held[f] \ {Unreadable} : read[f] = Frame(f, c)
Merged == {x \in SeverePrimary \X SevereContext : x[1].chunker = x[2].chunker}
Pair(x, m) == [strategy |-> x[1].chunker, column |-> m, primary |-> x[1], context |-> x[2]]
Selected(s, m) ==
  {r \in read["statistics"] : r.set = "primary" /\ r.statistic = s /\ r.metric = m}

(* What a panel shows is made from the frames this run has read. *)
Pictures(p, panel) ==
  /\ p = "summary" => panel.cells = Figures(read["manifest"], EveryFigure)
  /\ p = "performance" => /\ Reshapes(read["final"])
                          /\ \E m \in Metric : panel.cells = {Cell(r, m) : r \in read["final"]}
  /\ p = "degradation" =>
       \E m \in Metric : /\ panel.heading = <<m>>
                         /\ panel.cells = {Cell(r, m) : r \in {q \in read["robustness"] :
                                                                 PrimarySevere(q, m)}}
  /\ p = "cost" =>
       /\ Reshapes(read["efficiency"])
       /\ \E column : panel.cells = {Cell(r, column) : r \in read["efficiency"]}
  /\ p = "comparison" => \E m \in Metric : panel.cells = {Pair(x, m) : x \in Merged}
  /\ p = "bootstrap" =>
       \/ read["statistics"] = {} /\ panel.cells = {}
       \/ \E m \in Metric : \E s : /\ panel.heading = <<s, m>>
                                   /\ panel.cells = {Cell(r, m) : r \in Selected(s, m)}

DashboardTypes ==
  /\ at \in Position /\ copies \in Nat
  /\ DOMAIN disk = File /\ DOMAIN read = File /\ DOMAIN shown = Panel /\ DOMAIN held = File
  /\ \A f \in File : MayHold(f, disk[f]) /\ MayHold(f, read[f]) /\ disk[f] \in held[f]
  /\ \A p \in Panel : DOMAIN shown[p] = {"drawn", "heading", "cells"}

(* The frames: read in order, each from something that has been in the       *)
(* place of its file since the run began.                                    *)
FramesInv ==
  /\ at.step = "load" =>
       at.i > 0 /\ \A k \in 1 .. 6 : k < at.i => HasRead(LoadOrder[k]) /\ FromHeld(LoadOrder[k])
  /\ at.step \in {"draw", "done"} => \A f \in File : HasRead(f) /\ FromHeld(f)

(* The panels: none before all is read, one after the other, from the frames. *)
PanelsInv ==
  /\ \A p \in Panel : IF shown[p].drawn THEN Pictures(p, shown[p])
                                        ELSE p # "summary" => shown[p].cells = {}
  /\ at.step \in {"idle", "load"} => \A p \in Panel : ~ shown[p].drawn
  /\ at.step = "draw" => at.i > 0 /\ \A k \in 1 .. 6 : k < at.i <=> shown[DrawOrder[k]].drawn
  /\ at.step = "done" => \A k \in 1 .. 6 : shown[DrawOrder[k]].drawn
  /\ \A i, k \in 1 .. 6 : k <= i /\ shown[DrawOrder[i]].drawn => shown[DrawOrder[k]].drawn
  /\ (\E p \in Panel : shown[p].drawn) => \A f \in File : HasRead(f) /\ FromHeld(f)

DashboardInv == DashboardTypes /\ FramesInv /\ PanelsInv

LEMMA OrdersCover ==
  /\ \A i \in 1 .. 6 : LoadOrder[i] \in File /\ DrawOrder[i] \in Panel
  /\ \A f \in File : \E i \in 1 .. 6 : LoadOrder[i] = f
  /\ DrawOrder[1] = "summary" /\ DrawOrder[2] = "performance" /\ DrawOrder[3] = "degradation"
  /\ DrawOrder[4] = "cost" /\ DrawOrder[5] = "comparison" /\ DrawOrder[6] = "bootstrap"
  /\ \A p \in Panel : \E i \in 1 .. 6 : DrawOrder[i] = p
<1>1. LoadOrder[1] = "manifest" /\ LoadOrder[2] = "final" /\ LoadOrder[3] = "robustness"
      /\ LoadOrder[4] = "sensitivity" /\ LoadOrder[5] = "efficiency" /\ LoadOrder[6] = "statistics"
  BY DEF LoadOrder
<1>2. DrawOrder[1] = "summary" /\ DrawOrder[2] = "performance" /\ DrawOrder[3] = "degradation"
      /\ DrawOrder[4] = "cost" /\ DrawOrder[5] = "comparison" /\ DrawOrder[6] = "bootstrap"
  BY DEF DrawOrder
<1>3. \A i \in 1 .. 6 : i = 1 \/ i = 2 \/ i = 3 \/ i = 4 \/ i = 5 \/ i = 6
  OBVIOUS
<1>4. \A i \in 1 .. 6 : LoadOrder[i] \in File /\ DrawOrder[i] \in Panel
  BY <1>1, <1>2, <1>3 DEF File, Panel
<1>5. 1 \in 1 .. 6 /\ 2 \in 1 .. 6 /\ 3 \in 1 .. 6 /\ 4 \in 1 .. 6 /\ 5 \in 1 .. 6 /\ 6 \in 1 .. 6
  OBVIOUS
<1>6. \A f \in File : \E i \in 1 .. 6 : LoadOrder[i] = f
  BY <1>1, <1>5 DEF File
<1>7. \A p \in Panel : \E i \in 1 .. 6 : DrawOrder[i] = p
  BY <1>2, <1>5 DEF Panel
<1> QED BY <1>2, <1>4, <1>6, <1>7

LEMMA OrdersDiffer == \A i, k \in 1 .. 6 : DrawOrder[i] = DrawOrder[k] => i = k
<1>1. \A i \in 1 .. 6 : i = 1 \/ i = 2 \/ i = 3 \/ i = 4 \/ i = 5 \/ i = 6
  OBVIOUS
<1> QED BY <1>1, OrdersCover

LEMMA Positions ==
  /\ \A step, i : In(step, i).step = step /\ In(step, i).i = i
  /\ In("idle", 0) \in Position /\ In("failed", 0) \in Position /\ In("done", 0) \in Position
  /\ \A i \in 1 .. 6 : In("load", i) \in Position /\ In("draw", i) \in Position
BY DEF In, Position

LEMMA NothingDrawn ==
  NoPanel.drawn = FALSE /\ NoPanel.cells = {} /\ DOMAIN NoPanel = {"drawn", "heading", "cells"}
BY DEF NoPanel

LEMMA DashboardStarts == DashboardInit => DashboardInv
<1> SUFFICES ASSUME DashboardInit PROVE DashboardInv
  OBVIOUS
<1>1. DashboardTypes
  BY ContentsAssumption, Positions, NothingDrawn DEF DashboardInit, DashboardTypes, MayHold
<1>2. at.step = "idle"
  BY Positions DEF DashboardInit
<1>3. \A p \in Panel : ~ shown[p].drawn /\ shown[p].cells = {}
  BY NothingDrawn DEF DashboardInit
<1>4. FramesInv
  BY <1>2 DEF FramesInv
<1>5. PanelsInv
  BY <1>2, <1>3, OrdersCover DEF PanelsInv
<1> QED BY <1>1, <1>4, <1>5 DEF DashboardInv

(* The run starts over. *)
LEMMA OpenKeepsDashboard == ASSUME DashboardInv, Open PROVE DashboardInv'
<1>1. /\ at'.step = "load" /\ at'.i = 1 /\ at' \in Position
      /\ held' = [f \in File |-> {disk[f]}]
      /\ shown' = [p \in Panel |-> NoPanel] /\ UNCHANGED <<disk, read, copies>>
  BY Positions DEF Open
<1>2. \A p \in Panel : ~ shown'[p].drawn /\ shown'[p].cells = {}
                       /\ DOMAIN shown'[p] = {"drawn", "heading", "cells"}
  BY <1>1, NothingDrawn
<1>3. DashboardTypes'
  BY <1>1, <1>2 DEF DashboardInv, DashboardTypes, MayHold
<1>4. FramesInv'
  BY <1>1 DEF DashboardInv, FramesInv, HasRead
<1>5. PanelsInv'
  BY <1>1, <1>2, OrdersCover DEF PanelsInv
<1> QED BY <1>3, <1>4, <1>5 DEF DashboardInv

LEMMA ReplaceKeepsDashboard == ASSUME DashboardInv, NEW f \in File, Replace(f) PROVE DashboardInv'
<1>1. PICK c \in Copies[f] : disk' = [disk EXCEPT ![f] = c] /\ held' = [held EXCEPT ![f] = @ \cup {c}]
  BY DEF Replace
<1>2. copies' \in Nat /\ UNCHANGED <<at, read, shown>>
  BY DEF Replace, DashboardInv, DashboardTypes
<1>3. /\ DOMAIN disk' = File /\ \A g \in File : disk'[g] = IF g = f THEN c ELSE disk[g]
      /\ DOMAIN held' = File
      /\ \A g \in File : held'[g] = IF g = f THEN held[g] \cup {c} ELSE held[g]
  BY <1>1 DEF DashboardInv, DashboardTypes
<1>4. \A g \in File : MayHold(g, disk'[g])
  BY <1>1, <1>3, ContentsAssumption DEF DashboardInv, DashboardTypes
<1>5. DashboardTypes'
  BY <1>2, <1>3, <1>4 DEF DashboardInv, DashboardTypes, MayHold
<1>6. \A g \in File : /\ HasRead(g) => HasRead(g)'
                      /\ FromHeld(g) => FromHeld(g)'
  BY <1>2, <1>3 DEF HasRead, FromHeld
<1>7. FramesInv'
  BY <1>2, <1>6, OrdersCover DEF DashboardInv, FramesInv
<1>8. \A p \in Panel : Pictures(p, shown[p])' <=> Pictures(p, shown[p])
  BY <1>2 DEF Pictures, Merged, SeverePrimary, SevereContext, Selected
<1>9. PanelsInv'
  BY <1>2, <1>6, <1>8 DEF DashboardInv, PanelsInv
<1> QED BY <1>5, <1>7, <1>9 DEF DashboardInv

LEMMA AfterIs ==
  ASSUME NEW i \in 1 .. 6, NEW step \in {"load", "draw"}, NEW then
  PROVE  /\ i = 6 => After(step, i, then) = then
         /\ i < 6 => /\ i + 1 \in 1 .. 6 /\ After(step, i, then) = In(step, i + 1)
                     /\ \A k \in 1 .. 6 : k < i + 1 <=> (k < i \/ k = i)
BY DEF After

LEMMA LoadKeepsDashboard == ASSUME DashboardInv, Load PROVE DashboardInv'
<1>1. PICK i \in 1 .. 6 :
        /\ at = In("load", i) /\ UNCHANGED <<disk, shown, copies, held>>
        /\ IF Loaded(LoadOrder[i]) = Unreadable
           THEN at' = In("failed", 0) /\ UNCHANGED read
           ELSE /\ at' = After("load", i, In("draw", 1))
                /\ read' = [read EXCEPT ![LoadOrder[i]] =
                              IF LoadOrder[i] = "final" THEN PrimaryOnly(Loaded(LoadOrder[i]))
                              ELSE Loaded(LoadOrder[i])]
  BY DEF Load
<1> DEFINE f == LoadOrder[i]
<1>2. f \in File /\ at.step = "load" /\ at.i = i
  BY <1>1, Positions, OrdersCover
<1>3. \A p \in Panel : ~ shown[p].drawn /\ (p # "summary" => shown[p].cells = {})
  BY <1>2 DEF DashboardInv, PanelsInv
<1>4. CASE disk[f] = Unreadable
  <2>1. at' = In("failed", 0) /\ UNCHANGED <<disk, read, shown, copies, held>>
    BY <1>1, <1>4 DEF Loaded
  <2>2. at' \in Position /\ at'.step = "failed"
    BY <2>1, Positions
  <2>3. DashboardTypes'
    BY <2>1, <2>2 DEF DashboardInv, DashboardTypes, MayHold
  <2>4. FramesInv'
    BY <2>2 DEF FramesInv
  <2>5. PanelsInv'
    BY <1>3, <2>1, <2>2, OrdersCover DEF PanelsInv
  <2> QED BY <2>3, <2>4, <2>5 DEF DashboardInv
<1>5. CASE disk[f] # Unreadable
  <2> DEFINE frame == Frame(f, disk[f])
  <2>1. at' = After("load", i, In("draw", 1)) /\ read' = [read EXCEPT ![f] = frame]
    BY <1>1, <1>5 DEF Loaded, Frame
  <2>2. disk[f] \in Content(f)
    BY <1>2, <1>5 DEF DashboardInv, DashboardTypes, MayHold
  <2>3. f = "final" => frame \in SUBSET Row /\ frame \in Content(f)
    BY <2>2 DEF Content, PrimaryOnly, Frame
  <2>4. frame \in Content(f)
    BY <2>2, <2>3 DEF Frame
  <2>5. MayHold(f, frame)
    BY <2>4 DEF MayHold
  <2> HIDE DEF f
  <2>6. DOMAIN read' = File /\ read'[f] = frame /\ \A g \in File \ {f} : read'[g] = read[g]
    BY <1>2, <2>1 DEF DashboardInv, DashboardTypes
  <2>7. frame # Unreadable
    <3>1. CASE f = "final"
      BY <2>3, <3>1, ContentsAssumption
    <3>2. CASE f # "final"
      BY <1>5, <3>2 DEF Frame
    <3> QED BY <3>1, <3>2
  <2> HIDE DEF frame
  <2>8. \A g \in File : HasRead(g) => HasRead(g)'
    BY <2>6, <2>7 DEF HasRead
  <2>9. HasRead(f)' /\ FromHeld(f)'
    BY <1>1, <1>2, <1>5, <2>6, <2>7 DEF HasRead, FromHeld, frame, DashboardInv, DashboardTypes
  <2>10. \A g \in File : FromHeld(g) => FromHeld(g)'
    BY <1>1, <2>6, <2>9 DEF FromHeld
  <2>12. \A k \in 1 .. 6 : k < i => HasRead(LoadOrder[k])' /\ FromHeld(LoadOrder[k])'
    BY <1>2, <2>8, <2>10, OrdersCover DEF DashboardInv, FramesInv
  <2>13. HasRead(LoadOrder[i])' /\ FromHeld(LoadOrder[i])'
    BY <2>9 DEF f
  <2>14. \/ at'.step = "load" /\ at'.i \in 1 .. 6 /\ \A k \in 1 .. 6 : k < at'.i <=> (k < i \/ k = i)
         \/ at'.step = "draw" /\ at'.i = 1 /\ i = 6
    BY <2>1, AfterIs, Positions
  <2>15. at' \in Position
    BY <2>1, AfterIs, Positions
  <2>16. DashboardTypes'
    BY <1>1, <2>5, <2>6, <2>15 DEF DashboardInv, DashboardTypes, MayHold
  <2>17. at'.step = "draw" => \A g \in File : HasRead(g)' /\ FromHeld(g)'
    <3>1. i = 6 => \A k \in 1 .. 6 : k < i \/ k = i
      OBVIOUS
    <3>2. i = 6 => \A k \in 1 .. 6 : HasRead(LoadOrder[k])' /\ FromHeld(LoadOrder[k])'
      BY <2>12, <2>13, <3>1
    <3> QED BY <2>14, <3>2, OrdersCover
  <2>18. at'.step = "load" => /\ at'.i > 0
                              /\ \A k \in 1 .. 6 : k < at'.i =>
                                   HasRead(LoadOrder[k])' /\ FromHeld(LoadOrder[k])'
    BY <2>12, <2>13, <2>14
  <2>19. FramesInv'
    BY <2>14, <2>17, <2>18 DEF FramesInv
  <2>20. PanelsInv'
    <3>1. \A p \in Panel : ~ shown'[p].drawn /\ (p # "summary" => shown'[p].cells = {})
      BY <1>1, <1>3
    <3> QED BY <2>14, <3>1, OrdersCover DEF PanelsInv
  <2> QED BY <2>16, <2>19, <2>20 DEF DashboardInv
<1> QED BY <1>4, <1>5

(* A panel that is drawn from the frames. *)
LEMMA DrawKeepsDashboard ==
  ASSUME DashboardInv, NEW i \in 1 .. 6, at = In("draw", i), NEW heading, NEW cells,
         Draws(i, heading, cells),
         Pictures(DrawOrder[i], [drawn |-> TRUE, heading |-> heading, cells |-> cells])
  PROVE  DashboardInv'
<1> DEFINE panel == [drawn |-> TRUE, heading |-> heading, cells |-> cells]
           p0 == DrawOrder[i]
<1>1. /\ shown' = [shown EXCEPT ![p0] = panel] /\ at' = After("draw", i, In("done", 0))
      /\ UNCHANGED <<disk, read, copies, held>>
  BY DEF Draws
<1>2. p0 \in Panel /\ at.step = "draw" /\ at.i = i
  BY Positions, OrdersCover
<1>3. panel.drawn = TRUE /\ DOMAIN panel = {"drawn", "heading", "cells"} /\ Pictures(p0, panel)
  OBVIOUS
<1> HIDE DEF p0, panel
<1>4. DOMAIN shown' = Panel /\ shown'[p0] = panel /\ \A p \in Panel \ {p0} : shown'[p] = shown[p]
  BY <1>1, <1>2 DEF DashboardInv, DashboardTypes
<1>5. \/ at'.step = "draw" /\ at'.i \in 1 .. 6 /\ \A k \in 1 .. 6 : k < at'.i <=> (k < i \/ k = i)
      \/ at'.step = "done" /\ i = 6
  BY <1>1, AfterIs, Positions
<1>6. at' \in Position
  BY <1>1, AfterIs, Positions
<1>7. DashboardTypes'
  BY <1>1, <1>3, <1>4, <1>6 DEF DashboardInv, DashboardTypes, MayHold
<1>8. \A g \in File : HasRead(g)' /\ FromHeld(g)'
  BY <1>1, <1>2 DEF DashboardInv, FramesInv, HasRead, FromHeld
<1>9. FramesInv'
  BY <1>5, <1>8, OrdersCover DEF FramesInv
<1>10. \A p \in Panel : Pictures(p, shown[p])' <=> Pictures(p, shown'[p])
  BY <1>1 DEF Pictures, Merged, SeverePrimary, SevereContext, Selected
<1>11. \A p \in Panel : IF shown'[p].drawn THEN Pictures(p, shown[p])'
                                           ELSE p # "summary" => shown'[p].cells = {}
  BY <1>3, <1>4, <1>10 DEF DashboardInv, PanelsInv
<1>12. \A k \in 1 .. 6 : k < i \/ k = i => shown'[DrawOrder[k]].drawn
  <2>1. \A k \in 1 .. 6 : k < i => shown[DrawOrder[k]].drawn
    BY <1>2 DEF DashboardInv, PanelsInv
  <2>2. \A k \in 1 .. 6 : shown[DrawOrder[k]].drawn => shown'[DrawOrder[k]].drawn
    BY <1>3, <1>4, OrdersCover
  <2>3. shown'[DrawOrder[i]].drawn
    BY <1>3, <1>4 DEF p0
  <2> QED BY <2>1, <2>2, <2>3
<1>13. \A j, k \in 1 .. 6 : k <= j /\ shown'[DrawOrder[j]].drawn => shown'[DrawOrder[k]].drawn
  <2> SUFFICES ASSUME NEW j \in 1 .. 6, NEW k \in 1 .. 6, k <= j, shown'[DrawOrder[j]].drawn
               PROVE  shown'[DrawOrder[k]].drawn
    OBVIOUS
  <2>1. CASE DrawOrder[j] = p0
    <3>1. j = i
      BY <2>1, OrdersDiffer DEF p0
    <3> QED BY <1>12, <3>1
  <2>2. CASE DrawOrder[j] # p0
    <3>1. shown[DrawOrder[j]].drawn
      BY <1>4, <2>2, OrdersCover
    <3>2. shown[DrawOrder[k]].drawn
      BY <3>1 DEF DashboardInv, PanelsInv
    <3> QED BY <1>3, <1>4, <3>2, OrdersCover
  <2> QED BY <2>1, <2>2
<1>14. PanelsInv'
  <2>1. i = 6 => \A k \in 1 .. 6 : k < i \/ k = i
    OBVIOUS
  <2>2. at'.step = "done" => \A k \in 1 .. 6 : shown'[DrawOrder[k]].drawn
    BY <1>5, <1>12, <2>1
  <2>3. ASSUME NEW k \in 1 .. 6, ~ (k < i \/ k = i) PROVE ~ shown'[DrawOrder[k]].drawn
    <3>1. DrawOrder[k] \in Panel \ {p0}
      BY <2>3, OrdersCover, OrdersDiffer DEF p0
    <3>2. ~ shown[DrawOrder[k]].drawn
      BY <1>2, <2>3 DEF DashboardInv, PanelsInv
    <3> QED BY <1>4, <3>1, <3>2
  <2>4. at'.step = "draw" => at'.i > 0 /\ \A k \in 1 .. 6 : k < at'.i <=> shown'[DrawOrder[k]].drawn
    BY <1>5, <1>12, <2>3
  <2> QED BY <1>5, <1>8, <1>11, <1>13, <2>2, <2>4 DEF PanelsInv
<1> QED BY <1>7, <1>9, <1>14 DEF DashboardInv

(* What a panel had drawn when it raised. *)
LEMMA RaiseKeepsDashboard ==
  ASSUME DashboardInv, NEW i \in 1 .. 6, at = In("draw", i), NEW heading, NEW cells,
         Raises(i, heading, cells), i # 1 => cells = {}
  PROVE  DashboardInv'
<1> DEFINE panel == [drawn |-> FALSE, heading |-> heading, cells |-> cells]
           p0 == DrawOrder[i]
<1>1. shown' = [shown EXCEPT ![p0] = panel] /\ UNCHANGED <<disk, read, copies, held>>
  BY DEF Raises
<1>2. at' \in Position /\ at'.step = "failed" /\ p0 \in Panel /\ (i # 1 => p0 # "summary")
  BY Positions, OrdersCover, OrdersDiffer DEF Raises
<1>3. panel.drawn = FALSE /\ panel.cells = cells /\ DOMAIN panel = {"drawn", "heading", "cells"}
  OBVIOUS
<1> HIDE DEF panel
<1>4. DOMAIN shown' = Panel /\ shown'[p0] = panel /\ \A p \in Panel \ {p0} : shown'[p] = shown[p]
  BY <1>1, <1>2 DEF DashboardInv, DashboardTypes
<1>5. DashboardTypes'
  BY <1>1, <1>2, <1>3, <1>4 DEF DashboardInv, DashboardTypes, MayHold
<1>6. FramesInv'
  BY <1>2 DEF FramesInv
<1>7. \A p \in Panel : Pictures(p, shown[p])' <=> Pictures(p, shown'[p])
  BY <1>1 DEF Pictures, Merged, SeverePrimary, SevereContext, Selected
<1>8. \A p \in Panel : IF shown'[p].drawn THEN Pictures(p, shown[p])'
                                          ELSE p # "summary" => shown'[p].cells = {}
  <2>1. ASSUME NEW p \in Panel \ {p0}
        PROVE  IF shown'[p].drawn THEN Pictures(p, shown[p])' ELSE p # "summary" => shown'[p].cells = {}
    BY <1>4, <1>7 DEF DashboardInv, PanelsInv
  <2>2. ~ shown'[p0].drawn /\ (p0 # "summary" => shown'[p0].cells = {})
    BY <1>2, <1>3, <1>4, OrdersCover
  <2> QED BY <2>1, <2>2
<1>9. \A p \in Panel : shown'[p].drawn => p # p0 /\ shown[p].drawn
  BY <1>3, <1>4
<1>10. \A j, k \in 1 .. 6 : k <= j /\ shown'[DrawOrder[j]].drawn => shown'[DrawOrder[k]].drawn
  <2> SUFFICES ASSUME NEW j \in 1 .. 6, NEW k \in 1 .. 6, k <= j, shown'[DrawOrder[j]].drawn
               PROVE  shown'[DrawOrder[k]].drawn
    OBVIOUS
  <2>1. shown[DrawOrder[j]].drawn /\ j # i
    BY <1>9, OrdersCover
  <2>2. shown[DrawOrder[k]].drawn
    BY <2>1 DEF DashboardInv, PanelsInv
  <2>3. k # i
    BY <2>2, Positions DEF DashboardInv, PanelsInv
  <2> QED BY <1>4, <2>2, <2>3, OrdersCover, OrdersDiffer
<1>11. (\E p \in Panel : shown'[p].drawn) => \A f \in File : HasRead(f)' /\ FromHeld(f)'
  BY <1>1, <1>9 DEF DashboardInv, PanelsInv, HasRead, FromHeld
<1>12. PanelsInv'
  BY <1>2, <1>8, <1>10, <1>11 DEF PanelsInv
<1> QED BY <1>5, <1>6, <1>12 DEF DashboardInv

LEMMA DashboardSteps == DashboardInv /\ [DashboardNext]_dashboard => DashboardInv'
<1> SUFFICES ASSUME DashboardInv, [DashboardNext]_dashboard PROVE DashboardInv'
  OBVIOUS
<1>1. CASE UNCHANGED dashboard
  BY <1>1 DEF dashboard, DashboardInv, DashboardTypes, MayHold, FramesInv, PanelsInv, HasRead, FromHeld,
              Pictures, Merged, SeverePrimary, SevereContext, Selected
<1> DEFINE panel(heading, cells) == [drawn |-> TRUE, heading |-> heading, cells |-> cells]
<1>2. \A heading, cells : /\ panel(heading, cells).heading = heading
                          /\ panel(heading, cells).cells = cells
  OBVIOUS
<1> HIDE DEF panel
<1>3. ASSUME NEW i \in 1 .. 6, at = In("draw", i),
             \/ \E heading, cells : Raises(i, heading, cells) /\ (i # 1 => cells = {})
             \/ \E heading, cells : /\ Draws(i, heading, cells)
                                    /\ Pictures(DrawOrder[i], panel(heading, cells))
      PROVE  DashboardInv'
  BY <1>3, DrawKeepsDashboard, RaiseKeepsDashboard DEF panel
<1>4. 1 \in 1 .. 6 /\ 2 \in 1 .. 6 /\ 3 \in 1 .. 6 /\ 4 \in 1 .. 6 /\ 5 \in 1 .. 6 /\ 6 \in 1 .. 6
  OBVIOUS
<1>5. CASE DrawSummary
  <2>1. Pictures(DrawOrder[1], panel(<<>>, Figures(read["manifest"], EveryFigure)))
    BY <1>2, OrdersCover DEF Pictures
  <2> QED BY <1>3, <1>4, <1>5, <2>1 DEF DrawSummary
<1>6. CASE DrawPerformance
  <2>1. ASSUME NEW m \in Metric, Reshapes(read["final"])
        PROVE  Pictures(DrawOrder[2], panel(<<m>>, {Cell(r, m) : r \in read["final"]}))
    <3>1. DrawOrder[2] = "performance"
          /\ panel(<<m>>, {Cell(r, m) : r \in read["final"]}).cells = {Cell(r, m) : r \in read["final"]}
      BY <1>2, OrdersCover
    <3> QED BY <2>1, <3>1 DEF Pictures
  <2> QED BY <1>3, <1>4, <1>6, <2>1 DEF DrawPerformance
<1>7. CASE DrawDegradation
  <2>1. ASSUME NEW m \in Metric
        PROVE  Pictures(DrawOrder[3], panel(<<m>>, {Cell(r, m) : r \in {q \in read["robustness"] :
                                                                   PrimarySevere(q, m)}}))
    BY <1>2, <2>1, OrdersCover DEF Pictures
  <2> QED BY <1>3, <1>4, <1>7, <2>1 DEF DrawDegradation
<1>8. CASE DrawCost
  <2>1. ASSUME NEW column, Reshapes(read["efficiency"])
        PROVE  Pictures(DrawOrder[4], panel(<<column>>, {Cell(r, column) : r \in read["efficiency"]}))
    BY <1>2, <2>1, OrdersCover DEF Pictures
  <2> QED BY <1>3, <1>4, <1>8, <2>1 DEF DrawCost
<1>9. CASE DrawComparison
  <2>1. ASSUME NEW m \in Metric
        PROVE  Pictures(DrawOrder[5], panel(<<m>>, {Pair(x, m) : x \in Merged}))
    BY <1>2, <2>1, OrdersCover DEF Pictures
  <2>2. \E m \in Metric : Draws(5, <<m>>, {Pair(x, m) : x \in Merged})
    BY <1>9 DEF DrawComparison, Pair, Merged
  <2> QED BY <1>3, <1>4, <1>9, <2>1, <2>2 DEF DrawComparison
<1>10. CASE DrawBootstrap
  <2>1. ASSUME NEW m \in Metric, NEW s
        PROVE  Pictures(DrawOrder[6], panel(<<s, m>>, {Cell(r, m) : r \in Selected(s, m)}))
    <3> DEFINE drawn == panel(<<s, m>>, {Cell(r, m) : r \in Selected(s, m)})
    <3>1. /\ DrawOrder[6] = "bootstrap" /\ drawn.heading = <<s, m>>
          /\ drawn.cells = {Cell(r, m) : r \in Selected(s, m)}
      BY <1>2, OrdersCover
    <3> HIDE DEF drawn
    <3>2. \E n \in Metric : \E x : /\ drawn.heading = <<x, n>>
                                   /\ drawn.cells = {Cell(r, n) : r \in Selected(x, n)}
      BY <3>1
    <3>3. Pictures(DrawOrder[6], drawn)
      BY <3>1, <3>2 DEF Pictures
    <3> QED BY <3>3 DEF drawn
  <2>2. ASSUME NEW m, read["statistics"] = {} PROVE Pictures(DrawOrder[6], panel(<<m>>, {}))
    BY <1>2, <2>2, OrdersCover DEF Pictures
  <2>3. at = In("draw", 6)
    BY <1>10 DEF DrawBootstrap
  <2>4. \/ \E m \in Metric : \E s : Draws(6, <<s, m>>, {Cell(r, m) : r \in Selected(s, m)})
        \/ read["statistics"] = {} /\ \E m \in Metric : Draws(6, <<m>>, {})
    BY <1>10 DEF DrawBootstrap, Selected
  <2> QED BY <1>3, <1>4, <2>1, <2>2, <2>3, <2>4
<1> QED BY <1>1, <1>5, <1>6, <1>7, <1>8, <1>9, <1>10, OpenKeepsDashboard, LoadKeepsDashboard,
           ReplaceKeepsDashboard DEF DashboardNext

LEMMA DashboardInvHolds == DashboardSpec => []DashboardInv
BY DashboardStarts, DashboardSteps, PTL DEF DashboardSpec

LEMMA DashboardFollows == DashboardInv => DashboardTypeOK
BY DEF DashboardInv, DashboardTypes, DashboardTypeOK

LEMMA CellIs ==
  ASSUME NEW r, NEW column
  PROVE  /\ Cell(r, column).strategy = r.chunker /\ Cell(r, column).noise = r.noise
         /\ Cell(r, column).row = r
BY DEF Cell

LEMMA PairIs ==
  ASSUME NEW x \in Merged, NEW m
  PROVE  /\ Pair(x, m).strategy = x[1].chunker /\ x[1].chunker = x[2].chunker
         /\ Pair(x, m).primary = x[1] /\ Pair(x, m).context = x[2]
         /\ x[1] \in read["final"] /\ x[1].noise = Severe
         /\ x[2] \in read["sensitivity"] /\ x[2].noise = Severe
BY DEF Pair, Merged, SeverePrimary, SevereContext

LEMMA PanelsFollow == DashboardInv => PanelsAgree
<1> SUFFICES ASSUME DashboardInv PROVE PanelsAgree
  OBVIOUS
<1>1. ASSUME NEW i \in 1 .. 6, shown[DrawOrder[i]].drawn
      PROVE  /\ at.step # "load" /\ \A f \in File : read[f] # Unreadable
             /\ \A k \in 1 .. i : shown[DrawOrder[k]].drawn
  <2>1. \A k \in 1 .. i : k \in 1 .. 6 /\ k <= i
    OBVIOUS
  <2> QED BY <1>1, <2>1, OrdersCover DEF DashboardInv, PanelsInv, HasRead
<1>2. ASSUME NEW c \in shown["comparison"].cells
      PROVE  \E d \in shown["performance"].cells :
               d.row = c.primary /\ d.strategy = c.strategy /\ d.noise = Severe
  <2>1. shown["comparison"].drawn /\ Pictures("comparison", shown["comparison"])
    BY <1>2 DEF DashboardInv, PanelsInv, Panel
  <2>2. PICK m \in Metric : shown["comparison"].cells = {Pair(x, m) : x \in Merged}
    BY <2>1 DEF Pictures
  <2>3. PICK x \in Merged : c = Pair(x, m)
    BY <1>2, <2>2
  <2>4. shown["performance"].drawn
    <3>1. 2 \in 1 .. 6 /\ 5 \in 1 .. 6 /\ 2 <= 5
      OBVIOUS
    <3>2. DrawOrder[2] = "performance" /\ DrawOrder[5] = "comparison"
      BY OrdersCover
    <3> QED BY <2>1, <3>1, <3>2 DEF DashboardInv, PanelsInv
  <2>5. Pictures("performance", shown["performance"])
    BY <2>4 DEF DashboardInv, PanelsInv, Panel
  <2>6. PICK n \in Metric : shown["performance"].cells = {Cell(r, n) : r \in read["final"]}
    BY <2>5 DEF Pictures
  <2>7. /\ x[1] \in read["final"] /\ x[1].noise = Severe
        /\ c.primary = x[1] /\ c.strategy = x[1].chunker
    BY <2>3, PairIs
  <2>8. Cell(x[1], n) \in shown["performance"].cells
    BY <2>6, <2>7
  <2> QED BY <2>7, <2>8, CellIs
<1> QED BY <1>1, <1>2 DEF PanelsAgree

(* All panels rest on one reading of the six artifacts, and the comparison   *)
(* shows the scores of the performance table, whatever is copied meanwhile.  *)
THEOREM PanelsStayInAgreement == DashboardSpec => []PanelsAgree
BY DashboardInvHolds, PanelsFollow, PTL

(* The files behind a drawn panel. *)
LEMMA PictureOf ==
  ASSUME DashboardInv, NEW p \in Panel, shown[p].drawn
  PROVE  Pictures(p, shown[p]) /\ \A f \in File : FromHeld(f)
BY DEF DashboardInv, PanelsInv

LEMMA FrameIs ==
  /\ \A c : Frame("final", c) = {r \in c : r.set = "primary"}
  /\ \A f, c : f # "final" => Frame(f, c) = c
BY DEF Frame, PrimaryOnly

LEMMA ShownFollows == DashboardInv => ShownWasOnDisk
<1> SUFFICES ASSUME DashboardInv PROVE ShownWasOnDisk
  OBVIOUS
<1> DEFINE Present(f) == held[f] \ {Unreadable}
           Rows(p) == {c.row : c \in shown[p].cells}
<1>1. ASSUME shown["summary"].drawn
      PROVE  \E c \in Present("manifest") : shown["summary"].cells = Figures(c, EveryFigure)
  <2>1. Pictures("summary", shown["summary"]) /\ FromHeld("manifest")
    BY <1>1, PictureOf DEF Panel, File
  <2> QED BY <2>1, FrameIs DEF Pictures, FromHeld
<1>2. ASSUME shown["performance"].drawn
      PROVE  \E t \in Present("final") : Rows("performance") = {r \in t : r.set = "primary"}
  <2>1. Pictures("performance", shown["performance"]) /\ FromHeld("final")
    BY <1>2, PictureOf DEF Panel, File
  <2>2. PICK m \in Metric : shown["performance"].cells = {Cell(r, m) : r \in read["final"]}
    BY <2>1 DEF Pictures
  <2>3. Rows("performance") = read["final"]
    BY <2>2, CellIs
  <2> QED BY <2>1, <2>3, FrameIs DEF FromHeld
<1>3. ASSUME shown["degradation"].drawn
      PROVE  \E t \in Present("robustness") :
               Rows("degradation") = {r \in t : /\ r.set = "primary" /\ r.noise = Severe
                                                /\ <<r.metric>> = shown["degradation"].heading}
  <2>1. Pictures("degradation", shown["degradation"]) /\ FromHeld("robustness")
    BY <1>3, PictureOf DEF Panel, File
  <2>2. PICK m \in Metric :
          /\ shown["degradation"].heading = <<m>>
          /\ shown["degradation"].cells =
               {Cell(r, m) : r \in {q \in read["robustness"] : PrimarySevere(q, m)}}
    BY <2>1 DEF Pictures
  <2>3. Rows("degradation") = {q \in read["robustness"] : PrimarySevere(q, m)}
    BY <2>2, CellIs
  <2>4. PICK t \in Present("robustness") : read["robustness"] = t
    BY <2>1, FrameIs DEF FromHeld
  <2>5. \A r : PrimarySevere(r, m) <=> /\ r.set = "primary" /\ r.noise = Severe
                                      /\ <<r.metric>> = shown["degradation"].heading
    BY <2>2 DEF PrimarySevere
  <2> QED BY <2>3, <2>4, <2>5
<1>4. ASSUME shown["cost"].drawn
      PROVE  \E t \in Present("efficiency") : Rows("cost") = t
  <2>1. Pictures("cost", shown["cost"]) /\ FromHeld("efficiency")
    BY <1>4, PictureOf DEF Panel, File
  <2>2. PICK column : shown["cost"].cells = {Cell(r, column) : r \in read["efficiency"]}
    BY <2>1 DEF Pictures
  <2>3. Rows("cost") = read["efficiency"]
    BY <2>2, CellIs
  <2> QED BY <2>1, <2>3, FrameIs DEF FromHeld
<1>5. ASSUME shown["comparison"].drawn
      PROVE  \E t \in Present("final"), u \in Present("sensitivity") :
               {<<c.primary, c.context>> : c \in shown["comparison"].cells} =
                 {x \in t \X u : /\ x[1].set = "primary" /\ x[1].chunker = x[2].chunker
                                 /\ x[1].noise = Severe /\ x[2].noise = Severe}
  <2>1. Pictures("comparison", shown["comparison"]) /\ FromHeld("final") /\ FromHeld("sensitivity")
    BY <1>5, PictureOf DEF Panel, File
  <2>2. PICK m \in Metric : shown["comparison"].cells = {Pair(x, m) : x \in Merged}
    BY <2>1 DEF Pictures
  <2>3. \A x \in Merged : x = <<x[1], x[2]>>
    BY DEF Merged
  <2>4. {<<c.primary, c.context>> : c \in shown["comparison"].cells} = Merged
    BY <2>2, <2>3, PairIs
  <2>5. PICK t \in Present("final"), u \in Present("sensitivity") :
          read["final"] = {r \in t : r.set = "primary"} /\ read["sensitivity"] = u
    BY <2>1, FrameIs DEF FromHeld
  <2>6. Merged = {x \in t \X u : /\ x[1].set = "primary" /\ x[1].chunker = x[2].chunker
                                 /\ x[1].noise = Severe /\ x[2].noise = Severe}
    BY <2>5 DEF Merged, SeverePrimary, SevereContext
  <2> QED BY <2>4, <2>6
<1>6. ASSUME shown["bootstrap"].drawn
      PROVE  \E t \in Present("statistics") :
               Rows("bootstrap") = {r \in t : /\ r.set = "primary"
                                              /\ <<r.statistic, r.metric>> = shown["bootstrap"].heading}
  <2>1. Pictures("bootstrap", shown["bootstrap"]) /\ FromHeld("statistics")
    BY <1>6, PictureOf DEF Panel, File
  <2>2. PICK t \in Present("statistics") : read["statistics"] = t
    BY <2>1, FrameIs DEF FromHeld
  <2>3. CASE t = {} /\ shown["bootstrap"].cells = {}
    BY <2>3
  <2>4. CASE \E m \in Metric : \E s : /\ shown["bootstrap"].heading = <<s, m>>
                                      /\ shown["bootstrap"].cells = {Cell(r, m) : r \in Selected(s, m)}
    <3>1. PICK m \in Metric : \E s : /\ shown["bootstrap"].heading = <<s, m>>
                                      /\ shown["bootstrap"].cells = {Cell(r, m) : r \in Selected(s, m)}
      BY <2>4
    <3>2. PICK s : /\ shown["bootstrap"].heading = <<s, m>>
                   /\ shown["bootstrap"].cells = {Cell(r, m) : r \in Selected(s, m)}
      BY <3>1
    <3>3. Rows("bootstrap") = Selected(s, m)
      BY <3>2, CellIs
    <3>4. \A r : <<r.statistic, r.metric>> = <<s, m>> <=> r.statistic = s /\ r.metric = m
      OBVIOUS
    <3>5. Selected(s, m) = {r \in t : r.set = "primary" /\ <<r.statistic, r.metric>> = <<s, m>>}
      BY <2>2, <3>4 DEF Selected
    <3> QED BY <3>2, <3>3, <3>5
  <2> QED BY <2>1, <2>2, <2>3, <2>4 DEF Pictures
<1> QED BY <1>1, <1>2, <1>3, <1>4, <1>5, <1>6 DEF ShownWasOnDisk

(* A panel is the picture of one edition of each file it is drawn from, one  *)
(* that was in place since its run began, for any tables, any number of      *)
(* replacements between any two steps of the script, and on pages that end   *)
(* in an error.                                                              *)
THEOREM ShownStaysOnDisk == DashboardSpec => []ShownWasOnDisk
BY DashboardInvHolds, ShownFollows, PTL

-----------------------------------------------------------------------------
(* The application *)

(* A session is on one page, which moves as it would alone, and the others   *)
(* rest: the application behaves as each of its pages does.                  *)
LEMMA ApplicationIsItsPages == Spec => PageSpec /\ WorkspaceSpec /\ DashboardSpec
<1>1. Init => PageInit /\ WorkspaceInit /\ DashboardInit
  BY DEF Init
<1>2. [Next]_pages => /\ [PageNext]_<<ledger, view, page>> /\ [WorkspaceNext]_workspace
                      /\ [DashboardNext]_dashboard
  BY DEF Next, pages, evaluation
<1> QED BY <1>1, <1>2, PTL DEF Spec, PageSpec, WorkspaceSpec, DashboardSpec

LEMMA ViewFollows == ViewInv => ViewTypeOK
<1> SUFFICES ASSUME ViewInv PROVE ViewTypeOK
  OBVIOUS
<1>1. /\ outcome \in [LedgerTask -> {"none", "waiting", "trying"} \cup Decided]
      /\ tries \in [LedgerTask -> 0..MaxAttempts]
      /\ verdict \in [Job -> {"ABSENT", "PENDING", "RUNNING", "COMPLETED", "FAILED", "CANCELLED"}]
  BY DEF ViewInv, LedgerInv, Outcome, Verdict
<1>2. ASSUME NEW r \in Reader
      PROVE  view[r].phase \in {"idle", "job"}
             /\ view[r].answer.results \subseteq Members(view[r].job, outcome)
  <2>1. view[r].phase \in {"idle", "job"}
        /\ (view[r].answer = NoAnswer \/ AnswerHolds(view[r].job, view[r].answer))
    BY DEF ViewInv, ReaderInv
  <2> QED BY <2>1 DEF NoAnswer, AnswerHolds, Done
<1> QED BY <1>1, <1>2 DEF ViewTypeOK

(* Whatever page is open, the ledger, the answers and the state of every     *)
(* page are in range.                                                        *)
THEOREM ApplicationTypeCorrect == Spec => []TypeOK
<1>1. PageInv => ViewTypeOK /\ PageTypeOK
  BY ViewFollows, PageFollows DEF PageInv
<1> QED BY <1>1, ApplicationIsItsPages, PageInvHolds, WorkspaceTypeCorrect, DashboardInvHolds,
        DashboardFollows, PTL DEF TypeOK

(* What the evaluation page and the dashboard promise they keep in the       *)
(* application.                                                              *)
THEOREM ApplicationKeepsPromises ==
  Spec => /\ [](AnswersAreFinal /\ PageIsHonest /\ FinalViewsAgree)
          /\ [](PanelsAgree /\ ShownWasOnDisk)
BY ApplicationIsItsPages, PageInvHolds, PageFollows, DashboardInvHolds, PanelsFollow, ShownFollows, PTL

(* So do the live pages, if the user waits for long calls.                   *)
THEOREM ApplicationEvidenceMatched == ASSUME Impatient = FALSE PROVE Spec => []EvidenceBelongs
BY ApplicationIsItsPages, EvidenceStaysMatched, PTL

=============================================================================
