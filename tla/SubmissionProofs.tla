--------------------------- MODULE SubmissionProofs ---------------------------
(***************************************************************************)
(* Proofs about Submission for any form, any versions of the inputs and    *)
(* any number of lost answers, restarts and changes of the inputs.         *)
(***************************************************************************)
EXTENDS Submission, FiniteSetTheorems, TLAPS

(* The requests the API has been sent or may be sent again: each stands for a key. *)
Work(key, spec) == [key |-> key, spec |-> spec]
Admitted == {Work(jobs[n].key, jobs[n].spec) : n \in 1 .. Len(jobs)}
Asked == {Work(r.key, r.spec) : r \in flight} \cup Admitted
                \cup (IF Pending THEN {Work(session.key, session.spec)} ELSE {})
KeysFor(s) == {x.key : x \in {y \in Asked : y.spec = s}}

Reply == {"job", "conflict", "full", "unavailable"}
Call == [at : {"idle", "waiting", "answered"}, key : 0 .. MaxKeys, spec : Form \cup {NoSpec},
         reply : Reply \cup {"none"}, job : Nat]

Types ==
  /\ TypeOK /\ call \in Call
  /\ wanted \in [Form -> Nat] /\ owed \subseteq Form /\ edits \in Nat

(* The call is for what the session says, and a job it was answered with is for it. *)
CallInv ==
  /\ call.at # "answered" => call.reply = "none"
  /\ call.at # "idle" => Pending /\ call.key = session.key /\ call.spec = session.spec
  /\ call.reply = "job" => /\ call.job \in 1 .. Len(jobs)
                           /\ jobs[call.job].key = call.key /\ jobs[call.job].spec = call.spec

(* A key stands for one spec, in flight, in the table and in the session. *)
KeysInv ==
  /\ \A x \in Asked : x.key \in 1 .. session.key
  /\ \A x, y \in Asked : x.key = y.key => x = y

(* Until the inputs change, the process, the table and the files agree on them. *)
InputsInv ==
  edits = 0 => /\ cached \in {NotCached, inputs} /\ inputs # Unreadable
               /\ \A n \in 1 .. Len(jobs) : jobs[n].fingerprint = inputs
               /\ call.reply # "conflict"

SubmissionInv == Types /\ CallInv /\ KeysInv /\ InputsInv

(* Where the form waits for its answer: no more keys for a spec than pieces of work. *)
WantedInv ==
  /\ Pending => form = session.spec
  /\ owed = {session.spec} \ {NoSpec}
  /\ \A s \in Form : Cardinality(KeysFor(s)) <= wanted[s]

-----------------------------------------------------------------------------
(* What the operators give *)

LEMMA Requests ==
  ASSUME NEW k, NEW s
  PROVE  /\ Work(k, s).key = k /\ Work(k, s).spec = s
         /\ \A r : (\E l, t : r = Work(l, t)) => r = Work(r.key, r.spec)
BY DEF Work

LEMMA Rows ==
  ASSUME Types, NEW n \in 1 .. Len(jobs)
  PROVE  /\ jobs[n] \in JobRow /\ jobs[n].key \in Key /\ jobs[n].spec \in Form
         /\ jobs[n].fingerprint \in Version /\ jobs[n].fingerprint # Unreadable
         /\ Work(jobs[n].key, jobs[n].spec) \in Asked
<1>1. jobs[n] \in JobRow
  BY DEF Types, TypeOK
<1> QED
  BY <1>1 DEF JobRow, Asked, Admitted

LEMMA InFlight ==
  ASSUME Types, NEW r \in flight
  PROVE  r.key \in Key /\ r.spec \in Form /\ Work(r.key, r.spec) \in Asked
BY DEF Types, TypeOK, Asked

(* Requests that go take no key with them. *)
LEMMA FewerAsked ==
  ASSUME KeysInv, Asked' \subseteq Asked, session'.key = session.key
  PROVE  KeysInv'
BY DEF KeysInv

LEMMA KeysAreFinite ==
  ASSUME SubmissionInv, NEW s \in Form
  PROVE  IsFiniteSet(KeysFor(s)) /\ Cardinality(KeysFor(s)) \in Nat /\ KeysFor(s) \subseteq 1 .. session.key
<1>1. session.key \in Nat
  BY SubmissionAssumption DEF SubmissionInv, Types, TypeOK
<1>2. KeysFor(s) \subseteq 1 .. session.key
  BY DEF KeysFor, SubmissionInv, KeysInv
<1>3. IsFiniteSet(1 .. session.key)
  BY <1>1, FS_Interval
<1> QED
  BY <1>2, <1>3, FS_Subset, FS_CardinalityType

(* A step that asks for nothing new and is not to be told less of it. *)
LEMMA FewerWanted ==
  ASSUME SubmissionInv, WantedInv, Asked' \subseteq Asked, wanted' = wanted
  PROVE  \A s \in Form : Cardinality(KeysFor(s)') <= wanted'[s]
<1> SUFFICES ASSUME NEW s \in Form PROVE Cardinality(KeysFor(s)') <= wanted'[s]
  OBVIOUS
<1>1. KeysFor(s)' \subseteq KeysFor(s)
  BY DEF KeysFor
<1>2. IsFiniteSet(KeysFor(s)) /\ Cardinality(KeysFor(s)) \in Nat
  BY KeysAreFinite
<1>3. Cardinality(KeysFor(s)') <= Cardinality(KeysFor(s)) /\ Cardinality(KeysFor(s)') \in Nat
  BY <1>1, <1>2, FS_Subset, FS_CardinalityType
<1>4. Cardinality(KeysFor(s)) <= wanted[s] /\ wanted[s] \in Nat
  BY DEF WantedInv, SubmissionInv, Types
<1> QED
  BY <1>2, <1>3, <1>4

-----------------------------------------------------------------------------
(* The initial states *)

LEMMA SubmissionStarts == Init => SubmissionInv /\ WantedInv
<1> SUFFICES ASSUME Init PROVE SubmissionInv /\ WantedInv
  OBVIOUS
<1> USE SubmissionAssumption
<1>1. Asked = {} /\ ~ Pending
  BY DEF Init, Asked, Admitted, Pending
<1>2. Types
  <2>1. TypeOK
    BY DEF Init, TypeOK, Idle, JobRow
  <2>2. call \in Call
    BY DEF Init, Idle, Call
  <2> QED
    BY <2>1, <2>2 DEF Init, Types
<1>3. CallInv
  BY DEF Init, CallInv, Idle
<1>4. KeysInv
  BY <1>1 DEF KeysInv
<1>5. InputsInv
  BY DEF Init, InputsInv, Idle
<1>6. WantedInv
  <2>1. \A s \in Form : KeysFor(s) = {}
    BY <1>1 DEF KeysFor
  <2>2. Cardinality({}) = 0
    BY FS_EmptySet
  <2>3. \A s \in Form : Cardinality(KeysFor(s)) <= wanted[s]
    <3> SUFFICES ASSUME NEW s \in Form PROVE Cardinality(KeysFor(s)) <= wanted[s]
      OBVIOUS
    <3>1. Cardinality(KeysFor(s)) = 0
      BY <2>1, <2>2
    <3>2. wanted[s] = 0
      BY DEF Init
    <3> QED
      BY <3>1, <3>2
  <2> QED
    BY <1>1, <2>3 DEF Init, WantedInv, Pending
<1> QED
  BY <1>2, <1>3, <1>4, <1>5, <1>6 DEF SubmissionInv

-----------------------------------------------------------------------------
(* The page's steps *)

LEMMA AskedIsNotMore ==
  ASSUME jobs' = jobs, flight' \subseteq flight,
         Pending' => Pending /\ session'.key = session.key /\ session'.spec = session.spec
  PROVE  Asked' \subseteq Asked
BY DEF Asked, Admitted

LEMMA EditFormHolds == ASSUME SubmissionInv, EditForm PROVE SubmissionInv'
<1>1. Asked' \subseteq Asked
  BY AskedIsNotMore DEF EditForm, Pending
<1>2. Types'
  BY DEF SubmissionInv, Types, TypeOK, EditForm
<1>3. CallInv' /\ InputsInv'
  BY DEF SubmissionInv, CallInv, InputsInv, EditForm, Pending
<1>4. KeysInv'
  BY <1>1, FewerAsked DEF SubmissionInv, EditForm
<1> QED
  BY <1>2, <1>3, <1>4 DEF SubmissionInv

(* A press takes the key of the unanswered request, or one that nobody has. *)
Pressed(key) ==
  /\ call.at = "idle" /\ form \in Form
  /\ session'.key = key /\ session'.spec = form /\ session'.job = session.job
  /\ session' \in [key : 0 .. MaxKeys, spec : Form \cup {NoSpec}, job : Nat]
  /\ call' \in Call /\ call'.at = "waiting" /\ call'.reply = "none"
  /\ call'.key = key /\ call'.spec = form
  /\ flight' = flight \cup {Request(key, form)}
  /\ Asked' \subseteq Asked \cup {Work(key, form)}
  /\ \/ session.spec = form /\ Pending /\ key = session.key /\ Work(key, form) \in Asked
     \/ session.spec # form /\ key = session.key + 1

LEMMA PressAsks ==
  ASSUME SubmissionInv, Press
  PROVE  \E key \in Key : Pressed(key)
<1> DEFINE key == IF NeedsKey(form) THEN session.key + 1 ELSE session.key
<1>1. /\ call.at = "idle" /\ key \in Key
      /\ session' = [session EXCEPT !.key = key, !.spec = form]
      /\ call' = [Idle EXCEPT !.at = "waiting", !.key = key, !.spec = form]
      /\ flight' = flight \cup {Request(key, form)} /\ jobs' = jobs /\ form' = form
  BY DEF Press
<1>2. form \in Form /\ session \in [key : 0 .. MaxKeys, spec : Form \cup {NoSpec}, job : Nat]
  BY DEF SubmissionInv, Types, TypeOK
<1>3. session.spec = form => Pending /\ key = session.key
  BY <1>2, SubmissionAssumption DEF Pending, NeedsKey
<1>4. session.spec # form => key = session.key + 1
  BY DEF NeedsKey
<1> HIDE DEF key
<1>5. key \in 0 .. MaxKeys
  BY <1>1, SubmissionAssumption DEF Key
<1>6. /\ session'.key = key /\ session'.spec = form /\ session'.job = session.job
      /\ session' \in [key : 0 .. MaxKeys, spec : Form \cup {NoSpec}, job : Nat]
  BY <1>1, <1>2, <1>5
<1>7. /\ call' \in Call /\ call'.at = "waiting" /\ call'.reply = "none"
      /\ call'.key = key /\ call'.spec = form
  BY <1>1, <1>2, <1>5 DEF Idle, Call
<1>8. Request(key, form).key = key /\ Request(key, form).spec = form
  BY DEF Request
<1>9. Asked' \subseteq Asked \cup {Work(key, form)}
  BY <1>1, <1>6, <1>8 DEF Asked, Admitted
<1>10. session.spec = form => Work(key, form) \in Asked
  BY <1>3 DEF Asked
<1>11. \/ session.spec = form /\ Pending /\ key = session.key /\ Work(key, form) \in Asked
       \/ session.spec # form /\ key = session.key + 1
  BY <1>3, <1>4, <1>10
<1> QED
  BY <1>1, <1>2, <1>6, <1>7, <1>9, <1>11 DEF Pressed

LEMMA PressHolds == ASSUME SubmissionInv, Press PROVE SubmissionInv'
<1>1. PICK key \in Key : Pressed(key)
  BY PressAsks
<1> USE DEF Pressed
<1>2. /\ form' = form /\ jobs' = jobs /\ inputs' = inputs /\ cached' = cached /\ edits' = edits
      /\ failures' = failures
      /\ wanted' = [wanted EXCEPT ![form] = IF form \in owed THEN @ ELSE @ + 1]
      /\ owed' = owed \cup {form}
  BY DEF Press
<1>3. Types'
  <2>1. flight' \subseteq [key : Key, spec : Form, sent : Nat]
    BY <1>1 DEF SubmissionInv, Types, TypeOK, Request
  <2>2. wanted' \in [Form -> Nat] /\ owed' \subseteq Form
    BY <1>1, <1>2 DEF SubmissionInv, Types
  <2>3. call'.at \in {"idle", "waiting", "answered"}
    BY <1>1
  <2>4. TypeOK'
    BY <1>1, <1>2, <2>1, <2>3 DEF SubmissionInv, Types, TypeOK
  <2> QED
    BY <1>1, <1>2, <2>2, <2>4 DEF SubmissionInv, Types
<1>4. CallInv'
  BY <1>1, SubmissionAssumption DEF CallInv, Pending
<1>5. InputsInv'
  BY <1>1, <1>2 DEF SubmissionInv, InputsInv
<1>6. KeysInv'
  <2>1. session.key \in Nat /\ key \in 1 .. key
    BY <1>1, SubmissionAssumption DEF SubmissionInv, Types, TypeOK, Key
  <2>2. \A x \in Asked : x.key \in 1 .. session.key
    BY DEF SubmissionInv, KeysInv
  <2>3. Work(key, form).key = key
    BY Requests
  <2>4. CASE key = session.key /\ Work(key, form) \in Asked
    <3>1. Asked' \subseteq Asked
      BY <1>1, <2>4
    <3> QED
      BY <1>1, <2>4, <3>1, FewerAsked DEF SubmissionInv
  <2>5. CASE key = session.key + 1
    <3>1. \A x \in Asked : x.key \in 1 .. key /\ x.key # key
      BY <2>1, <2>2, <2>5
    <3>2. \A x \in Asked' : x.key \in 1 .. session'.key
      BY <1>1, <2>1, <2>3, <3>1
    <3>3. \A x, y \in Asked' : x.key = y.key => x = y
      BY <1>1, <2>3, <3>1 DEF SubmissionInv, KeysInv
    <3> QED
      BY <3>2, <3>3 DEF KeysInv
  <2> QED
    BY <1>1, <2>4, <2>5
<1> QED
  BY <1>3, <1>4, <1>5, <1>6 DEF SubmissionInv

(* Told of a job, the page forgets what it asked. *)
LEMMA GetAnswerHolds == ASSUME SubmissionInv, GetAnswer PROVE SubmissionInv'
<1>1. /\ UNCHANGED <<form, flight, jobs, inputs, cached, wanted, failures, edits>>
      /\ call' = Idle /\ call.at = "answered"
      /\ \/ call.reply = "job" /\ session' = Accepted(call.job) /\ owed' = owed \ {call.spec}
         \/ call.reply # "job" /\ UNCHANGED <<session, owed>>
  BY DEF GetAnswer
<1>2. /\ session \in [key : 0 .. MaxKeys, spec : Form \cup {NoSpec}, job : Nat]
      /\ session.job \in 0 .. Len(jobs) /\ jobs \in Seq(JobRow)
  BY DEF SubmissionInv, Types, TypeOK
<1>3. /\ session' \in [key : 0 .. MaxKeys, spec : Form \cup {NoSpec}, job : Nat]
      /\ session'.job \in 0 .. Len(jobs) /\ session'.key = session.key
      /\ session'.spec = session.spec \/ session'.spec = NoSpec
  <2>1. CASE call.reply = "job"
    <3>1. call.job \in 1 .. Len(jobs)
      BY <2>1 DEF SubmissionInv, CallInv
    <3>2. session' = [session EXCEPT !.job = call.job, !.spec = NoSpec]
      BY <1>1, <2>1 DEF Accepted
    <3>3. call.job \in Nat
      BY DEF SubmissionInv, Types, Call
    <3>4. session' \in [key : 0 .. MaxKeys, spec : Form \cup {NoSpec}, job : Nat]
      BY <1>2, <3>2, <3>3
    <3>5. session'.job = call.job /\ session'.key = session.key /\ session'.spec = NoSpec
      BY <1>2, <3>2
    <3>6. session'.job \in 0 .. Len(jobs)
      BY <1>2, <3>1, <3>3, <3>5
    <3> QED
      BY <3>4, <3>5, <3>6
  <2>2. CASE call.reply # "job"
    BY <1>1, <1>2, <2>2
  <2> QED
    BY <2>1, <2>2
<1>4. Asked' \subseteq Asked
  BY <1>1, <1>3, AskedIsNotMore DEF Pending
<1>5. Types'
  <2>1. call' \in Call /\ call'.at = "idle"
    BY <1>1, SubmissionAssumption DEF Idle, Call
  <2>2. owed' \subseteq Form
    BY <1>1 DEF SubmissionInv, Types
  <2>3. TypeOK'
    BY <1>1, <1>3, <2>1 DEF SubmissionInv, Types, TypeOK
  <2> QED
    BY <1>1, <2>1, <2>2, <2>3 DEF SubmissionInv, Types
<1>6. CallInv' /\ InputsInv'
  BY <1>1 DEF SubmissionInv, CallInv, InputsInv, Idle
<1>7. KeysInv'
  BY <1>3, <1>4, FewerAsked DEF SubmissionInv
<1> QED
  BY <1>5, <1>6, <1>7 DEF SubmissionInv

(* The page stops waiting, whatever becomes of its request. *)
LEMMA GiveUpHolds == ASSUME SubmissionInv, GiveUp PROVE SubmissionInv'
<1>1. /\ UNCHANGED <<form, session, flight, jobs, inputs, cached, wanted, owed, edits>>
      /\ call' = Idle /\ failures' = failures + 1
  BY DEF GiveUp
<1>2. call' \in Call /\ call'.at = "idle" /\ call'.reply = "none"
  BY <1>1, SubmissionAssumption DEF Idle, Call
<1>3. Types'
  BY <1>1, <1>2 DEF SubmissionInv, Types, TypeOK
<1>4. CallInv' /\ InputsInv'
  BY <1>1, <1>2 DEF SubmissionInv, CallInv, InputsInv
<1>5. KeysInv'
  BY <1>1, FewerAsked, AskedIsNotMore DEF SubmissionInv, Pending
<1> QED
  BY <1>3, <1>4, <1>5 DEF SubmissionInv

-----------------------------------------------------------------------------
(* The steps of the API process *)

(* An answer reaches the page only while it waits for this very request. *)
LEMMA AnswerReaches ==
  ASSUME SubmissionInv, NEW r \in flight, NEW reply \in Reply, NEW n \in Nat, Answers(r, reply, n)
  PROVE  /\ call' \in Call
         /\ \/ call' = call
            \/ /\ call.at = "waiting" /\ call'.at = "answered"
               /\ call'.key = call.key /\ call'.spec = call.spec
               /\ r.key = call.key /\ r.spec = call.spec
               /\ call'.reply = reply /\ call'.job = n
<1>1. call \in Call
  BY DEF SubmissionInv, Types
<1>2. CASE call.at = "waiting" /\ Sent = r
  <2>1. call' = [call EXCEPT !.at = "answered", !.reply = reply, !.job = n]
    BY <1>2 DEF Answers
  <2>2. r.key = call.key /\ r.spec = call.spec
    BY <1>2 DEF Sent, Request
  <2> QED
    BY <1>1, <1>2, <2>1, <2>2 DEF Call
<1>3. CASE ~ (call.at = "waiting" /\ Sent = r)
  BY <1>1, <1>3 DEF Answers
<1> QED
  BY <1>2, <1>3

(* What a request does: refused with the table as it was, found there, or inserted. *)
LEMMA ExecuteCases ==
  ASSUME SubmissionInv, NEW r \in flight, Execute(r)
  PROVE  \E reply \in Reply, n \in Nat :
           /\ Answers(r, reply, n)
           /\ cached' \in {cached, Fingerprint} \ {Unreadable}
           /\ \/ UNCHANGED jobs /\ reply \in {"unavailable", "full"}
              \/ /\ UNCHANGED jobs /\ Fingerprint # Unreadable
                 /\ n \in 1 .. Len(jobs) /\ jobs[n].key = r.key
                 /\ reply = "job" => jobs[n].spec = r.spec
                 /\ reply # "job" => jobs[n].spec # r.spec \/ jobs[n].fingerprint # Fingerprint
              \/ /\ Len(jobs) < Capacity /\ Fingerprint # Unreadable
                 /\ \A m \in 1 .. Len(jobs) : jobs[m].key # r.key
                 /\ jobs' = Append(jobs, [key |-> r.key, spec |-> r.spec,
                                          fingerprint |-> Fingerprint])
                 /\ reply = "job" /\ n = Len(jobs) + 1
<1>1. cached # Unreadable /\ Len(jobs) \in Nat
  BY SubmissionAssumption DEF SubmissionInv, Types, TypeOK
<1>2. CASE Fingerprint = Unreadable
  <2>1. Answers(r, "unavailable", 0) /\ UNCHANGED <<jobs, cached>>
    BY <1>2 DEF Execute
  <2> QED
    BY <1>1, <2>1 DEF Reply
<1>3. CASE Fingerprint # Unreadable
  <2>1. cached' = Fingerprint /\ cached' \in {cached, Fingerprint} \ {Unreadable}
    BY <1>3 DEF Execute
  <2>2. CASE Existing(r) # {}
    <3> DEFINE n == CHOOSE k \in Existing(r) : TRUE
               reply == IF SameRequest(n, r, Fingerprint) THEN "job" ELSE "conflict"
    <3>1. Answers(r, reply, n) /\ UNCHANGED jobs
      BY <1>3, <2>2 DEF Execute
    <3>2. n \in Existing(r)
      BY <2>2
    <3>3. n \in 1 .. Len(jobs) /\ n \in Nat /\ jobs[n].key = r.key
      BY <1>1, <3>2 DEF Existing, ByKey
    <3>4. /\ reply = "job" => jobs[n].spec = r.spec
          /\ reply # "job" => jobs[n].spec # r.spec \/ jobs[n].fingerprint # Fingerprint
      BY DEF SameRequest
    <3>5. reply \in Reply
      BY DEF Reply
    <3> HIDE DEF n, reply
    <3> QED
      BY <1>3, <2>1, <3>1, <3>3, <3>4, <3>5
  <2>3. CASE Existing(r) = {} /\ Len(jobs) >= Capacity
    <3>1. Answers(r, "full", 0) /\ UNCHANGED jobs
      BY <1>3, <2>3 DEF Execute
    <3> QED
      BY <2>1, <3>1 DEF Reply
  <2>4. CASE Existing(r) = {} /\ ~ Len(jobs) >= Capacity
    <3>1. /\ Answers(r, "job", Len(jobs) + 1)
          /\ jobs' = Append(jobs, [key |-> r.key, spec |-> r.spec, fingerprint |-> Fingerprint])
      BY <1>3, <2>4 DEF Execute
    <3>2. Len(jobs) < Capacity /\ Len(jobs) + 1 \in Nat
      BY <1>1, <2>4, SubmissionAssumption
    <3>3. \A m \in 1 .. Len(jobs) : jobs[m].key # r.key
      BY <2>4 DEF Existing, ByKey
    <3> QED
      BY <1>3, <2>1, <3>1, <3>2, <3>3 DEF Reply
  <2> QED
    BY <2>2, <2>3, <2>4
<1> QED
  BY <1>2, <1>3

(* A row put at the end: the others stay, and no key is given away twice. *)
LEMMA Inserted ==
  ASSUME SubmissionInv, NEW r \in flight, NEW fp \in Version \ {Unreadable}, Len(jobs) < Capacity,
         jobs' = Append(jobs, [key |-> r.key, spec |-> r.spec, fingerprint |-> fp]),
         \A m \in 1 .. Len(jobs) : jobs[m].key # r.key
  PROVE  /\ jobs' \in Seq(JobRow) /\ Len(jobs') = Len(jobs) + 1 /\ Len(jobs') <= Capacity
         /\ Len(jobs) \in Nat
         /\ \A m \in 1 .. Len(jobs) : m \in 1 .. Len(jobs') /\ jobs'[m] = jobs[m]
         /\ LET last == Len(jobs) + 1
            IN /\ last \in 1 .. Len(jobs') /\ jobs'[last].key = r.key
               /\ jobs'[last].spec = r.spec /\ jobs'[last].fingerprint = fp
         /\ \A m \in 1 .. Len(jobs') : m \in 1 .. Len(jobs) \/ m = Len(jobs) + 1
         /\ \A m, n \in 1 .. Len(jobs') : jobs'[m].key = jobs'[n].key => m = n
<1> DEFINE row == [key |-> r.key, spec |-> r.spec, fingerprint |-> fp]
<1>1. row \in JobRow /\ row.key = r.key /\ row.spec = r.spec /\ row.fingerprint = fp
  BY InFlight DEF JobRow, SubmissionInv
<1>2. /\ jobs \in Seq(JobRow) /\ Len(jobs) \in Nat /\ Capacity \in Nat
      /\ \A m, n \in 1 .. Len(jobs) : jobs[m].key = jobs[n].key => m = n
  BY SubmissionAssumption DEF SubmissionInv, Types, TypeOK
<1>3. jobs' = Append(jobs, row)
  OBVIOUS
<1> HIDE DEF row
<1>4. /\ jobs' \in Seq(JobRow) /\ Len(jobs') = Len(jobs) + 1 /\ Len(jobs') <= Capacity
      /\ \A m \in 1 .. Len(jobs) : m \in 1 .. Len(jobs') /\ jobs'[m] = jobs[m]
      /\ jobs'[Len(jobs) + 1] = row /\ Len(jobs) + 1 \in 1 .. Len(jobs')
      /\ \A m \in 1 .. Len(jobs') : m \in 1 .. Len(jobs) \/ m = Len(jobs) + 1
  BY <1>1, <1>2, <1>3
<1>5. \A m, n \in 1 .. Len(jobs') : jobs'[m].key = jobs'[n].key => m = n
  BY <1>1, <1>2, <1>4
<1> QED
  BY <1>1, <1>2, <1>4, <1>5

LEMMA ExecuteAsksNoMore == ASSUME SubmissionInv, NEW r \in flight, Execute(r) PROVE Asked' \subseteq Asked
<1>1. UNCHANGED session /\ flight' \subseteq flight
  BY DEF Execute
<1>2. CASE UNCHANGED jobs
  BY <1>1, <1>2, AskedIsNotMore DEF Pending
<1>3. CASE ~ UNCHANGED jobs
  <2>1. /\ Len(jobs) < Capacity /\ Fingerprint # Unreadable
        /\ \A m \in 1 .. Len(jobs) : jobs[m].key # r.key
        /\ jobs' = Append(jobs, [key |-> r.key, spec |-> r.spec, fingerprint |-> Fingerprint])
    BY <1>3, ExecuteCases
  <2>2. Fingerprint \in Version \ {Unreadable}
    BY <2>1 DEF SubmissionInv, Types, TypeOK, Fingerprint
  <2>3. \A m \in 1 .. Len(jobs') :
          \/ m \in 1 .. Len(jobs) /\ jobs'[m] = jobs[m]
          \/ jobs'[m].key = r.key /\ jobs'[m].spec = r.spec
    BY <2>1, <2>2, Inserted
  <2>4. Work(r.key, r.spec) \in Asked
    BY InFlight DEF SubmissionInv
  <2>5. Admitted' \subseteq Admitted \cup {Work(r.key, r.spec)}
    BY <2>3, <2>4 DEF Admitted
  <2> QED
    BY <1>1, <2>4, <2>5 DEF Asked, Pending
<1> QED
  BY <1>2, <1>3

LEMMA ExecuteHolds == ASSUME SubmissionInv, NEW r \in flight, Execute(r) PROVE SubmissionInv'
<1>1. /\ UNCHANGED <<form, session, inputs, wanted, owed, failures, edits>>
      /\ flight' \subseteq flight
  BY DEF Execute
<1>2. PICK reply \in Reply, n \in Nat :
        /\ Answers(r, reply, n)
        /\ cached' \in {cached, Fingerprint} \ {Unreadable}
        /\ \/ UNCHANGED jobs /\ reply \in {"unavailable", "full"}
           \/ /\ UNCHANGED jobs /\ Fingerprint # Unreadable
              /\ n \in 1 .. Len(jobs) /\ jobs[n].key = r.key
              /\ reply = "job" => jobs[n].spec = r.spec
              /\ reply # "job" => jobs[n].spec # r.spec \/ jobs[n].fingerprint # Fingerprint
           \/ /\ Len(jobs) < Capacity /\ Fingerprint # Unreadable
              /\ \A m \in 1 .. Len(jobs) : jobs[m].key # r.key
              /\ jobs' = Append(jobs, [key |-> r.key, spec |-> r.spec,
                                       fingerprint |-> Fingerprint])
              /\ reply = "job" /\ n = Len(jobs) + 1
  BY ExecuteCases
<1>3. /\ call' \in Call
      /\ \/ call' = call
         \/ /\ call.at = "waiting" /\ call'.at = "answered"
            /\ call'.key = call.key /\ call'.spec = call.spec
            /\ r.key = call.key /\ r.spec = call.spec
            /\ call'.reply = reply /\ call'.job = n
  BY <1>2, AnswerReaches
<1>4. Fingerprint \in Version
  BY DEF SubmissionInv, Types, TypeOK, Fingerprint
\* the table: as it was, or one row longer
<1>5. /\ jobs' \in Seq(JobRow) /\ Len(jobs') <= Capacity
      /\ Len(jobs) \in Nat /\ Len(jobs') \in Nat /\ Len(jobs) <= Len(jobs')
      /\ \A l, m \in 1 .. Len(jobs') : jobs'[l].key = jobs'[m].key => l = m
      /\ \A m \in 1 .. Len(jobs) : m \in 1 .. Len(jobs') /\ jobs'[m] = jobs[m]
      /\ \A m \in 1 .. Len(jobs') :
            (m \in 1 .. Len(jobs) /\ jobs'[m] = jobs[m]) \/ jobs'[m].fingerprint = Fingerprint
      /\ reply = "job" => /\ n \in 1 .. Len(jobs')
                          /\ jobs'[n].key = r.key /\ jobs'[n].spec = r.spec
  <2>1. CASE UNCHANGED jobs
    BY <1>2, <2>1 DEF SubmissionInv, Types, TypeOK
  <2>2. CASE ~ UNCHANGED jobs
    <3>1. /\ Len(jobs) < Capacity /\ Fingerprint \in Version \ {Unreadable}
          /\ \A m \in 1 .. Len(jobs) : jobs[m].key # r.key
          /\ jobs' = Append(jobs, [key |-> r.key, spec |-> r.spec, fingerprint |-> Fingerprint])
          /\ n = Len(jobs) + 1
      BY <1>2, <1>4, <2>2
    <3> QED
      BY <3>1, Inserted
  <2> QED
    BY <2>1, <2>2
<1>6. Types'
  <2>1. flight' \subseteq [key : Key, spec : Form, sent : Nat]
    BY <1>1 DEF SubmissionInv, Types, TypeOK
  <2>2. cached' \in (Version \ {Unreadable}) \cup {NotCached}
    BY <1>2, <1>4 DEF SubmissionInv, Types, TypeOK
  <2>3. call'.at \in {"idle", "waiting", "answered"}
    BY <1>3 DEF Call
  <2>4. session'.job \in 0 .. Len(jobs')
    BY <1>1, <1>5 DEF SubmissionInv, Types, TypeOK
  <2>5. form' \in Form /\ inputs' \in Version /\ failures' \in Nat
        /\ session' \in [key : 0 .. MaxKeys, spec : Form \cup {NoSpec}, job : Nat]
    BY <1>1 DEF SubmissionInv, Types, TypeOK
  <2>6. TypeOK'
    BY <1>5, <2>1, <2>2, <2>3, <2>4, <2>5 DEF TypeOK
  <2> QED
    BY <1>1, <1>3, <2>6 DEF SubmissionInv, Types
<1>7. CallInv'
  <2>1. CASE call' = call
    BY <1>1, <1>5, <2>1 DEF SubmissionInv, CallInv, Pending
  <2>2. CASE call' # call
    BY <1>1, <1>3, <1>5, <2>2 DEF SubmissionInv, CallInv, Pending
  <2> QED
    BY <2>1, <2>2
<1>8. KeysInv'
  BY <1>1, ExecuteAsksNoMore, FewerAsked DEF SubmissionInv
<1>9. InputsInv'
  <2> SUFFICES ASSUME edits = 0
               PROVE  /\ cached' \in {NotCached, inputs} /\ inputs # Unreadable
                      /\ \A m \in 1 .. Len(jobs') : jobs'[m].fingerprint = inputs
                      /\ call'.reply # "conflict"
    BY <1>1 DEF InputsInv
  <2>1. /\ cached \in {NotCached, inputs} /\ inputs # Unreadable
        /\ \A m \in 1 .. Len(jobs) : jobs[m].fingerprint = inputs
        /\ call.reply # "conflict"
    BY DEF SubmissionInv, InputsInv
  <2>2. Fingerprint = inputs
    BY <2>1 DEF Fingerprint
  <2>3. \A m \in 1 .. Len(jobs) : jobs[m].key = r.key => jobs[m].spec = r.spec
    <3> SUFFICES ASSUME NEW m \in 1 .. Len(jobs), jobs[m].key = r.key PROVE jobs[m].spec = r.spec
      OBVIOUS
    <3>1. Work(jobs[m].key, jobs[m].spec) \in Asked /\ Work(r.key, r.spec) \in Asked
      BY Rows, InFlight DEF SubmissionInv
    <3>2. Work(jobs[m].key, jobs[m].spec) = Work(r.key, r.spec)
      BY <3>1, Requests DEF SubmissionInv, KeysInv
    <3> QED
      BY <3>2, Requests
  <2>4. reply # "conflict"
    BY <1>2, <2>1, <2>2, <2>3
  <2>5. call'.reply # "conflict"
    BY <1>3, <2>1, <2>4
  <2>6. \A m \in 1 .. Len(jobs') : jobs'[m].fingerprint = inputs
    BY <1>5, <2>1, <2>2
  <2> QED
    BY <1>2, <2>1, <2>2, <2>5, <2>6
<1> QED
  BY <1>6, <1>7, <1>8, <1>9 DEF SubmissionInv

LEMMA RestartHolds == ASSUME SubmissionInv, Restart PROVE SubmissionInv'
<1>1. /\ UNCHANGED <<form, session, jobs, inputs, wanted, owed, edits>> /\ failures' = failures + 1
      /\ flight' = {} /\ cached' = NotCached /\ (call' = Idle \/ call' = call)
  BY DEF Restart
<1>2. Idle \in Call /\ Idle.at = "idle" /\ Idle.reply = "none"
  BY SubmissionAssumption DEF Idle, Call
<1>3. Types'
  <2>1. call' \in Call /\ call'.at \in {"idle", "waiting", "answered"}
    BY <1>1, <1>2 DEF SubmissionInv, Types, TypeOK
  <2>2. TypeOK'
    BY <1>1, <2>1 DEF SubmissionInv, Types, TypeOK
  <2> QED
    BY <1>1, <2>1, <2>2 DEF SubmissionInv, Types
<1>4. CallInv' /\ InputsInv'
  <2>1. CASE call' = Idle
    BY <1>1, <1>2, <2>1 DEF SubmissionInv, CallInv, InputsInv
  <2>2. CASE call' = call
    BY <1>1, <2>2 DEF SubmissionInv, CallInv, InputsInv, Pending
  <2> QED
    BY <1>1, <2>1, <2>2
<1>5. KeysInv'
  BY <1>1, FewerAsked, AskedIsNotMore DEF SubmissionInv, Pending
<1> QED
  BY <1>3, <1>4, <1>5 DEF SubmissionInv

LEMMA EditInputsHolds == ASSUME SubmissionInv, EditInputs PROVE SubmissionInv'
<1>1. /\ UNCHANGED <<form, session, call, flight, jobs, cached, wanted, owed, failures>>
      /\ edits' = edits + 1 /\ inputs' \in Version
  BY DEF EditInputs
<1>2. Types'
  BY <1>1 DEF SubmissionInv, Types, TypeOK
<1>3. CallInv'
  BY <1>1 DEF SubmissionInv, CallInv, Pending
<1>4. InputsInv'
  BY <1>1 DEF SubmissionInv, Types, InputsInv
<1>5. KeysInv'
  BY <1>1, FewerAsked, AskedIsNotMore DEF SubmissionInv, Pending
<1> QED
  BY <1>2, <1>3, <1>4, <1>5 DEF SubmissionInv

-----------------------------------------------------------------------------
(* Every step *)

LEMMA SubmissionKept == SubmissionInv /\ [Next]_vars => SubmissionInv'
<1> SUFFICES ASSUME SubmissionInv, [Next]_vars PROVE SubmissionInv'
  OBVIOUS
<1>1. CASE UNCHANGED vars
  <2>1. Asked' = Asked
    BY <1>1 DEF vars, Asked, Admitted, Pending
  <2> QED
    BY <1>1, <2>1 DEF vars, SubmissionInv, Types, TypeOK, CallInv, KeysInv, InputsInv, Pending
<1> QED
  BY <1>1, EditFormHolds, PressHolds, GetAnswerHolds, GiveUpHolds, ExecuteHolds, RestartHolds,
     EditInputsHolds DEF Next

THEOREM SubmissionInvHolds == Spec => []SubmissionInv
BY SubmissionStarts, SubmissionKept, PTL DEF Spec

(* The session, the call, the table and the process stay in range, and a key is in the table *)
(* once, for any form and any inputs: the evaluation page, platform_client.py, api.py and    *)
(* the key column of the jobs table.                                                          *)
THEOREM SubmissionTypeCorrect == Spec => []TypeOK
<1>1. SubmissionInv => TypeOK
  BY DEF SubmissionInv, Types
<1> QED
  BY <1>1, SubmissionInvHolds, PTL

(* The job that the page remembers is the one stored under its key and spec: an answer to a  *)
(* request given up never reaches it.                                                         *)
THEOREM AcceptedJobIsAsked == Spec => AcceptedIsAsked
<1>1. SubmissionInv /\ [Next]_vars
        => [ session'.job # session.job =>
               jobs[session'.job].spec = session.spec /\ jobs[session'.job].key = session.key ]_vars
  <2> SUFFICES ASSUME SubmissionInv, Next, session'.job # session.job
               PROVE  /\ jobs[session'.job].spec = session.spec
                      /\ jobs[session'.job].key = session.key
    BY DEF vars
  <2>1. GetAnswer
    <3>1. CASE Press
      BY <3>1, PressAsks DEF Pressed
    <3> QED
      BY <3>1 DEF Next, EditForm, GiveUp, Execute, Restart, EditInputs
  <2>2. /\ call.at = "answered" /\ call.reply = "job"
        /\ session' = [session EXCEPT !.job = call.job, !.spec = NoSpec]
    BY <2>1 DEF GetAnswer, Accepted
  <2>3. session'.job = call.job
    BY <2>2 DEF SubmissionInv, Types, TypeOK
  <2> QED
    BY <2>2, <2>3 DEF SubmissionInv, CallInv
<1> QED
  BY <1>1, SubmissionInvHolds, PTL DEF Spec, AcceptedIsAsked

(* Whatever the user does with the form, no answer contradicts the stored request of the     *)
(* page's own key while the inputs stay as they are (api.py line 48 and the 409 of the store). *)
THEOREM NoConflictForOwnKey == Spec => [](edits = 0 => call.reply # "conflict")
<1>1. SubmissionInv => (edits = 0 => call.reply # "conflict")
  BY DEF SubmissionInv, InputsInv
<1> QED
  BY <1>1, SubmissionInvHolds, PTL

(* However the form is changed before an answer to it, the page never causes more jobs than  *)
(* it has made keys: a request given up and executed late finds or makes the one of its key.  *)
THEOREM OneJobPerKey == Spec => [](Len(jobs) <= session.key)
<1>1. SubmissionInv => Len(jobs) <= session.key
  <2> SUFFICES ASSUME SubmissionInv PROVE Len(jobs) <= session.key
    OBVIOUS
  <2> DEFINE key == [n \in 1 .. Len(jobs) |-> jobs[n].key]
  <2>1. Len(jobs) \in Nat /\ session.key \in Nat
    BY SubmissionAssumption DEF SubmissionInv, Types, TypeOK
  <2>2. ASSUME NEW n \in 1 .. Len(jobs) PROVE key[n] \in 1 .. session.key
    <3>1. Work(jobs[n].key, jobs[n].spec) \in Asked
      BY Rows DEF SubmissionInv
    <3> QED
      BY <3>1, Requests DEF SubmissionInv, KeysInv
  <2>3. \A m, n \in 1 .. Len(jobs) : key[m] = key[n] => m = n
    BY DEF SubmissionInv, Types, TypeOK
  <2>4. key \in Injection(1 .. Len(jobs), 1 .. session.key)
    BY <2>2, <2>3 DEF Injection, IsInjective
  <2>5. /\ IsFiniteSet(1 .. session.key) /\ Cardinality(1 .. session.key) = session.key
        /\ Cardinality(1 .. Len(jobs)) = Len(jobs)
    <3>1. \A n \in Nat : IsFiniteSet(1 .. n) /\ Cardinality(1 .. n) = n
      <4> SUFFICES ASSUME NEW n \in Nat PROVE IsFiniteSet(1 .. n) /\ Cardinality(1 .. n) = n
        OBVIOUS
      <4>1. IsFiniteSet(1 .. n) /\ Cardinality(1 .. n) = IF 1 > n THEN 0 ELSE n - 1 + 1
        BY FS_Interval
      <4> QED
        BY <4>1
    <3> QED
      BY <2>1, <3>1
  <2> QED
    BY <2>4, <2>5, FS_Injection
<1> QED
  BY <1>1, SubmissionInvHolds, PTL

-----------------------------------------------------------------------------
(* How often work is admitted, where the form is left alone until it is answered *)

(* A press for the first time: one more piece of work and one more key. *)
LEMMA PressWants ==
  ASSUME SubmissionInv, WantedInv, Press PROVE WantedInv'
<1>1. PICK key \in Key : Pressed(key)
  BY PressAsks
<1> USE DEF Pressed
<1>2. /\ form' = form
      /\ wanted' = [wanted EXCEPT ![form] = IF form \in owed THEN @ ELSE @ + 1]
      /\ owed' = owed \cup {form}
  BY DEF Press
<1>3. form # NoSpec /\ wanted \in [Form -> Nat]
  BY <1>1, SubmissionAssumption DEF SubmissionInv, Types
<1>4. CASE session.spec = form /\ Work(key, form) \in Asked
  <2>1. form \in owed /\ owed' = owed
    BY <1>2, <1>3, <1>4 DEF WantedInv
  <2>2. wanted' = wanted /\ Asked' \subseteq Asked
    BY <1>1, <1>2, <1>3, <1>4, <2>1
  <2>3. \A s \in Form : Cardinality(KeysFor(s)') <= wanted'[s]
    BY <2>2, FewerWanted
  <2> QED
    BY <1>1, <1>2, <1>4, <2>1, <2>3 DEF WantedInv
<1>5. CASE session.spec # form
  <2>1. ~ Pending /\ session.spec = NoSpec /\ owed = {}
    BY <1>5 DEF WantedInv, Pending
  <2>2. owed' = {form}
    BY <1>2, <2>1
  <2>3. ASSUME NEW s \in Form PROVE Cardinality(KeysFor(s)') <= wanted'[s]
    <3>1. /\ IsFiniteSet(KeysFor(s)) /\ Cardinality(KeysFor(s)) \in Nat
          /\ Cardinality(KeysFor(s)) <= wanted[s]
      BY KeysAreFinite DEF WantedInv
    <3>2. CASE s = form
      <4>1. KeysFor(s)' \subseteq KeysFor(s) \cup {key}
        BY <1>1, Requests DEF KeysFor
      <4>2. IsFiniteSet(KeysFor(s) \cup {key})
            /\ Cardinality(KeysFor(s) \cup {key}) <= Cardinality(KeysFor(s)) + 1
            /\ Cardinality(KeysFor(s) \cup {key}) \in Nat
        <5>1. CASE key \in KeysFor(s)
          BY <3>1, <5>1, FS_AddElement
        <5>2. CASE key \notin KeysFor(s)
          BY <3>1, <5>2, FS_AddElement
        <5> QED
          BY <5>1, <5>2
      <4>3. /\ Cardinality(KeysFor(s)') <= Cardinality(KeysFor(s) \cup {key})
            /\ Cardinality(KeysFor(s)') \in Nat
        BY <4>1, <4>2, FS_Subset, FS_CardinalityType
      <4>4. wanted'[s] = wanted[s] + 1 /\ wanted[s] \in Nat
        BY <1>2, <1>3, <2>1, <3>2
      <4> QED
        BY <3>1, <4>2, <4>3, <4>4
    <3>3. CASE s # form
      <4>1. KeysFor(s)' \subseteq KeysFor(s)
        BY <1>1, <3>3, Requests DEF KeysFor
      <4>2. Cardinality(KeysFor(s)') <= Cardinality(KeysFor(s)) /\ Cardinality(KeysFor(s)') \in Nat
        BY <3>1, <4>1, FS_Subset, FS_CardinalityType
      <4>3. wanted'[s] = wanted[s] /\ wanted[s] \in Nat
        BY <1>2, <1>3, <3>3
      <4> QED
        BY <3>1, <4>2, <4>3
    <3> QED
      BY <3>2, <3>3
  <2> QED
    BY <1>1, <1>2, <1>3, <2>2, <2>3 DEF WantedInv
<1> QED
  BY <1>1, <1>4, <1>5

(* An answer settles what was owed; every other step leaves it and asks for nothing. *)
LEMMA AnswerSettles ==
  ASSUME SubmissionInv, WantedInv, GetAnswer PROVE WantedInv'
<1>1. /\ UNCHANGED <<form, flight, jobs, wanted>> /\ call.at = "answered"
      /\ \/ call.reply = "job" /\ session' = Accepted(call.job) /\ owed' = owed \ {call.spec}
         \/ call.reply # "job" /\ UNCHANGED <<session, owed>>
  BY DEF GetAnswer
<1>2. session \in [key : 0 .. MaxKeys, spec : Form \cup {NoSpec}, job : Nat]
  BY DEF SubmissionInv, Types, TypeOK
<1>3. \/ session'.spec = NoSpec /\ owed' = {}
      \/ session' = session /\ owed' = owed
  <2>1. CASE call.reply = "job"
    <3>1. session' = [session EXCEPT !.job = call.job, !.spec = NoSpec] /\ owed' = owed \ {call.spec}
      BY <1>1, <2>1 DEF Accepted
    <3>2. call.spec = session.spec /\ owed \subseteq {session.spec}
      BY <1>1 DEF SubmissionInv, CallInv, WantedInv
    <3>3. session'.spec = NoSpec
      BY <1>2, <3>1
    <3> QED
      BY <3>1, <3>2, <3>3
  <2>2. CASE call.reply # "job"
    BY <1>1, <2>2
  <2> QED
    BY <2>1, <2>2
<1>4. Pending' => session' = session
  BY <1>3 DEF Pending
<1>5. Asked' \subseteq Asked
  BY <1>1, <1>4, AskedIsNotMore DEF Pending
<1>6. \A s \in Form : Cardinality(KeysFor(s)') <= wanted'[s]
  BY <1>1, <1>5, FewerWanted
<1> QED
  BY <1>1, <1>3, <1>4, <1>6 DEF WantedInv, Pending

LEMMA WantedKept ==
  ASSUME EditsWhilePending = FALSE, SubmissionInv, WantedInv, [Next]_vars PROVE WantedInv'
<1>1. ASSUME UNCHANGED <<session, wanted, owed>>, Pending => form' = form, Asked' \subseteq Asked
      PROVE  WantedInv'
  <2>1. \A s \in Form : Cardinality(KeysFor(s)') <= wanted'[s]
    BY <1>1, FewerWanted
  <2> QED
    BY <1>1, <2>1 DEF WantedInv, Pending
<1>2. CASE EditForm
  <2>1. UNCHANGED <<session, wanted, owed, flight, jobs>> /\ ~ Pending
    BY <1>2 DEF EditForm
  <2> QED
    BY <1>1, <2>1, AskedIsNotMore DEF Pending
<1>3. ASSUME NEW r \in flight, Execute(r) PROVE WantedInv'
  <2>1. UNCHANGED <<session, wanted, owed, form>>
    BY <1>3 DEF Execute
  <2> QED
    BY <1>1, <1>3, <2>1, ExecuteAsksNoMore
<1>4. CASE GiveUp \/ Restart \/ EditInputs \/ UNCHANGED vars
  <2>1. UNCHANGED <<session, wanted, owed, form, jobs>> /\ flight' \subseteq flight
    BY <1>4 DEF GiveUp, Restart, EditInputs, vars
  <2> QED
    BY <1>1, <2>1, AskedIsNotMore DEF Pending
<1> QED
  BY <1>2, <1>3, <1>4, PressWants, AnswerSettles DEF Next

(* The jobs of a spec have keys of their own, each of which was asked for. *)
LEMMA JobsHaveKeys ==
  ASSUME SubmissionInv, NEW s \in Form
  PROVE  LET admitted == {n \in 1 .. Len(jobs) : jobs[n].spec = s}
         IN  Cardinality(admitted) <= Cardinality(KeysFor(s)) /\ Cardinality(admitted) \in Nat
<1> DEFINE admitted == {n \in 1 .. Len(jobs) : jobs[n].spec = s}
           key == [n \in admitted |-> jobs[n].key]
<1>1. IsFiniteSet(KeysFor(s)) /\ IsFiniteSet(admitted)
  <2>1. Len(jobs) \in Nat
    BY DEF SubmissionInv, Types, TypeOK
  <2>2. IsFiniteSet(1 .. Len(jobs))
    BY <2>1, FS_Interval
  <2> QED
    BY <2>2, FS_Subset, KeysAreFinite
<1>2. ASSUME NEW n \in admitted PROVE key[n] \in KeysFor(s)
  <2>1. n \in 1 .. Len(jobs) /\ jobs[n].spec = s
    OBVIOUS
  <2>2. Work(jobs[n].key, s) \in Asked
    BY <2>1, Rows DEF SubmissionInv
  <2> QED
    BY <2>2, Requests DEF KeysFor
<1>3. \A m, n \in admitted : key[m] = key[n] => m = n
  BY DEF SubmissionInv, Types, TypeOK
<1>4. key \in Injection(admitted, KeysFor(s))
  BY <1>2, <1>3 DEF Injection, IsInjective
<1> QED
  BY <1>1, <1>4, FS_Injection, FS_CardinalityType

(* "The same request can be retried safely" (page, line 48), for any number of lost answers, *)
(* restarts and late requests: where the user leaves the form as it is until it is answered, *)
(* a spec is admitted no more often than it was asked for; and no conflict is answered while *)
(* the inputs stay.                                                                           *)
THEOREM RetriesAreSafe == ASSUME EditsWhilePending = FALSE PROVE Spec => []RetriedSafely
<1>1. SubmissionInv /\ WantedInv /\ [Next]_vars => WantedInv'
  BY WantedKept
<1>2. SubmissionInv /\ WantedInv => RetriedSafely
  <2> SUFFICES ASSUME SubmissionInv, WantedInv PROVE RetriedSafely
    OBVIOUS
  <2>1. ASSUME NEW s \in Form
        PROVE  Cardinality({n \in 1 .. Len(jobs) : jobs[n].spec = s}) <= wanted[s]
    <3>1. /\ Cardinality({n \in 1 .. Len(jobs) : jobs[n].spec = s}) <= Cardinality(KeysFor(s))
          /\ Cardinality({n \in 1 .. Len(jobs) : jobs[n].spec = s}) \in Nat
      BY JobsHaveKeys
    <3>2. Cardinality(KeysFor(s)) <= wanted[s] /\ Cardinality(KeysFor(s)) \in Nat /\ wanted[s] \in Nat
      BY KeysAreFinite DEF WantedInv, SubmissionInv, Types
    <3> QED
      BY <3>1, <3>2
  <2> QED
    BY <2>1 DEF RetriedSafely, SubmissionInv, InputsInv
<1>3. Spec => []WantedInv
  BY <1>1, SubmissionStarts, SubmissionInvHolds, PTL DEF Spec
<1> QED
  BY <1>2, <1>3, SubmissionInvHolds, PTL
=============================================================================
