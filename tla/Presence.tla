------------------------------- MODULE Presence -------------------------------
(***************************************************************************)
(* A worker container's presence (platform_eval/celery_app.py): a thread   *)
(* of the Celery parent and, while a task runs, its supervisor both upsert *)
(* the worker's row through Store.heartbeat, and the health probe, like    *)
(* the gauge of metrics.py, calls the worker available when the row was    *)
(* written within the window.  heartbeat takes the time before it waits    *)
(* for the write lock and overwrites the row unconditionally, so a row may *)
(* be old when it is written and may go back.                              *)
(*                                                                         *)
(* Time is in any unit; a wait for the lock ends after at most MaxWait     *)
(* (the busy timeout), with the row written or with an error.              *)
(***************************************************************************)
EXTENDS Integers

CONSTANTS
  Period,     \* between two heartbeats of the thread (15 seconds)
  Window,     \* after which a row is stale (45 seconds)
  MaxWait,    \* the longest wait for the write lock (30 seconds: the busy timeout)
  MaxMissed,  \* heartbeats of the thread that may fail in a row
  MaxTime     \* bound: the time the runs look at

ASSUME PresenceAssumption ==
  /\ Period \in Nat \ {0} /\ Window \in Nat /\ MaxWait \in Nat
  /\ MaxMissed \in Nat /\ MaxTime \in Nat

VARIABLES
  now,
  lastSeen,  \* workers.seen; none before the first heartbeat
  thread,    \* Presence's loop
  sup,       \* the supervisor's heartbeat
  missed,    \* heartbeats of the thread that failed since the last that succeeded
  beaten,    \* one succeeded since the worker started
  died       \* when the container was last killed

presence == <<now, lastSeen, thread, sup, missed, beaten, died>>

(* "off", "waiting" for the lock with the time it took, "sleeping" since. *)
Off == [at |-> "off", time |-> 0]
Waiting(t) == [at |-> "waiting", time |-> t]
Sleeping(t) == [at |-> "sleeping", time |-> t]
Nobody == [present |-> FALSE, time |-> 0]

PresenceInit ==
  /\ now = 0 /\ lastSeen = Nobody /\ thread = Off /\ sup = Off
  /\ missed = 0 /\ beaten = FALSE /\ died = 0

(* A wait or a sleep that is over ends before time goes on. *)
InTime ==
  /\ thread.at = "waiting" => now < thread.time + MaxWait
  /\ thread.at = "sleeping" => now < thread.time + Period
  /\ sup.at = "waiting" => now < sup.time + MaxWait

Tick ==
  /\ now < MaxTime /\ InTime
  /\ now' = now + 1
  /\ UNCHANGED <<lastSeen, thread, sup, missed, beaten, died>>

(* Presence.start: the thread's first heartbeat, at once. *)
ThreadStarts ==
  /\ thread = Off
  /\ thread' = Waiting(now)
  /\ UNCHANGED <<now, lastSeen, sup, missed, beaten, died>>

Beat ==
  /\ thread.at = "sleeping" /\ now >= thread.time + Period
  /\ thread' = Waiting(now)
  /\ UNCHANGED <<now, lastSeen, sup, missed, beaten, died>>

RowAhead(t) == [present |-> TRUE, time |-> t + Period]   \* a mistake: when the next one is due
PresenceRow(t) == [present |-> TRUE, time |-> t]

Written ==
  /\ thread.at = "waiting"
  /\ lastSeen' = PresenceRow(thread.time) /\ thread' = Sleeping(now)
  /\ missed' = 0 /\ beaten' = TRUE
  /\ UNCHANGED <<now, sup, died>>

LoopEnds == [at |-> "ended", time |-> now]   \* a mistake: the exception ends the thread
(* The exception is logged and the loop waits for its period all the same. *)
AfterFailure == Sleeping(now)

Failed ==
  /\ thread.at = "waiting" /\ missed < MaxMissed
  /\ thread' = AfterFailure /\ missed' = missed + 1
  /\ UNCHANGED <<now, lastSeen, sup, beaten, died>>

(* The supervisor's heartbeat for its task carries the worker's name too. *)
SupervisorBeats ==
  /\ thread # Off /\ sup = Off
  /\ sup' = Waiting(now)
  /\ UNCHANGED <<now, lastSeen, thread, missed, beaten, died>>
SupervisorWrites ==
  /\ sup.at = "waiting"
  /\ lastSeen' = PresenceRow(sup.time) /\ sup' = Off
  /\ UNCHANGED <<now, thread, missed, beaten, died>>
SupervisorFails ==
  /\ sup.at = "waiting" /\ sup' = Off
  /\ UNCHANGED <<now, lastSeen, thread, missed, beaten, died>>

(* The container is killed: whatever was waiting is gone, the row stays. *)
Killed ==
  /\ thread # Off
  /\ thread' = Off /\ sup' = Off
  /\ missed' = 0 /\ beaten' = FALSE /\ died' = now
  /\ UNCHANGED <<now, lastSeen>>

PresenceNext ==
  \/ Tick \/ ThreadStarts \/ Beat \/ Written \/ Failed \/ Killed
  \/ SupervisorBeats \/ SupervisorWrites \/ SupervisorFails

PresenceSpec == PresenceInit /\ [][PresenceNext]_presence

(* worker_health.py, and metrics.py for every row. *)
Healthy == lastSeen.present /\ lastSeen.time > now - Window
-----------------------------------------------------------------------------
Moment == [at : {"off", "waiting", "sleeping"}, time : Nat]

PresenceTypeOK ==
  /\ now \in Nat /\ died \in 0 .. now
  /\ lastSeen \in [present : BOOLEAN, time : 0 .. now]
  /\ thread \in Moment /\ sup \in Moment
  /\ missed \in 0 .. MaxMissed /\ beaten \in BOOLEAN

(* The most a live worker's row can be old: its heartbeats but MaxMissed in a row succeed, *)
(* each is late by at most the wait of the one before, and its time is older by its own.   *)
Oldest == (MaxMissed + 1) * (Period + MaxWait) + MaxWait

(* The row of a worker that runs and has reported once is never older than that, although  *)
(* the supervisor may overwrite it with an older time.  It is not available all along: with *)
(* the code's periods of 15 seconds and waits of up to 30 a row may be 75 seconds old with  *)
(* no heartbeat missed, 120 with one, and the window is 45.                                 *)
LiveRowIsRecent == beaten => lastSeen.present /\ now - lastSeen.time <= Oldest

(* A container that was killed is unavailable once the window has passed: nothing writes a *)
(* time later than its death.                                                              *)
GoneIsNoticed == thread = Off /\ now >= died + Window => ~ Healthy

=============================================================================
