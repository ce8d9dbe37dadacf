------------------------------ MODULE MCContainer ------------------------------
(***************************************************************************)
(* A small instance for TLC of three parts of a worker container that      *)
(* share no state: the presence thread of its Celery parent with the       *)
(* supervisor; a directory of the artifact cache with the research         *)
(* children that use it; and the scan of the runner's rows in one of them. *)
(* A behaviour is of one part while the others rest.                       *)
(***************************************************************************)
EXTENDS Presence, ResultScan, ArtifactCache, SequencesExt

CONSTANT MaxLines   \* bound: lines the runner writes

VARIABLE part

container == <<part, presence, scan, cache>>

(* Outputs of hits for this configuration in which at most one line is any line at all; without *)
(* a profile, none is.                                                                          *)
RightRow == [kind : {"row"}, id : Expected, mine : {TRUE}, verified : BOOLEAN,
             cells : {"hits"}, hit1 : BOOLEAN, hit5 : {TRUE}]
RightOutputs == {l \in BoundedSeq([kind : {"header"}, right : {TRUE}] \cup RightRow, MaxLines) :
                   Output(l)}
SmallOutputs ==
  {<<>>} \cup {[l EXCEPT ![i] = x] : l \in RightOutputs \ {<<>>}, i \in 1 .. MaxLines, x \in Line}
RunnerOutputs == {l \in SmallOutputs : Output(l)}

Init ==
  /\ part \in {"presence", "scan", "cache"}
  /\ PresenceInit
  /\ ScanStart /\ lines \in RunnerOutputs /\ profile \in BOOLEAN
  /\ (~ profile => lines \in RightOutputs)
  /\ (part # "scan" => lines = <<>> /\ profile)
  /\ CacheInit /\ (part # "cache" => mode = CHOOSE m \in Modes : TRUE)

CacheStep(c) == part = "cache" /\ ChildStep(c) /\ UNCHANGED <<part, presence, scan>>

Next ==
  \/ part = "presence" /\ PresenceNext /\ UNCHANGED <<part, scan, cache>>
  \/ part = "scan" /\ ScanNext /\ UNCHANGED <<part, presence, cache>>
  \/ part = "cache" /\ CacheNext /\ UNCHANGED <<part, presence, scan>>

Spec == Init /\ [][Next]_container
FairSpec == Spec /\ \A c \in Child : WF_container(CacheStep(c))
=============================================================================
