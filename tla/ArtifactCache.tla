---------------------------- MODULE ArtifactCache ----------------------------
(***************************************************************************)
(* One directory of the shared artifact cache (research.py, smoke.py,      *)
(* storage.py): query vectors, or the index of one configuration, under    *)
(* the fingerprint of the inputs a job was admitted with.  Research        *)
(* children check the identity of the inputs, take the file lock, and      *)
(* either trust the manifest or build the files and certify them last.     *)
(*                                                                         *)
(* Mode "research" sets an invalid directory aside before it builds, and   *)
(* reads the files again by name after it has released the lock; mode      *)
(* "smoke" overwrites the files in place and loads them under the lock.    *)
(*                                                                         *)
(* A child is one process, supervised or orphaned, and runs once.  The     *)
(* bytes of a file are the child that wrote it and the version of the      *)
(* inputs it was made from: two builds never agree (profile.json times     *)
(* them), which is the worst case for telling generations apart.           *)
(***************************************************************************)
EXTENDS Integers, FiniteSets

CONSTANTS
  Child, NoChild,   \* child processes; nobody, the holder of a free lock
  File,             \* the names a manifest must list
  Version, Asked,   \* versions of the inputs; the one the fingerprint is of
  Modes,            \* which of "research" and "smoke" the jobs ask for
  Missing, Torn,    \* no such file; bytes nobody wrote
  NoManifest,       \* no readable checksums.json
  MaxDeaths, MaxDamage, MaxEdits, \* bounds: processes killed, files damaged, inputs edited
  FaultsLive        \* whether files are damaged and inputs edited while children run

ASSUME CacheAssumption ==
  /\ NoChild \notin Child /\ Asked \in Version
  /\ Modes \subseteq {"research", "smoke"}
  /\ {MaxDeaths, MaxDamage, MaxEdits} \subseteq Nat /\ FaultsLive \in BOOLEAN

VARIABLES
  mode,      \* whose directory it is: the two modes keep theirs apart
  files,     \* the directory: what each name holds
  manifest,  \* checksums.json: the bytes it certifies, by name
  holder,    \* who holds the FileLock
  child,     \* per child: where it stands, files to write, bytes it loaded
  inputs,    \* version of sources, data, model and packages
  deaths, damage, edits  \* how often each fault has happened

cache == <<mode, files, manifest, holder, child, inputs, deaths, damage, edits>>
environment == <<mode, inputs, deaths, damage, edits>>

Bytes == [by : Child, from : Version]
Content == Bytes \cup {Missing, Torn}

ASSUME ContentAssumption ==
  Missing # Torn /\ {Missing, Torn} \cap Bytes = {} /\ NoManifest \notin [File -> Content]

Unread == [f \in File |-> Missing]
NewChild == [at |-> "new", todo |-> {}, loaded |-> Unread]

CacheInit ==
  /\ mode \in Modes
  /\ files = [f \in File |-> Missing]
  /\ manifest = NoManifest
  /\ holder = NoChild
  /\ child = [c \in Child |-> NewChild]
  /\ inputs = Asked
  /\ deaths = 0 /\ damage = 0 /\ edits = 0

Goes(c, at) == child' = [child EXCEPT ![c].at = at]

-----------------------------------------------------------------------------
(* The steps of execute / execute_smoke *)

Unchecked(c) == "lock"   \* a mistake: the identity of the inputs is not compared
AfterCheck(c) == IF inputs = Asked THEN "lock" ELSE "failed"

(* identity(snapshot(settings, mode)) != fingerprint raises. *)
CheckIdentity(c) ==
  /\ child[c].at = "new"
  /\ Goes(c, AfterCheck(c))
  /\ UNCHANGED <<files, manifest, holder, environment>>

NoLock == TRUE   \* a mistake: the lock excludes nobody
LockFree == holder = NoChild

Acquire(c) ==
  /\ child[c].at = "lock" /\ LockFree
  /\ holder' = c
  /\ Goes(c, "inspect")
  /\ UNCHANGED <<files, manifest, environment>>

LockTimeout(c) ==
  /\ child[c].at = "lock" /\ ~ LockFree
  /\ Goes(c, "failed")
  /\ UNCHANGED <<files, manifest, holder, environment>>

ValidManifest == manifest # NoManifest /\ manifest = files

NeededOnly == {f \in File : files[f] \in {Missing, Torn}}   \* a mistake: files reused
Needed == File

(* quarantine() renames the directory and makes an empty one; dying between  *)
(* the two leaves no directory, which is as invalid as an empty one.         *)
Inspect(c) ==
  /\ child[c].at = "inspect"
  /\ IF ValidManifest
     THEN Goes(c, "load") /\ UNCHANGED <<files, manifest>>
     ELSE /\ child' = [child EXCEPT ![c].at = "build", ![c].todo = Needed]
          /\ IF mode = "research"
             THEN files' = Unread /\ manifest' = NoManifest
             ELSE UNCHANGED <<files, manifest>>
  /\ UNCHANGED <<holder, environment>>

Write(c, f) ==
  /\ child[c].at = "build" /\ f \in child[c].todo
  /\ files' = [files EXCEPT ![f] = [by |-> c, from |-> inputs]]
  /\ child' = [child EXCEPT ![c].todo = @ \ {f}]
  /\ UNCHANGED <<manifest, holder, environment>>

(* publish_manifest: hashes every file, replaces checksums.json atomically. *)
Certify(c) ==
  /\ child[c].at = "build" /\ child[c].todo = {}
  /\ manifest' = files
  /\ Goes(c, "load")
  /\ UNCHANGED <<files, holder, environment>>

Release(c) == holder' = IF holder = c THEN NoChild ELSE holder
Loadable(f) == files[f] \notin {Missing, Torn}

(* Under the lock still; what cannot be read raises. *)
Load(c) ==
  /\ child[c].at = "load"
  /\ IF \E f \in File : ~ Loadable(f) THEN Goes(c, "failed")
     ELSE IF mode = "research" THEN Goes(c, "read")
     ELSE child' = [child EXCEPT ![c].at = "done", ![c].loaded = files]
  /\ Release(c)
  /\ UNCHANGED <<files, manifest, environment>>

(* run_configuration opens the files by name, the lock being released. *)
Read(c, f) ==
  /\ child[c].at = "read" /\ child[c].loaded[f] = Missing
  /\ IF Loadable(f) THEN child' = [child EXCEPT ![c].loaded[f] = files[f]]
     ELSE Goes(c, "failed")
  /\ UNCHANGED <<files, manifest, holder, environment>>

ReadAll(c) ==
  /\ child[c].at = "read" /\ \A f \in File : child[c].loaded[f] # Missing
  /\ Goes(c, "done")
  /\ UNCHANGED <<files, manifest, holder, environment>>

-----------------------------------------------------------------------------
(* The environment *)

LockFileStays(c) == holder' = holder   \* a mistake: a lock its owner must delete
LockDropped(c) == Release(c)           \* the system drops the locks of a dead process

(* A child is killed by its supervisor, or finds its parent gone; the file *)
(* it was writing is cut short.                                            *)
Dies(c) ==
  /\ child[c].at \notin {"new", "done", "failed"}
  /\ deaths < MaxDeaths /\ deaths' = deaths + 1
  /\ Goes(c, "failed")
  /\ LockDropped(c)
  /\ \/ UNCHANGED files
     \/ \E f \in child[c].todo : child[c].at = "build" /\ files' = [files EXCEPT ![f] = Torn]
  /\ UNCHANGED <<mode, manifest, inputs, damage, edits>>

Quiet == \A c \in Child : child[c].at \in {"new", "done", "failed"}

(* The disk loses bytes that have lain on it for a while. *)
Damage(f) ==
  /\ damage < MaxDamage /\ damage' = damage + 1
  /\ Loadable(f) /\ (Quiet \/ (FaultsLive /\ \A c \in Child : child[c].at # "build"))
  /\ files' = [files EXCEPT ![f] = Torn]
  /\ UNCHANGED <<mode, manifest, holder, child, inputs, deaths, edits>>

EditInputs ==
  /\ edits < MaxEdits /\ edits' = edits + 1
  /\ Quiet \/ FaultsLive
  /\ \E v \in Version \ {inputs} : inputs' = v
  /\ UNCHANGED <<mode, files, manifest, holder, child, deaths, damage>>

-----------------------------------------------------------------------------
ChildStep(c) ==
  \/ CheckIdentity(c) \/ Acquire(c) \/ Inspect(c) \/ Certify(c) \/ Load(c) \/ ReadAll(c)
  \/ \E f \in File : Write(c, f) \/ Read(c, f)

AllOver == \A c \in Child : child[c].at \in {"done", "failed"}

CacheNext ==
  \/ \E c \in Child : ChildStep(c) \/ LockTimeout(c) \/ Dies(c)
  \/ \E f \in File : Damage(f)
  \/ EditInputs
  \/ AllOver /\ UNCHANGED cache

(* A child keeps running unless it is killed; waiting for the lock ends by   *)
(* getting it, not by hoping for the timeout.                                *)
CacheSpec == CacheInit /\ [][CacheNext]_cache
FairCacheSpec == CacheSpec /\ \A c \in Child : WF_cache(ChildStep(c))

-----------------------------------------------------------------------------
(* Names, processes and counters hold what they should; the holder of the *)
(* lock is the one process, supervised or orphaned, that is between taking *)
(* and releasing it.                                                       *)
CacheTypeOK ==
  /\ mode \in Modes
  /\ files \in [File -> Content]
  /\ manifest \in [File -> Content] \cup {NoManifest}
  /\ holder \in Child \cup {NoChild}
  /\ child \in [Child -> [at : {"new", "lock", "inspect", "build", "load", "read", "done",
                                "failed"},
                          todo : SUBSET File, loaded : [File -> Content]]]
  /\ \A c \in Child : child[c].at \in {"inspect", "build", "load"} <=> holder = c
  /\ inputs \in Version
  /\ deaths \in 0..MaxDeaths /\ damage \in 0..MaxDamage /\ edits \in 0..MaxEdits

OneBuild(contents) == \E c \in Child : \A f \in File :
                        contents[f] \in Bytes /\ contents[f].by = c

(* "Immutable shared index generations" (research.py:140): no child changes *)
(* a file of a directory whose manifest validates, whoever died before.     *)
CertifiedIsImmutable ==
  [][ manifest # NoManifest /\ manifest = files /\ damage' = damage => files' = files ]_cache

(* A manifest that validates certifies one whole generation, never a mix of *)
(* the leavings of a killed build and of the next one, and so is what every *)
(* finished child computed its result from.                                 *)
GenerationsAreWhole ==
  /\ ValidManifest => OneBuild(files)
  /\ \A c \in Child : child[c].at = "done" => OneBuild(child[c].loaded)

(* A child that waits for the directory is not kept waiting by a dead one. *)
LockIsPassedOn == \A c \in Child : (child[c].at = "lock") ~> (child[c].at # "lock")

(* docs/operations.md:110: "changing inputs underneath a running coordinator *)
(* causes explicit identity failure", so no result rests on files made from  *)
(* other inputs than its fingerprint names.  It holds while inputs are only  *)
(* edited between the runs of children; otherwise it fails (run identity).   *)
ResultsMatchIdentity ==
  \A c \in Child : child[c].at = "done" =>
    \A f \in File : child[c].loaded[f].from = Asked
=============================================================================
