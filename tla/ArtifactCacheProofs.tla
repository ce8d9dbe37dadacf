------------------------ MODULE ArtifactCacheProofs ------------------------
(* Theorems about the shared artifact cache, for any children, files and     *)
(* numbers of faults.                                                       *)
EXTENDS ArtifactCache, TLAPS

At == {"new", "lock", "inspect", "build", "load", "read", "done", "failed"}
ChildState == [at : At, todo : SUBSET File, loaded : [File -> Content]]

(* Why a certified directory is one generation and stays untouched.  What a *)
(* manifest names was written by one child, and by none that has yet to     *)
(* certify; and whoever builds builds in a directory that is not valid.     *)
Directory ==
  /\ manifest # NoManifest => OneBuild(manifest)
  /\ \A c \in Child :
       child[c].at \in {"new", "lock", "inspect", "build"} /\ manifest # NoManifest =>
         \A f \in File : manifest[f].by # c
  /\ \A c \in Child : child[c].at = "build" =>
       /\ ~ ValidManifest
       /\ \A f \in File \ child[c].todo : files[f] \in Bytes /\ files[f].by = c

CacheInv == CacheTypeOK /\ Directory

LEMMA CacheStarts == CacheInit => CacheInv
<1> SUFFICES ASSUME CacheInit PROVE CacheInv
  OBVIOUS
<1>1. CacheTypeOK
  BY CacheAssumption DEF CacheInit, CacheTypeOK, NewChild, Unread, Content
<1>2. Directory
  BY DEF CacheInit, Directory, NewChild
<1> QED BY <1>1, <1>2 DEF CacheInv

(* What a change of one child's place does. *)
LEMMA Going ==
  ASSUME CacheTypeOK, NEW c \in Child, NEW at \in At, Goes(c, at)
  PROVE  /\ child' \in [Child -> ChildState]
         /\ child'[c].at = at /\ child'[c].todo = child[c].todo
         /\ child'[c].loaded = child[c].loaded
         /\ \A d \in Child : d # c => child'[d] = child[d]
BY DEF CacheTypeOK, Goes, ChildState, At

(* The steps of a child that change neither the files nor the manifest; its  *)
(* death while it does not write is one of them.                             *)
QuietStep(c, at, loaded) ==
  /\ at \in At \ {"new", "build"} /\ loaded \in [File -> Content]
  /\ child' = [child EXCEPT ![c] = [child[c] EXCEPT !.at = at, !.loaded = loaded]]
  /\ at \in {"lock", "inspect"} => child[c].at \in {"new", "lock"}
  /\ holder' = IF at \in {"inspect", "load"} THEN c
               ELSE IF holder = c THEN NoChild ELSE holder
  /\ at \in {"inspect", "load"} => holder \in {c, NoChild}
  /\ UNCHANGED <<mode, files, manifest, inputs, damage, edits>> /\ deaths' \in 0..MaxDeaths

LEMMA QuietSteps ==
  ASSUME CacheInv, NEW c \in Child, NEW at, NEW loaded, QuietStep(c, at, loaded)
  PROVE  CacheInv'
<1> USE DEF QuietStep
<1>1. /\ CacheTypeOK /\ Directory /\ NoChild \notin Child
  BY CacheAssumption DEF CacheInv
<1>2. /\ child' \in [Child -> ChildState] /\ child'[c].at = at
      /\ \A d \in Child : d # c => child'[d] = child[d]
  BY <1>1 DEF CacheTypeOK, ChildState, At
<1>3. CacheTypeOK'
  <2>1. \A d \in Child : child'[d].at \in {"inspect", "build", "load"} <=> holder' = d
    BY <1>1, <1>2 DEF CacheTypeOK, At
  <2>2. holder' \in Child \cup {NoChild}
    BY <1>1 DEF CacheTypeOK
  <2> QED BY <1>1, <1>2, <2>1, <2>2 DEF CacheTypeOK, ChildState, At
<1>4. Directory'
  BY <1>1, <1>2 DEF Directory, ValidManifest, OneBuild
<1> QED BY <1>3, <1>4 DEF CacheInv

LEMMA QuietChildKeeps ==
  ASSUME CacheInv, NEW c \in Child,
         \/ CheckIdentity(c) \/ Acquire(c) \/ LockTimeout(c) \/ Load(c) \/ ReadAll(c)
         \/ \E f \in File : Read(c, f)
         \/ Inspect(c) /\ ValidManifest
         \/ Dies(c) /\ UNCHANGED files
  PROVE  CacheInv'
<1>1. /\ CacheTypeOK /\ NoChild \notin Child /\ child[c] \in ChildState
  BY CacheAssumption DEF CacheInv, CacheTypeOK, ChildState, At
<1>2. deaths \in 0..MaxDeaths /\ child[c].loaded \in [File -> Content]
  BY <1>1 DEF CacheTypeOK, ChildState
<1>3. \A at : Goes(c, at) =>
        child' = [child EXCEPT ![c] = [child[c] EXCEPT !.at = at, !.loaded = child[c].loaded]]
  BY <1>1 DEF Goes, ChildState, CacheTypeOK
<1>4. CASE CheckIdentity(c)
  <2>1. AfterCheck(c) \in {"lock", "failed"} /\ holder # c
    BY <1>1, <1>4 DEF AfterCheck, CheckIdentity, CacheTypeOK
  <2>2. QuietStep(c, AfterCheck(c), child[c].loaded)
    BY <1>2, <1>3, <1>4, <2>1 DEF CheckIdentity, environment, At, QuietStep
  <2> QED BY <2>2, QuietSteps
<1>5. CASE Acquire(c)
  <2>1. QuietStep(c, "inspect", child[c].loaded)
    BY <1>2, <1>3, <1>5 DEF Acquire, LockFree, environment, At, QuietStep
  <2> QED BY <2>1, QuietSteps
<1>6. CASE LockTimeout(c)
  <2>1. holder # c
    BY <1>1, <1>6 DEF LockTimeout, CacheTypeOK
  <2>2. QuietStep(c, "failed", child[c].loaded)
    BY <1>2, <1>3, <1>6, <2>1 DEF LockTimeout, environment, At, QuietStep
  <2> QED BY <2>2, QuietSteps
<1>7. CASE Load(c)
  <2>1. CASE Goes(c, "failed") \/ Goes(c, "read")
    <3>1. QuietStep(c, "failed", child[c].loaded) \/ QuietStep(c, "read", child[c].loaded)
      BY <1>2, <1>3, <1>7, <2>1 DEF Load, Release, environment, At, QuietStep
    <3> QED BY <3>1, QuietSteps
  <2>2. CASE child' = [child EXCEPT ![c].at = "done", ![c].loaded = files]
    <3>1. child' = [child EXCEPT ![c] = [child[c] EXCEPT !.at = "done", !.loaded = files]]
      BY <1>1, <2>2 DEF ChildState, CacheTypeOK
    <3>2. files \in [File -> Content]
      BY <1>1 DEF CacheTypeOK
    <3>3. QuietStep(c, "done", files)
      BY <1>2, <1>7, <3>1, <3>2 DEF Load, Release, environment, At, QuietStep
    <3> QED BY <3>3, QuietSteps
  <2> QED BY <1>7, <2>1, <2>2 DEF Load
<1>8. CASE ReadAll(c)
  <2>1. holder # c
    BY <1>1, <1>8 DEF ReadAll, CacheTypeOK
  <2>2. QuietStep(c, "done", child[c].loaded)
    BY <1>2, <1>3, <1>8, <2>1 DEF ReadAll, environment, At, QuietStep
  <2> QED BY <2>2, QuietSteps
<1>9. ASSUME NEW f \in File, Read(c, f) PROVE CacheInv'
  <2>1. holder # c /\ child[c].at = "read"
    BY <1>1, <1>9 DEF Read, CacheTypeOK
  <2>2. CASE Goes(c, "failed")
    <3>1. QuietStep(c, "failed", child[c].loaded)
      BY <1>2, <1>3, <1>9, <2>1, <2>2 DEF Read, environment, At, QuietStep
    <3> QED BY <3>1, QuietSteps
  <2>3. CASE child' = [child EXCEPT ![c].loaded[f] = files[f]]
    <3> DEFINE loaded == [child[c].loaded EXCEPT ![f] = files[f]]
    <3>1. loaded \in [File -> Content]
      BY <1>1, <1>2 DEF CacheTypeOK
    <3>2. child' = [child EXCEPT ![c] = [child[c] EXCEPT !.at = "read", !.loaded = loaded]]
      BY <1>1, <2>1, <2>3 DEF ChildState, CacheTypeOK
    <3> HIDE DEF loaded
    <3>3. QuietStep(c, "read", loaded)
      BY <1>2, <1>9, <2>1, <3>1, <3>2 DEF Read, environment, At, QuietStep
    <3> QED BY <3>3, QuietSteps
  <2> QED BY <1>9, <2>2, <2>3 DEF Read
<1>10. CASE Inspect(c) /\ ValidManifest
  <2>1. holder = c
    BY <1>1, <1>10 DEF Inspect, CacheTypeOK
  <2>2. QuietStep(c, "load", child[c].loaded)
    BY <1>2, <1>3, <1>10, <2>1 DEF Inspect, environment, At, QuietStep
  <2> QED BY <2>2, QuietSteps
<1>11. CASE Dies(c) /\ UNCHANGED files
  <2>1. deaths' \in 0..MaxDeaths
    BY <1>2, <1>11, CacheAssumption DEF Dies
  <2>2. QuietStep(c, "failed", child[c].loaded)
    BY <1>2, <1>3, <1>11, <2>1 DEF Dies, LockDropped, Release, At, QuietStep
  <2> QED BY <2>2, QuietSteps
<1> QED BY <1>4, <1>5, <1>6, <1>7, <1>8, <1>9, <1>10, <1>11

-----------------------------------------------------------------------------
(* The steps that change the directory *)

LEMMA RebuildKeeps ==
  ASSUME CacheInv, NEW c \in Child, Inspect(c), ~ ValidManifest PROVE CacheInv'
<1>1. CacheTypeOK /\ Directory /\ holder = c /\ child[c].at = "inspect"
  BY DEF CacheInv, CacheTypeOK, Inspect
<1>2. /\ child' = [child EXCEPT ![c].at = "build", ![c].todo = File]
      /\ UNCHANGED <<holder, environment>>
  BY DEF Inspect, Needed
<1>3. /\ child' \in [Child -> ChildState] /\ child'[c].at = "build" /\ child'[c].todo = File
      /\ \A d \in Child : d # c => child'[d] = child[d]
  BY <1>1, <1>2 DEF CacheTypeOK, ChildState, At
<1>4. \/ files' = Unread /\ manifest' = NoManifest
      \/ UNCHANGED <<files, manifest>>
  BY DEF Inspect
<1>5. Unread \in [File -> Content]
  BY DEF Unread, Content
<1>6. CacheTypeOK'
  BY <1>1, <1>2, <1>3, <1>4, <1>5 DEF CacheTypeOK, environment, ChildState, At
<1>7. \A d \in Child : d # c => child'[d].at # "build"
  BY <1>1, <1>3 DEF CacheTypeOK
<1>8. ~ ValidManifest'
  BY <1>4 DEF ValidManifest
<1>9. Directory'
  <2>1. manifest' # NoManifest => manifest' = manifest
    BY <1>4
  <2> QED BY <1>1, <1>3, <1>7, <1>8, <2>1 DEF Directory, OneBuild
<1> QED BY <1>6, <1>9 DEF CacheInv

LEMMA WriteKeeps ==
  ASSUME CacheInv, NEW c \in Child, NEW f \in File, Write(c, f) PROVE CacheInv'
<1>1. CacheTypeOK /\ Directory /\ child[c].at = "build" /\ holder = c /\ f \in child[c].todo
  BY DEF CacheInv, CacheTypeOK, Write
<1>2. /\ files' = [files EXCEPT ![f] = [by |-> c, from |-> inputs]]
      /\ child' = [child EXCEPT ![c].todo = @ \ {f}]
      /\ UNCHANGED <<manifest, holder, environment>>
  BY DEF Write
<1>3. /\ child' \in [Child -> ChildState] /\ child'[c].at = "build"
      /\ child'[c].todo = child[c].todo \ {f}
      /\ \A d \in Child : d # c => child'[d] = child[d]
  BY <1>1, <1>2 DEF CacheTypeOK, ChildState, At
<1>4. [by |-> c, from |-> inputs] \in Bytes
  BY <1>1 DEF CacheTypeOK, Bytes
<1>5. /\ files' \in [File -> Content] /\ files'[f] = [by |-> c, from |-> inputs]
      /\ \A g \in File : g # f => files'[g] = files[g]
  BY <1>1, <1>2, <1>4 DEF CacheTypeOK, Content
<1>6. CacheTypeOK'
  BY <1>1, <1>2, <1>3, <1>5 DEF CacheTypeOK, environment, ChildState, At
<1>7. \A d \in Child : d # c => child'[d].at # "build"
  BY <1>1, <1>3 DEF CacheTypeOK
<1>8. ~ ValidManifest'
  <2>1. manifest # NoManifest => manifest[f].by # c
    BY <1>1 DEF Directory
  <2> QED BY <1>2, <1>5, <2>1 DEF ValidManifest
<1>9. \A g \in File \ child'[c].todo : files'[g] \in Bytes /\ files'[g].by = c
  BY <1>1, <1>3, <1>4, <1>5 DEF Directory
<1>10. Directory'
  BY <1>1, <1>2, <1>3, <1>7, <1>8, <1>9 DEF Directory, OneBuild
<1> QED BY <1>6, <1>10 DEF CacheInv

LEMMA CertifyKeeps ==
  ASSUME CacheInv, NEW c \in Child, Certify(c)
  PROVE  CacheInv' /\ ValidManifest' /\ OneBuild(files)
<1>1. CacheTypeOK /\ Directory /\ child[c].at = "build" /\ holder = c /\ child[c].todo = {}
  BY DEF CacheInv, CacheTypeOK, Certify
<1>2. manifest' = files /\ Goes(c, "load") /\ UNCHANGED <<files, holder, environment>>
  BY DEF Certify
<1>3. /\ child' \in [Child -> ChildState] /\ child'[c].at = "load"
      /\ \A d \in Child : d # c => child'[d] = child[d]
  BY <1>1, <1>2, Going DEF At
<1>4. \A g \in File : files[g] \in Bytes /\ files[g].by = c
  BY <1>1 DEF Directory
<1>5. CacheTypeOK'
  BY <1>1, <1>2, <1>3 DEF CacheTypeOK, environment, ChildState, At
<1>6. \A d \in Child : child'[d].at # "build"
  BY <1>1, <1>3 DEF CacheTypeOK
<1>7. OneBuild(files) /\ OneBuild(manifest')
  BY <1>2, <1>4 DEF OneBuild
<1>8. \A d \in Child : child'[d].at \in {"new", "lock", "inspect", "build"} =>
        \A g \in File : manifest'[g].by # d
  BY <1>2, <1>3, <1>4
<1>9. Directory'
  BY <1>6, <1>7, <1>8 DEF Directory, OneBuild
<1>10. ValidManifest'
  BY <1>1, <1>2, ContentAssumption DEF ValidManifest, CacheTypeOK
<1> QED BY <1>5, <1>7, <1>9, <1>10 DEF CacheInv

(* The disk, the user and a killed writer. *)
LEMMA FaultsKeep ==
  ASSUME CacheInv,
         \/ \E c \in Child : Dies(c) /\ ~ UNCHANGED files
         \/ \E f \in File : Damage(f)
         \/ EditInputs
  PROVE  CacheInv'
<1>1. CacheTypeOK /\ Directory
  BY DEF CacheInv
<1>2. ASSUME NEW f \in File, Damage(f) PROVE CacheInv'
  <2>1. /\ files' = [files EXCEPT ![f] = Torn]
        /\ damage' \in 0..MaxDamage /\ \A c \in Child : child[c].at # "build"
    BY <1>1, <1>2, CacheAssumption DEF Damage, Quiet, CacheTypeOK
  <2>2. files' \in [File -> Content]
    BY <1>1, <2>1 DEF CacheTypeOK, Content
  <2>3. CacheTypeOK'
    BY <1>1, <1>2, <2>1, <2>2 DEF Damage, CacheTypeOK
  <2>4. Directory'
    BY <1>1, <1>2, <2>1 DEF Damage, Directory, OneBuild
  <2> QED BY <2>3, <2>4 DEF CacheInv
<1>3. CASE EditInputs
  <2>1. inputs' \in Version /\ edits' \in 0..MaxEdits
    BY <1>1, <1>3, CacheAssumption DEF EditInputs, CacheTypeOK
  <2>2. CacheTypeOK'
    BY <1>1, <1>3, <2>1 DEF EditInputs, CacheTypeOK
  <2>3. Directory'
    BY <1>1, <1>3 DEF EditInputs, Directory, OneBuild, ValidManifest
  <2> QED BY <2>2, <2>3 DEF CacheInv
<1>4. ASSUME NEW c \in Child, Dies(c), ~ UNCHANGED files PROVE CacheInv'
  <2>1. /\ child[c].at = "build" /\ \E f \in File : files' = [files EXCEPT ![f] = Torn]
        /\ holder = c /\ Goes(c, "failed") /\ deaths' \in 0..MaxDeaths
        /\ UNCHANGED <<mode, manifest, inputs, damage, edits>>
    BY <1>1, <1>4, CacheAssumption DEF Dies, CacheTypeOK
  <2>2. holder' = NoChild
    BY <1>4, <2>1 DEF Dies, LockDropped, Release
  <2>3. /\ child' \in [Child -> ChildState] /\ child'[c].at = "failed"
        /\ \A d \in Child : d # c => child'[d] = child[d]
    BY <1>1, <2>1, Going DEF At
  <2>4. files' \in [File -> Content]
    BY <1>1, <2>1 DEF CacheTypeOK, Content
  <2>5. CacheTypeOK'
    <3>1. \A d \in Child : child'[d].at \notin {"inspect", "build", "load"}
      BY <1>1, <2>1, <2>3 DEF CacheTypeOK
    <3>2. \A d \in Child : holder' # d
      BY <2>2, CacheAssumption
    <3> QED BY <1>1, <2>1, <2>2, <2>3, <2>4, <3>1, <3>2 DEF CacheTypeOK, ChildState, At
  <2>6. \A d \in Child : child'[d].at # "build"
    BY <1>1, <2>1, <2>3 DEF CacheTypeOK
  <2>7. Directory'
    BY <1>1, <2>1, <2>3, <2>6 DEF Directory, OneBuild
  <2> QED BY <2>5, <2>7 DEF CacheInv
<1> QED BY <1>2, <1>3, <1>4

LEMMA CacheSteps == CacheInv /\ [CacheNext]_cache => CacheInv'
<1> SUFFICES ASSUME CacheInv, [CacheNext]_cache PROVE CacheInv'
  OBVIOUS
<1>1. ASSUME NEW c \in Child, ChildStep(c) \/ LockTimeout(c) \/ Dies(c) PROVE CacheInv'
  <2>1. CASE Inspect(c)
    BY <2>1, QuietChildKeeps, RebuildKeeps
  <2>2. CASE Certify(c)
    BY <2>2, CertifyKeeps
  <2>3. ASSUME NEW f \in File, Write(c, f) PROVE CacheInv'
    BY <2>3, WriteKeeps
  <2>4. CASE Dies(c)
    BY <2>4, QuietChildKeeps, FaultsKeep
  <2>5. CASE \/ CheckIdentity(c) \/ Acquire(c) \/ LockTimeout(c) \/ Load(c) \/ ReadAll(c)
             \/ \E f \in File : Read(c, f)
    BY <2>5, QuietChildKeeps
  <2> QED BY <1>1, <2>1, <2>2, <2>3, <2>4, <2>5 DEF ChildStep
<1>2. CASE (\E f \in File : Damage(f)) \/ EditInputs
  BY <1>2, FaultsKeep
<1>3. CASE UNCHANGED cache
  BY <1>3 DEF cache, environment, CacheInv, CacheTypeOK, Directory, ValidManifest, OneBuild
<1> QED BY <1>1, <1>2, <1>3 DEF CacheNext

LEMMA CacheInvHolds == CacheSpec => []CacheInv
BY CacheStarts, CacheSteps, PTL DEF CacheSpec

(* The directory, the lock and the children are in range, and the lock is    *)
(* held by the one child that is between taking and releasing it.            *)
THEOREM CacheTypeCorrect == CacheSpec => []CacheTypeOK
BY CacheInvHolds, PTL DEF CacheInv

(* No child changes a file of a directory whose manifest validates, whoever *)
(* died in it before, and even while files are damaged and inputs edited.   *)
THEOREM CertifiedStays == CacheSpec => CertifiedIsImmutable
<1> DEFINE A == manifest # NoManifest /\ manifest = files /\ damage' = damage => files' = files
<1>1. CacheInv /\ [CacheNext]_cache => [A]_cache
  <2> SUFFICES ASSUME CacheInv, CacheNext, ValidManifest, damage' = damage PROVE files' = files
    BY DEF ValidManifest
  <2>1. \A c \in Child : child[c].at # "build"
    BY DEF CacheInv, Directory
  <2>2. \A f \in File : ~ Damage(f)
    BY DEF CacheInv, CacheTypeOK, Damage
  <2>3. ASSUME NEW c \in Child, ChildStep(c) \/ LockTimeout(c) \/ Dies(c) PROVE files' = files
    <3>1. Inspect(c) => files' = files
      BY DEF Inspect
    <3> QED BY <2>1, <2>3, <3>1 DEF ChildStep, CheckIdentity, Acquire, LockTimeout, Write, Certify,
              Load, Read, ReadAll, Dies
  <2> QED BY <2>2, <2>3 DEF CacheNext, EditInputs, cache
<1> HIDE DEF A
<1>2. CacheSpec => [][A]_cache
  BY <1>1, CacheInvHolds, PTL DEF CacheSpec
<1> QED BY <1>2 DEF CertifiedIsImmutable, A

-----------------------------------------------------------------------------
(* What children read, as long as faults keep to the times when none runs *)

(* Whoever trusts the directory may: nobody builds in it until all are done. *)
(* What one child has loaded is what the files hold.                         *)
ReaderInv(c) ==
  /\ child[c].at \in {"load", "read"} => ValidManifest
  /\ child[c].at \in {"new", "lock", "inspect", "build", "load"} => child[c].loaded = Unread
  /\ child[c].at = "read" => \A f \in File : child[c].loaded[f] \in {Missing, files[f]}
  /\ child[c].at = "done" => OneBuild(child[c].loaded)

ReadersInv == \A c \in Child : ReaderInv(c)

LEMMA ReadersStart == CacheInit => ReadersInv
<1> SUFFICES ASSUME CacheInit PROVE ReadersInv
  OBVIOUS
<1>1. Missing \notin Bytes
  BY ContentAssumption
<1>2. ASSUME NEW c \in Child PROVE ReaderInv(c)
  BY <1>1 DEF CacheInit, ReaderInv, NewChild, Unread
<1> QED BY <1>2 DEF ReadersInv

(* A child that rests while the directory stays as it is, or is being built *)
(* by another.                                                              *)
LEMMA OthersRest ==
  ASSUME CacheInv, NEW c \in Child, ReaderInv(c), child'[c] = child[c],
         \/ UNCHANGED <<files, manifest>>
         \/ ~ ValidManifest
  PROVE  ReaderInv(c)'
<1>1. CASE UNCHANGED <<files, manifest>>
  BY <1>1 DEF ReaderInv, ValidManifest, OneBuild, Unread
<1>2. CASE ~ ValidManifest
  BY <1>2 DEF ReaderInv, OneBuild, Unread
<1> QED BY <1>1, <1>2

(* The steps of one child that only read, as far as itself is concerned. *)
LEMMA OwnReading ==
  ASSUME CacheInv, NEW c \in Child, ReaderInv(c), UNCHANGED <<files, manifest>>,
         \/ CheckIdentity(c) \/ Acquire(c) \/ Load(c) \/ ReadAll(c)
         \/ \E f \in File : Read(c, f)
         \/ Inspect(c) /\ ValidManifest
  PROVE  ReaderInv(c)'
<1>1. /\ CacheTypeOK /\ Directory /\ child[c] \in ChildState /\ Missing \notin Bytes /\ Torn \notin Bytes
  BY ContentAssumption DEF CacheInv, CacheTypeOK, ChildState, At
<1>2. \A at : Goes(c, at) => child'[c].at = at /\ child'[c].loaded = child[c].loaded
  BY <1>1 DEF Goes, CacheTypeOK, ChildState
<1>3. /\ ValidManifest' <=> ValidManifest
      /\ \A contents : OneBuild(contents)' <=> OneBuild(contents)
  BY DEF ValidManifest, OneBuild
<1>4. CASE CheckIdentity(c)
  <2>1. AfterCheck(c) \in {"failed", "lock"}
    BY DEF AfterCheck
  <2>2. child'[c].at = AfterCheck(c) /\ child'[c].loaded = child[c].loaded /\ child[c].at = "new"
    BY <1>2, <1>4 DEF CheckIdentity
  <2> QED BY <1>3, <2>1, <2>2 DEF ReaderInv, Unread
<1>5. CASE Acquire(c)
  <2>1. child'[c].at = "inspect" /\ child'[c].loaded = child[c].loaded /\ child[c].at = "lock"
    BY <1>2, <1>5 DEF Acquire
  <2> QED BY <1>3, <2>1 DEF ReaderInv, Unread
<1>6. CASE Inspect(c) /\ ValidManifest
  <2>1. child'[c].at = "load" /\ child'[c].loaded = child[c].loaded /\ child[c].at = "inspect"
    BY <1>2, <1>6 DEF Inspect
  <2> QED BY <1>3, <1>6, <2>1 DEF ReaderInv, Unread
<1>7. CASE Load(c)
  <2>0. child[c].at = "load" /\ ValidManifest /\ child[c].loaded = Unread
    BY <1>7 DEF Load, ReaderInv
  <2>1. CASE Goes(c, "failed")
    BY <1>2, <1>3, <2>1 DEF ReaderInv, Unread
  <2>2. CASE Goes(c, "read")
    <3>1. child'[c].at = "read" /\ child'[c].loaded = child[c].loaded
      BY <1>2, <2>2
    <3> QED BY <1>1, <1>3, <2>0, <3>1 DEF ReaderInv, Unread
  <2>3. CASE child' = [child EXCEPT ![c].at = "done", ![c].loaded = files]
    <3>1. child'[c].at = "done" /\ child'[c].loaded = files
      BY <1>1, <2>3 DEF CacheTypeOK, ChildState
    <3>2. OneBuild(files)
      BY <1>1, <2>0 DEF Directory, ValidManifest
    <3> QED BY <1>3, <3>1, <3>2 DEF ReaderInv
  <2> QED BY <1>7, <2>1, <2>2, <2>3 DEF Load
<1>8. CASE ReadAll(c)
  <2>1. /\ child'[c].at = "done" /\ child'[c].loaded = child[c].loaded /\ child[c].at = "read"
        /\ \A f \in File : child[c].loaded[f] # Missing
    BY <1>2, <1>8 DEF ReadAll
  <2>2. /\ \A f \in File : child[c].loaded[f] = files[f]
        /\ ValidManifest
    BY <2>1 DEF ReaderInv
  <2>3. OneBuild(files)
    BY <1>1, <2>2 DEF Directory, ValidManifest
  <2>4. OneBuild(child[c].loaded)
    BY <2>2, <2>3 DEF OneBuild
  <2> QED BY <1>3, <2>1, <2>4 DEF ReaderInv
<1>9. ASSUME NEW f \in File, Read(c, f) PROVE ReaderInv(c)'
  <2>0. child[c].at = "read" /\ ValidManifest
    BY <1>9 DEF Read, ReaderInv
  <2>1. CASE Goes(c, "failed")
    BY <1>2, <1>3, <2>1 DEF ReaderInv, Unread
  <2>2. CASE child' = [child EXCEPT ![c].loaded[f] = files[f]]
    <3>1. /\ child'[c].at = "read" /\ child'[c].loaded[f] = files[f]
          /\ \A g \in File : g # f => child'[c].loaded[g] = child[c].loaded[g]
      BY <1>1, <2>0, <2>2 DEF CacheTypeOK, ChildState
    <3> QED BY <1>3, <2>0, <3>1 DEF ReaderInv
  <2> QED BY <1>9, <2>1, <2>2 DEF Read
<1> QED BY <1>4, <1>5, <1>6, <1>7, <1>8, <1>9

(* The steps of one child that write or end it, as far as itself is concerned. *)
LEMMA OwnWriting ==
  ASSUME CacheInv, NEW c \in Child, ReaderInv(c),
         \/ LockTimeout(c) \/ Dies(c) \/ Certify(c)
         \/ \E f \in File : Write(c, f)
         \/ Inspect(c) /\ ~ ValidManifest
  PROVE  ReaderInv(c)'
<1>1. CacheTypeOK /\ child[c] \in ChildState
  BY DEF CacheInv, CacheTypeOK, ChildState, At
<1>2. \A at : Goes(c, at) => child'[c].at = at /\ child'[c].loaded = child[c].loaded
  BY <1>1 DEF Goes, CacheTypeOK, ChildState
<1>3. CASE LockTimeout(c) \/ Dies(c)
  <2>1. child'[c].at = "failed" /\ child'[c].loaded = child[c].loaded
    BY <1>2, <1>3 DEF LockTimeout, Dies
  <2> QED BY <2>1 DEF ReaderInv
<1>4. CASE Certify(c)
  <2>1. child[c].at = "build" /\ child[c].loaded = Unread
    BY <1>4 DEF Certify, ReaderInv
  <2>2. child'[c].at = "load" /\ child'[c].loaded = child[c].loaded /\ ValidManifest'
    BY <1>2, <1>4, CertifyKeeps DEF Certify
  <2> QED BY <2>1, <2>2 DEF ReaderInv, Unread
<1>5. ASSUME NEW f \in File, Write(c, f) PROVE ReaderInv(c)'
  <2>1. child[c].at = "build" /\ child[c].loaded = Unread
    BY <1>5 DEF Write, ReaderInv
  <2>2. child'[c].at = "build" /\ child'[c].loaded = child[c].loaded
    BY <1>1, <1>5 DEF Write, CacheTypeOK, ChildState
  <2> QED BY <2>1, <2>2 DEF ReaderInv, Unread
<1>6. CASE Inspect(c) /\ ~ ValidManifest
  <2>1. /\ child[c].at = "inspect" /\ child[c].loaded = Unread
        /\ child'[c].at = "build" /\ child'[c].loaded = child[c].loaded
    BY <1>1, <1>6 DEF Inspect, CacheTypeOK, ChildState, ReaderInv
  <2> QED BY <2>1 DEF ReaderInv, Unread
<1> QED BY <1>3, <1>4, <1>5, <1>6

(* The steps of the children, while nobody damages files or edits inputs. *)
LEMMA ChildrenKeepReaders ==
  ASSUME CacheInv, ReadersInv, NEW c \in Child, ChildStep(c) \/ LockTimeout(c) \/ Dies(c)
  PROVE  ReadersInv'
<1>1. /\ CacheTypeOK /\ Directory /\ ReaderInv(c) /\ child[c] \in ChildState
      /\ Missing \notin Bytes /\ Torn \notin Bytes
  BY ContentAssumption DEF CacheInv, ReadersInv, CacheTypeOK, ChildState, At
<1>2. \A d \in Child : d # c => child'[d] = child[d]
  BY <1>1 DEF ChildStep, CheckIdentity, Acquire, Inspect, Write, Certify, Load, Read, ReadAll,
              LockTimeout, Dies, Goes, environment, CacheTypeOK
<1>3. UNCHANGED <<files, manifest>> \/ ~ ValidManifest
  <2>1. CASE \/ CheckIdentity(c) \/ Acquire(c) \/ Load(c) \/ ReadAll(c) \/ LockTimeout(c)
             \/ \E f \in File : Read(c, f)
    BY <2>1 DEF CheckIdentity, Acquire, Load, ReadAll, LockTimeout, Read
  <2>2. CASE Inspect(c)
    BY <2>2 DEF Inspect
  <2>3. CASE Certify(c) \/ \E f \in File : Write(c, f)
    BY <1>1, <2>3 DEF Certify, Write, Directory
  <2>4. CASE Dies(c)
    BY <1>1, <2>4 DEF Dies, Directory
  <2> QED BY <2>1, <2>2, <2>3, <2>4 DEF ChildStep
<1>4. ASSUME NEW d \in Child, d # c PROVE ReaderInv(d)'
  BY <1>2, <1>3, <1>4, OthersRest DEF ReadersInv
<1>5. ReaderInv(c)'
  <2>1. CASE \/ CheckIdentity(c) \/ Acquire(c) \/ Load(c) \/ ReadAll(c)
             \/ \E f \in File : Read(c, f)
             \/ Inspect(c) /\ ValidManifest
    <3>1. UNCHANGED <<files, manifest>>
      BY <2>1 DEF CheckIdentity, Acquire, Load, ReadAll, Read, Inspect
    <3> QED BY <1>1, <1>2, <2>1, <3>1, OwnReading
  <2>2. CASE \/ LockTimeout(c) \/ Dies(c) \/ Certify(c)
             \/ \E f \in File : Write(c, f)
             \/ Inspect(c) /\ ~ ValidManifest
    BY <1>1, <1>2, <2>2, OwnWriting
  <2> QED BY <2>1, <2>2 DEF ChildStep
<1> QED BY <1>4, <1>5 DEF ReadersInv

(* What befalls the directory and the inputs while no child runs. *)
LEMMA QuietFaultsKeepReaders ==
  ASSUME CacheInv, ReadersInv, Quiet, EditInputs \/ \E f \in File : Damage(f)
  PROVE  ReadersInv'
<1>1. child' = child /\ \A c \in Child : child[c].at \in {"new", "done", "failed"}
  BY DEF EditInputs, Damage, Quiet
<1>2. ASSUME NEW c \in Child PROVE ReaderInv(c)'
  BY <1>1 DEF ReadersInv, ReaderInv, OneBuild, Unread
<1> QED BY <1>2 DEF ReadersInv

LEMMA ReadersInvHolds == ASSUME FaultsLive = FALSE PROVE CacheSpec => []ReadersInv
<1>1. CacheInv /\ ReadersInv /\ [CacheNext]_cache => ReadersInv'
  <2> SUFFICES ASSUME CacheInv, ReadersInv, [CacheNext]_cache PROVE ReadersInv'
    OBVIOUS
  <2>1. CASE EditInputs \/ \E f \in File : Damage(f)
    <3>1. Quiet
      BY <2>1 DEF EditInputs, Damage
    <3> QED BY <2>1, <3>1, QuietFaultsKeepReaders
  <2>2. CASE UNCHANGED cache
    BY <2>2 DEF cache, ReadersInv, ReaderInv, ValidManifest, OneBuild, Unread
  <2> QED BY <2>1, <2>2, ChildrenKeepReaders DEF CacheNext
<1> QED BY <1>1, CacheInvHolds, ReadersStart, PTL DEF CacheSpec

(* A manifest that validates certifies one generation, and every finished   *)
(* child computed its result from one, if files only rot while nobody runs. *)
THEOREM GenerationsStayWhole == ASSUME FaultsLive = FALSE PROVE CacheSpec => []GenerationsAreWhole
<1>1. CacheInv /\ ReadersInv => GenerationsAreWhole
  BY DEF CacheInv, Directory, ReadersInv, ReaderInv, GenerationsAreWhole, ValidManifest
<1> QED BY <1>1, CacheInvHolds, ReadersInvHolds, PTL
=============================================================================
