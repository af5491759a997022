---------------------------- MODULE ApplyPending ----------------------------
(***************************************************************************)
(* ApplyPending of apply.go: the pending records of the host's store, the  *)
(* images the daemon holds, and the containers that run them.              *)
(*                                                                         *)
(* A run reads the records, makes a plan for each one whose image is in    *)
(* use, pulls what is not current, restarts the containers of what it      *)
(* replaced (RestartPass; here one step per container, with its outcomes)  *)
(* and clears the records of what it applied.  Meanwhile registries        *)
(* publish images, the host detects updates, and its SelfUpdater replaces  *)
(* the containers it was handed; calls fail; the process may stop anywhere,*)
(* and the run with it.  Only the store, the daemon, the registries and    *)
(* the SelfUpdater outlive a run.                                          *)
(*                                                                         *)
(* A reference is normalized, and an image stands for its ID and its       *)
(* digest.  The host's UsedImageCollector is not set, and no container is  *)
(* out of scope.                                                           *)
(***************************************************************************)
EXTENDS Naturals, FiniteSets

CONSTANTS
  Refs, NoRef,        \* image references
  ByID,               \* what a container has for one when it was created from an image ID
  Images, NoImage,
  Containers,
  Records,            \* records of the store
  OldRef,             \* the reference a record is about: [Records -> Refs],
  LatestVersion,      \* and of a tag update the new one: [Records -> Refs \cup {NoRef}]
  RecordID,           \* the image a record's ID names, or NoImage: [Records -> Images \cup {NoImage}]
  Serves,             \* the images a registry may serve for a reference: [Refs -> SUBSET Images]
  FirstRefs,          \* the references that containers have at first
  Composed,           \* services of projects that the ProjectUpdater knows
  Targets,            \* containers that are the SelfUpdater's to replace
  Dependents,         \* containers that depend on others
  Modes,              \* the options a run may have
  LateInspects,       \* whether a restart can fail for want of inspect data
  MaxPublished,       \* bound on changes of the registries
  MaxFaults           \* bound on what goes wrong, crashes included

ASSUME RefsAssumption == NoRef # ByID /\ {NoRef, ByID} \cap Refs = {} /\ NoImage \notin Images
ASSUME RecordsAssumption ==
  /\ OldRef \in [Records -> Refs] /\ LatestVersion \in [Records -> Refs \cup {NoRef}]
  /\ RecordID \in [Records -> Images \cup {NoImage}]
ASSUME ServesAssumption == Serves \in [Refs -> (SUBSET Images) \ {{}}]
ASSUME FiniteAssumption == IsFiniteSet(Records) /\ IsFiniteSet(Containers)
ASSUME ContainersAssumption ==
  /\ FirstRefs \subseteq Refs
  /\ Composed \subseteq Containers /\ Targets \subseteq Containers /\ Composed \cap Targets = {}
  /\ Dependents \subseteq Containers
ASSUME ModesAssumption == Modes \subseteq {"normal", "force", "dry"}
ASSUME BoundsAssumption ==
  LateInspects \in BOOLEAN /\ MaxPublished \in Nat /\ MaxFaults \in Nat

VARIABLES
  remote,          \* the image each registry serves
  local,           \* the image the daemon has for each reference
  ref, runs,       \* each container's reference and image,
  up,              \* and those that are running
  handed,          \* the references of containers the SelfUpdater has yet to replace
  pending,         \* the records in the store,
  latest,          \* and the LatestDigest of each, NoImage when unset
  phase, mode,     \* of the run
  known,           \* the LatestDigests of the records the run has read
  todo,            \* plans yet to execute
  current,         \* the plan being pulled, or none
  oldIDs,          \* of each plan
  pulled, updated, \* plans pulled, and those of them with status Updated
  oldIDToNewRef, oldRefToNewRef,
  newRef,          \* the containers left to restart, and their references
  failedRefs,      \* the NewImages of failed restarts
  toClear,         \* the plans whose records are left to clear
  served,          \* what registries served since the run began
  published, faults   \* bounds

daemon   == <<local, ref, runs, up, handed>>
world    == <<remote, daemon, pending, latest>>
plans    == <<known, todo, current, oldIDs, pulled, updated, oldIDToNewRef, oldRefToNewRef>>
restarts == <<newRef, failedRefs>>
vars     == <<world, phase, mode, plans, restarts, toClear, served, published, faults>>

TypeOK ==
  /\ remote \in [Refs -> Images] /\ local \in [Refs -> Images \cup {NoImage}]
  /\ ref \in [Containers -> Refs \cup {ByID}] /\ runs \in [Containers -> Images]
  /\ up \subseteq Containers /\ handed \in [Containers -> Refs \cup {ByID, NoRef}]
  /\ pending \subseteq Records /\ latest \in [Records -> Images \cup {NoImage}]
  /\ phase \in {"idle", "plan", "pull", "restart", "clear"} /\ mode \in Modes \cup {"none"}
  /\ known \in [Records -> Images \cup {NoImage}]
  /\ todo \subseteq Records /\ current \subseteq Records /\ Cardinality(current) <= 1
  /\ current # {} <=> phase = "pull"
  /\ oldIDs \in [Records -> SUBSET Images]
  /\ updated \subseteq pulled /\ pulled \subseteq Records
  /\ oldIDToNewRef \in [Images -> Refs \cup {NoRef}]
  /\ oldRefToNewRef \in [Refs -> Refs \cup {NoRef}]
  /\ newRef \in [Containers -> Refs \cup {ByID, NoRef}]
  /\ failedRefs \subseteq Refs
  /\ toClear \subseteq pulled
  /\ served \in [Refs -> SUBSET Images]
  /\ published \in 0..MaxPublished /\ faults \in 0..MaxFaults

-----------------------------------------------------------------------------
Idle ==      \* no run, and nothing left of the last one
  /\ phase' = "idle" /\ mode' = "none"
  /\ todo' = {} /\ current' = {} /\ pulled' = {} /\ updated' = {} /\ toClear' = {}
  /\ known' = [r \in Records |-> NoImage] /\ oldIDs' = [r \in Records |-> {}]
  /\ oldIDToNewRef' = [i \in Images |-> NoRef] /\ oldRefToNewRef' = [x \in Refs |-> NoRef]
  /\ newRef' = [c \in Containers |-> NoRef] /\ failedRefs' = {}
  /\ served' = [x \in Refs |-> {}]

Init ==
  /\ remote \in [Refs -> Images] /\ \A x \in Refs : remote[x] \in Serves[x]
  /\ ref \in [Containers -> FirstRefs]
  /\ \E unused \in SUBSET {x \in Refs : \A c \in Containers : ref[c] # x} :
       local = [x \in Refs |-> IF x \in unused THEN NoImage ELSE remote[x]]
  /\ runs = [c \in Containers |-> local[ref[c]]] /\ up = Containers
  /\ handed = [c \in Containers |-> NoRef]
  /\ pending = {} /\ latest = [r \in Records |-> NoImage]
  /\ phase = "idle" /\ mode = "none"
  /\ todo = {} /\ current = {} /\ pulled = {} /\ updated = {} /\ toClear = {}
  /\ known = [r \in Records |-> NoImage] /\ oldIDs = [r \in Records |-> {}]
  /\ oldIDToNewRef = [i \in Images |-> NoRef] /\ oldRefToNewRef = [x \in Refs |-> NoRef]
  /\ newRef = [c \in Containers |-> NoRef] /\ failedRefs = {}
  /\ served = [x \in Refs |-> {}]
  /\ published = 0 /\ faults = 0

Faulty(n) == faults + n <= MaxFaults /\ faults' = faults + n
Faultless == UNCHANGED faults
Running   == phase # "idle"

(* The reference a record updates to: NewImageRef.                         *)
IsTagUpdate(r) == LatestVersion[r] # NoRef
NewRef == [r \in Records |-> IF IsTagUpdate(r) THEN LatestVersion[r] ELSE OldRef[r]]

(* What the daemon lists as the image of a container: its reference while  *)
(* that names the image it runs, the image's ID afterwards.                *)
ListedByRef(c) == ref[c] # ByID /\ local[ref[c]] = runs[c]

(* usedImages: an image ID normalizes to a reference nobody has.           *)
UsedImages == {ref[c] : c \in {d \in up : ListedByRef(d)}}
Applicable == {r \in pending : OldRef[r] \in UsedImages}

(* GetImageIDsForRef; nothing is found when the daemon cannot be asked.    *)
IDsForRef(x, asked) == IF asked THEN {local[x]} \ {NoImage} ELSE {}

(* The images a record replaces, with the one its own ID names.            *)
OldIDs(r, asked) == (IDsForRef(OldRef[r], asked) \cup {RecordID[r]}) \ {NoImage}

(* PendingImageUpdates, usedImages and buildUpdatePlans.  The IDs of a     *)
(* reference may not be found.                                             *)
Begin(m) ==
  /\ phase = "idle" /\ Applicable # {}
  /\ phase' = "plan" /\ mode' = m /\ todo' = Applicable
  /\ known' = [r \in Records |-> IF r \in Applicable THEN latest[r] ELSE NoImage]
  /\ \E blind \in SUBSET Applicable :
       /\ Faulty(Cardinality(blind))
       /\ oldIDs' = [r \in Records |-> IF r \in Applicable THEN OldIDs(r, r \notin blind) ELSE {}]
  /\ served' = [x \in Refs |-> {remote[x]}]
  /\ UNCHANGED <<world, current, pulled, updated, oldIDToNewRef, oldRefToNewRef, restarts, toClear,
                 published>>

-----------------------------------------------------------------------------
(* executeUpdatePlan.                                                      *)

(* Wrong on purpose: without a known digest, having the image is enough.   *)
UpToDateOffline(r) ==
  /\ local[NewRef[r]] # NoImage
  /\ known[r] # NoImage => local[NewRef[r]] = known[r]

MatchesKnownDigest(r)  == local[NewRef[r]] # NoImage /\ local[NewRef[r]] = known[r]
NeedsNoUpdate(r)       == local[NewRef[r]] # NoImage /\ local[NewRef[r]] = remote[NewRef[r]]

UpToDate(r) ==      \* planImageUpToDate, when its checks succeed
  IF ~IsTagUpdate(r) /\ known[r] # NoImage THEN MatchesKnownDigest(r) ELSE NeedsNoUpdate(r)

Skip(r) ==
  /\ phase = "plan" /\ r \in todo
  /\ mode = "dry" \/ (mode = "normal" /\ UpToDate(r))
  /\ todo' = todo \ {r}
  /\ UNCHANGED <<world, phase, mode, known, current, oldIDs, pulled, updated, oldIDToNewRef, oldRefToNewRef,
                 restarts, toClear, served, published, faults>>

(* The image needs the update, or the check failed, or was forced.         *)
StartPull(r) ==
  /\ phase = "plan" /\ r \in todo /\ mode # "dry"
  /\ IF mode = "normal" /\ UpToDate(r) THEN Faulty(1) ELSE Faultless
  /\ phase' = "pull" /\ current' = {r} /\ todo' = todo \ {r}
  /\ UNCHANGED <<world, mode, known, oldIDs, pulled, updated, oldIDToNewRef, oldRefToNewRef, restarts, toClear,
                 served, published>>

(* Wrong on purpose: the plan is marked as pulled before the pull.         *)
PullFailsMarked(r) ==
  /\ phase = "pull" /\ r \in current /\ Faulty(1)
  /\ phase' = "plan" /\ current' = {} /\ pulled' = pulled \cup {r}
  /\ UNCHANGED <<world, mode, known, todo, oldIDs, updated, oldIDToNewRef, oldRefToNewRef, restarts, toClear,
                 served, published>>

(* A pull that fails, or whose answer is lost once the image is there.     *)
PullFails(r) ==
  /\ phase = "pull" /\ r \in current /\ Faulty(1)
  /\ local' \in {local, [local EXCEPT ![NewRef[r]] = remote[NewRef[r]]]}
  /\ phase' = "plan" /\ current' = {}
  /\ UNCHANGED <<remote, ref, runs, up, handed, pending, latest, mode, known, todo, oldIDs, pulled, updated,
                 oldIDToNewRef, oldRefToNewRef, restarts, toClear, served, published>>

(* Wrong on purpose: only a pull that replaces nothing is marked.          *)
PullUnmarked(r) ==
  /\ phase = "pull" /\ r \in current
  /\ local' = [local EXCEPT ![NewRef[r]] = remote[NewRef[r]]]
  /\ updated' = updated \cup {r}
  /\ oldIDToNewRef' = [i \in Images |-> IF i \in oldIDs[r] THEN NewRef[r] ELSE oldIDToNewRef[i]]
  /\ oldRefToNewRef' = [oldRefToNewRef EXCEPT ![OldRef[r]] = NewRef[r]]
  /\ phase' = "plan" /\ current' = {}
  /\ UNCHANGED <<remote, ref, runs, up, handed, pending, latest, mode, known, todo, oldIDs, pulled,
                 restarts, toClear, served, published, faults>>

(* Wrong on purpose: the old images of every plan lead to this update.     *)
PullMapsAll(r) ==
  /\ phase = "pull" /\ r \in current
  /\ local' = [local EXCEPT ![NewRef[r]] = remote[NewRef[r]]]
  /\ pulled' = pulled \cup {r} /\ updated' = updated \cup {r}
  /\ oldIDToNewRef' = [i \in Images |-> IF \E s \in Records : i \in oldIDs[s] THEN NewRef[r]
                                        ELSE oldIDToNewRef[i]]
  /\ phase' = "plan" /\ current' = {}
  /\ UNCHANGED <<remote, ref, runs, up, handed, pending, latest, mode, known, todo, oldIDs, oldRefToNewRef,
                 restarts, toClear, served, published, faults>>

(* The image is pulled; unless forced, one that the record already had is  *)
(* up to date and replaces nothing.  The lookup of its ID may fail.        *)
Pull(r) ==
  /\ phase = "pull" /\ r \in current
  /\ local' = [local EXCEPT ![NewRef[r]] = remote[NewRef[r]]]
  /\ pulled' = pulled \cup {r}
  /\ \/ /\ mode = "normal" /\ remote[NewRef[r]] \in oldIDs[r] /\ Faultless
        /\ UNCHANGED <<updated, oldIDToNewRef, oldRefToNewRef>>
     \/ /\ IF mode = "normal" /\ remote[NewRef[r]] \in oldIDs[r] THEN Faulty(1) ELSE Faultless
        /\ updated' = updated \cup {r}
        /\ oldIDToNewRef' = [i \in Images |-> IF i \in oldIDs[r] THEN NewRef[r] ELSE oldIDToNewRef[i]]
        /\ oldRefToNewRef' = [oldRefToNewRef EXCEPT ![OldRef[r]] = NewRef[r]]
  /\ phase' = "plan" /\ current' = {}
  /\ UNCHANGED <<remote, ref, runs, up, handed, pending, latest, mode, known, todo, oldIDs, restarts,
                 toClear, served, published>>

-----------------------------------------------------------------------------
(* restartAfterApply and RestartContainersUsingOldImages.                  *)

(* ResolveContainerImageMatch, by image and then by reference, for which a *)
(* container listed by ID has to be inspected.                             *)
Match(c, blind) ==
  IF oldIDToNewRef[runs[c]] # NoRef THEN oldIDToNewRef[runs[c]]
  ELSE IF ref[c] # ByID /\ (ListedByRef(c) \/ c \notin blind) THEN oldRefToNewRef[ref[c]]
  ELSE NoRef

(* Containers that match an update and do not run it yet; a reference      *)
(* whose IDs were not found once has none for the whole scan (RefIDCache). *)
Explicit(c, blind, lost) ==
  LET x == Match(c, blind) IN x # NoRef /\ runs[c] \notin IDsForRef(x, x \notin lost)

(* The scan: the explicit candidates, and dependents that are restarted    *)
(* from the reference they have.  Inspecting containers and looking up the *)
(* images of references may fail.                                          *)
Scan ==
  /\ phase = "plan" /\ todo = {} /\ updated # {}
  /\ \E blind \in SUBSET {c \in up : ~ListedByRef(c)}, lost \in SUBSET {NewRef[r] : r \in updated} :
     LET explicit == {c \in up : Explicit(c, blind, lost)} IN
       /\ Faulty(Cardinality(blind) + Cardinality(lost))
       /\ \E implicit \in SUBSET ((Dependents \cap up) \ explicit) :
            /\ explicit = {} => implicit = {}
            /\ newRef' = [c \in Containers |-> IF c \in explicit THEN Match(c, blind)
                                               ELSE IF c \in implicit THEN ref[c] ELSE NoRef]
  /\ phase' = "restart"
  /\ UNCHANGED <<world, mode, plans, failedRefs, toClear, served, published>>

(* The containers cannot be listed: the run ends with an error.            *)
ScanFails ==
  /\ phase = "plan" /\ todo = {} /\ updated # {}
  /\ Faulty(1) /\ Idle
  /\ UNCHANGED <<world, published>>

Recreated(c, x) ==      \* from a reference
  /\ runs' = [runs EXCEPT ![c] = IF x = ByID THEN @ ELSE local[x]]
  /\ ref' = [ref EXCEPT ![c] = x]
  /\ UNCHANGED up

(* The rollback creates the container from the ID of its image.            *)
RolledBack(c) == ref' = [ref EXCEPT ![c] = ByID] /\ UNCHANGED <<runs, up>>
Down(c)       == up' = up \ {c} /\ UNCHANGED <<ref, runs>>
Untouched     == UNCHANGED <<ref, runs, up>>

(* A failed result names the reference.                                    *)
Fails(c) == failedRefs' = failedRefs \cup ({newRef[c]} \cap Refs)

(* A restart; or one that fails, before or after the fact, and is rolled   *)
(* back, or not.                                                           *)
RestartStandalone(c) ==
  /\ c \notin Composed \cup Targets
  /\ \/ Faultless /\ Recreated(c, newRef[c]) /\ UNCHANGED failedRefs
     \/ Faulty(1) /\ Fails(c) /\ (Recreated(c, newRef[c]) \/ RolledBack(c) \/ Down(c) \/ Untouched)
  /\ UNCHANGED handed

(* docker compose recreates a service from the project's own files,        *)
(* whatever the update's reference; a service that has the image it had    *)
(* counts as failed.                                                       *)
RestartService(c) ==
  /\ c \in Composed
  /\ \/ /\ Faultless /\ Recreated(c, ref[c])
        /\ IF runs'[c] = runs[c] THEN Fails(c) ELSE UNCHANGED failedRefs
     \/ Faulty(1) /\ Fails(c) /\ (Recreated(c, ref[c]) \/ Down(c) \/ Untouched)
  /\ UNCHANGED handed

(* triggerDeferredSelfUpdates: last, and what has been triggered counts as *)
(* updated.  A failed trigger may have reached the SelfUpdater.            *)
Trigger(c) ==
  /\ c \in Targets /\ \A d \in Containers \ Targets : newRef[d] = NoRef
  /\ \/ Faultless /\ handed' = [handed EXCEPT ![c] = newRef[c]] /\ UNCHANGED failedRefs
     \/ Faulty(1) /\ Fails(c) /\ handed' \in {handed, [handed EXCEPT ![c] = newRef[c]]}
  /\ Untouched

(* There may be no inspect data to restart from.                           *)
Restart(c) ==
  /\ phase = "restart" /\ newRef[c] # NoRef
  /\ \/ RestartStandalone(c) \/ RestartService(c) \/ Trigger(c)
     \/ Faulty(1) /\ LateInspects /\ Untouched /\ UNCHANGED <<handed, failedRefs>>
  /\ newRef' = [newRef EXCEPT ![c] = NoRef]
  /\ UNCHANGED <<remote, local, pending, latest, phase, mode, plans, toClear, served, published>>

-----------------------------------------------------------------------------
(* Wrong on purpose: the results of the restarts are not looked at.        *)
EndRestartsBlindly ==
  /\ \/ phase = "restart" /\ \A c \in Containers : newRef[c] = NoRef
     \/ phase = "plan" /\ todo = {} /\ updated = {}
  /\ phase' = "clear" /\ toClear' = pulled
  /\ UNCHANGED <<world, mode, plans, restarts, served, published, faults>>

(* markRestartFailedPlans.                                                 *)
EndRestarts ==
  /\ \/ phase = "restart" /\ \A c \in Containers : newRef[c] = NoRef
     \/ phase = "plan" /\ todo = {} /\ updated = {}
  /\ phase' = "clear"
  /\ toClear' = {r \in pulled : NewRef[r] \notin failedRefs}
  /\ UNCHANGED <<world, mode, plans, restarts, served, published, faults>>

(* clearAppliedPlanRecords: a record that cannot be cleared stays.         *)
Clear(r) ==
  /\ phase = "clear" /\ r \in toClear
  /\ \/ Faultless /\ pending' = pending \ {r}
     \/ Faulty(1) /\ UNCHANGED pending
  /\ toClear' = toClear \ {r}
  /\ UNCHANGED <<remote, daemon, latest, phase, mode, plans, restarts, served, published>>

End ==
  /\ phase = "clear" /\ toClear = {}
  /\ Idle
  /\ UNCHANGED <<world, published, faults>>

(* The process stops, or the context is done: containers that were stopped *)
(* for their restart stay down.                                            *)
Crash ==
  /\ Running /\ Faulty(1)
  /\ \E stopped \in SUBSET {c \in up \ Targets : newRef[c] # NoRef} : up' = up \ stopped
  /\ Idle
  /\ UNCHANGED <<remote, local, ref, runs, handed, pending, latest, published>>

-----------------------------------------------------------------------------
(* Outside the module: registries, the host's detection of updates, and    *)
(* its SelfUpdater.                                                        *)
Publish(x) ==
  /\ published < MaxPublished /\ published' = published + 1
  /\ \E i \in Serves[x] : remote' = [remote EXCEPT ![x] = i]
  /\ served' = [served EXCEPT ![x] = IF Running THEN @ \cup {remote'[x]} ELSE @]
  /\ UNCHANGED <<daemon, pending, latest, phase, mode, plans, restarts, toClear, faults>>

(* A record for another tag, or for an image that differs from the local   *)
(* one and whose digest it may carry.                                      *)
Detect(r) ==
  /\ \E c \in up : ref[c] = OldRef[r]
  /\ IsTagUpdate(r) \/ remote[NewRef[r]] # local[OldRef[r]]
  /\ pending' = pending \cup {r}
  /\ \E digest \in {NoImage} \cup {i \in {remote[NewRef[r]]} : ~IsTagUpdate(r)} :
       latest' = [latest EXCEPT ![r] = digest]
  /\ UNCHANGED <<remote, daemon, phase, mode, plans, restarts, toClear, served, published,
                 faults>>

(* The SelfUpdater replaces a container it was handed, sooner or later or  *)
(* never; not between the scan of a later run and its trigger.             *)
SelfUpdate(c) ==
  /\ handed[c] # NoRef /\ newRef[c] = NoRef
  /\ Recreated(c, handed[c]) /\ handed' = [handed EXCEPT ![c] = NoRef]
  /\ UNCHANGED <<remote, local, pending, latest, phase, mode, plans, restarts, toClear, served, published,
                 faults>>

Step ==
  \/ \E m \in Modes : Begin(m)
  \/ \E r \in Records : Skip(r) \/ StartPull(r) \/ PullFails(r) \/ Pull(r) \/ Clear(r)
  \/ \E c \in Containers : Restart(c)
  \/ Scan \/ ScanFails \/ EndRestarts \/ End

Environment ==
  \/ Crash
  \/ \E x \in Refs : Publish(x)
  \/ \E r \in Records : Detect(r)
  \/ \E c \in Containers : SelfUpdate(c)

Next == Step \/ Environment
Spec == Init /\ [][Next]_vars

(* The host calls ApplyPending again and again, and calls return.          *)
FairSpec == Spec /\ WF_vars(Step)

-----------------------------------------------------------------------------
(* A plan whose restart failed keeps its record: a record that goes takes  *)
(* no container along that still runs an image its update replaced, unless *)
(* the SelfUpdater has been handed that container and the new reference.   *)
FailedRestartKeepsRecord ==
  [][\A r \in updated \cap (pending \ pending'), c \in up :
       runs[c] \in oldIDs[r] => runs[c] = local[NewRef[r]] \/ handed[c] = NewRef[r]]_vars

(* A record goes only when its image was pulled in the run: what the daemon*)
(* then has, the registry served since the run began.  Failed pulls, dry   *)
(* runs and interrupted runs keep records.                                 *)
ClearedWasPulled ==
  [][\A r \in pending \ pending' : local[NewRef[r]] \in served[NewRef[r]]]_vars

(* A container changes its reference, or is handed over with another one,  *)
(* only as an update of this run to its own reference says it should, or   *)
(* loses it by a rollback; one that has lost it follows an update of the   *)
(* image it runs.  The SelfUpdater does what it was handed.                *)
FollowsUpdate(c, x) ==
  \E r \in updated :
    /\ NewRef[r] = x
    /\ OldRef[r] = ref[c] \/ (ref[c] = ByID /\ runs[c] \in Serves[OldRef[r]])
FollowsItsRecord ==
  [][\A c \in Containers :
       /\ ref'[c] \notin {ref[c], ByID, handed[c]} => FollowsUpdate(c, ref'[c])
       /\ handed'[c] \notin {handed[c], NoRef, ByID, ref[c]} => FollowsUpdate(c, handed'[c])]_vars

(* A pending update is applied sooner or later: its record goes, or what   *)
(* runs an image of its reference runs the one the registry serves.        *)
EveryUpdateIsApplied ==
  \A r \in Records :
    r \in pending ~> \/ r \notin pending
                    \/ \A c \in up :
                         runs[c] \in Serves[OldRef[r]] => runs[c] = remote[NewRef[r]]
=============================================================================
