--------------------------- MODULE UpdateContainer ---------------------------
(***************************************************************************)
(* UpdateContainer of container.go: a container is inspected and its image *)
(* pulled; when that changed the image, the container is recreated by the  *)
(* SelfUpdater, by docker compose, or by the updater itself.  At the end   *)
(* the pending records of its reference are cleared.                       *)
(*                                                                         *)
(* Calls run concurrently, on one container too, and each request to the   *)
(* daemon is a step of its own: a call may inspect a container another one *)
(* has created and not started yet.  (ContainerRecreate looks at the same  *)
(* requests for one name, and at more of what may become of them.)  docker *)
(* compose is external, and one step; the ProjectUpdater is the default    *)
(* one (compose_updater.go).  An image is the version its registry served  *)
(* it as: versions are published in order, and the host saves a record     *)
(* when it sees a new one.                                                 *)
(***************************************************************************)
EXTENDS Naturals

CONSTANTS
  Calls,             \* the calls of UpdateContainer
  Containers,
  Refs,
  Ref,               \* the reference each container runs: [Containers -> Refs]
  Routes,            \* those each may take: [Containers -> SUBSET Kinds]
  Records,           \* records of the pending store
  OldRef, NewRef,    \* what a record replaces by what: [Records -> Refs]
  Modes,             \* the options of calls
  MaxVersion,        \* bound on the versions published
  MaxFaults          \* bound on what goes wrong, crashes included

ASSUME RefAssumption == Ref \in [Containers -> Refs]
(* The ways containers are recreated, or why they are not.                 *)
Kinds == {"standalone",
          "compose",   \* it has the labels of a service
          "self",      \* isSelfUpdateCandidate
          "none"}      \* disabled, a Swarm task, or without a pullable reference

ASSUME RoutesAssumption == Routes \in [Containers -> SUBSET Kinds]
ASSUME RecordsAssumption == OldRef \in [Records -> Refs] /\ NewRef \in [Records -> Refs]
ASSUME ModesAssumption == Modes \subseteq {"normal", "force", "dry"}
ASSUME BoundsAssumption == MaxVersion \in Nat /\ MaxFaults \in Nat

VARIABLES
  route,           \* of each container
  remote, local,   \* the version of each reference in its registry and in the daemon
  exists, up,      \* the names that have a container, and a running one
  runs,            \* the version of each container (of the last one there was)
  life,            \* how often a name got a new container: the ID of the last
  pinned,          \* those rolled back: created from the ID of their image
  pending,         \* the records in the store
  call,            \* the locals of each call
  faults           \* bound

replaced == <<exists, runs, life, pinned>>
daemon   == <<up, replaced>>
world    == <<route, remote, local, daemon>>
vars     == <<world, pending, call, faults>>

Versions == 0..MaxVersion

Call == [pc      : {"idle", "pull", "compare", "route", "compose", "stop", "remove", "create", "start",
                    "inspect", "record", "cleanup", "records", "clear", "done"},
         mode    : Modes,
         target  : Containers,
         id      : Nat,               \* of the target when it was inspected,
         image   : Versions,          \* its image,
         from    : {"reference", "image"},   \* and what it was created from
         since   : Versions,          \* what the registry served when the call began
         attempt : {"update", "rollback"},
         own     : Nat,               \* the ID of the container the attempt has created, or 0
         due     : SUBSET Records,    \* records left to clear
         result  : {"none", "Skipped", "Unchanged", "Failed", "Updated"}]

TypeOK ==
  /\ route \in [Containers -> Kinds]
  /\ remote \in [Refs -> Versions] /\ local \in [Refs -> Versions]
  /\ exists \subseteq Containers /\ up \subseteq exists /\ runs \in [Containers -> Versions]
  /\ life \in [Containers -> Nat] /\ pinned \subseteq Containers
  /\ pending \subseteq Records
  /\ call \in [Calls -> Call]
  /\ \A w \in Calls : call[w].due # {} => call[w].pc = "clear"
  /\ faults \in 0..MaxFaults

-----------------------------------------------------------------------------
At(w, pc)       == call[w].pc = pc
Target(w)       == call[w].target
TargetRef(w)    == Ref[Target(w)]
Goto(w, pc)     == call' = [call EXCEPT ![w].pc = pc]
Return(w, res)  == call' = [call EXCEPT ![w].pc = "done", ![w].result = res]
Applied(w, res) == call' = [call EXCEPT ![w].pc = "records", ![w].result = res]
Faulty          == faults < MaxFaults /\ faults' = faults + 1
Faultless       == UNCHANGED faults

Init ==
  /\ route \in [Containers -> Kinds] /\ \A c \in Containers : route[c] \in Routes[c]
  /\ remote = [x \in Refs |-> 0] /\ local = [x \in Refs |-> 0]
  /\ exists = Containers /\ up = Containers /\ runs = [c \in Containers |-> 0] /\ life = [c \in Containers |-> 0]
  /\ pinned = {}
  /\ pending = {}
  /\ call \in [Calls -> {[pc |-> "idle", mode |-> m, target |-> c, id |-> 0, image |-> 0,
                          from |-> "reference", since |-> 0, attempt |-> "update", own |-> 0,
                          due |-> {}, result |-> "none"] : m \in Modes, c \in Containers}]
  /\ faults = 0

(* The container the call asks for is listed and inspected, running or not;*)
(* a call that finds none, or cannot ask, ends at once.                    *)
Begin(w) ==
  /\ At(w, "idle") /\ Target(w) \in exists
  /\ call' = [call EXCEPT ![w] = [@ EXCEPT !.pc = "pull", !.id = life[Target(w)],
                                           !.image = runs[Target(w)],
                                           !.from = IF Target(w) \in pinned THEN "image" ELSE "reference",
                                           !.since = remote[TargetRef(w)]]]
  /\ UNCHANGED <<world, pending, faults>>

(* PullableImageRef: of a container that was created from an image ID, the *)
(* reference is known from the tags of its image only.                     *)
Nameless(w) == call[w].from = "image" /\ local[TargetRef(w)] # call[w].image

Skipped(w) == route[Target(w)] = "none" \/ call[w].mode = "dry" \/ Nameless(w)

Skip(w) ==
  /\ At(w, "pull")
  /\ \/ Skipped(w) /\ Faultless
     \/ call[w].from = "image" /\ Faulty      \* its image cannot be inspected
  /\ Return(w, "Skipped")
  /\ UNCHANGED <<world, pending>>

(* PullImage, which may fail before or after the fact, or be missing.      *)
Pull(w) ==
  /\ At(w, "pull") /\ ~Skipped(w)
  /\ \/ /\ Faultless /\ Goto(w, "compare")
        /\ local' = [local EXCEPT ![TargetRef(w)] = remote[TargetRef(w)]]
     \/ /\ Faulty /\ Return(w, "Failed")
        /\ local' \in {local, [local EXCEPT ![TargetRef(w)] = remote[TargetRef(w)]]}
  /\ UNCHANGED <<route, remote, daemon, pending>>

(* CompareWithPulled: the image of the inspect against the one there is    *)
(* now; when that cannot be inspected it counts as changed.                *)
Compare(w) ==
  LET unchanged == call[w].image = local[TargetRef(w)] /\ call[w].mode # "force" IN
  /\ At(w, "compare")
  /\ \/ unchanged /\ Faultless /\ Applied(w, "Unchanged")
     \/ (IF unchanged THEN Faulty ELSE Faultless) /\ Goto(w, "route")
  /\ UNCHANGED <<world, pending>>

(* triggerSelfUpdate: the SelfUpdater accepts, or fails, or is missing.    *)
Trigger(w) ==
  /\ At(w, "route") /\ route[Target(w)] = "self"
  /\ \/ Faultless /\ Applied(w, "Updated")
     \/ Faulty /\ Return(w, "Failed")
  /\ UNCHANGED <<world, pending>>

(* resolveProjectMetadata: compose is told the directory and the files of  *)
(* the project by the labels of any of its containers.  The services are   *)
(* of one project here.                                                    *)
ProjectKnown == \E c \in exists : route[c] = "compose"

(* updateComposeOrStandalone: when its project cannot be resolved, a       *)
(* service is recreated like a standalone container.                       *)
ChooseRoute(w) ==
  LET resolved == route[Target(w)] = "compose" /\ ProjectKnown IN
  /\ At(w, "route") /\ route[Target(w)] # "self"
  /\ \/ Faultless /\ Goto(w, IF resolved THEN "compose" ELSE "stop")
     \/ resolved /\ Faulty /\ Goto(w, "stop")
  /\ UNCHANGED <<world, pending>>

(* The name gets a container of the given version, created from its        *)
(* reference, or from the ID of the image by a rollback; or loses it.      *)
Put(c, version) ==
  /\ exists' = exists \cup {c}
  /\ runs' = [runs EXCEPT ![c] = version]
  /\ life' = [life EXCEPT ![c] = @ + 1]

FromReference(c)    == Put(c, local[Ref[c]]) /\ pinned' = pinned \ {c}
FromImage(c, image) == Put(c, image) /\ pinned' = pinned \cup {c}
Take(c)             == exists' = exists \ {c} /\ UNCHANGED <<runs, life, pinned>>

(* UpdateServices: the project is looked up again, and docker compose told *)
(* to recreate the service from its reference, whatever container it has   *)
(* by now.  With an error it was recreated, is gone, or is as it was, and  *)
(* need not run.                                                           *)
UpdateService(w) ==
  LET c == Target(w) IN
  /\ At(w, "compose")
  /\ \/ /\ ProjectKnown /\ Faultless /\ Applied(w, "Updated")
        /\ FromReference(c) /\ up' = up \cup {c}
     \/ /\ ProjectKnown /\ Faulty /\ Return(w, "Failed")
        /\ \/ FromReference(c) /\ up' \in {up \cup {c}, up \ {c}}
           \/ Take(c) /\ up' = up \ {c}
           \/ UNCHANGED replaced /\ up' \in {up, up \ {c}}
     \/ ~ProjectKnown /\ Return(w, "Failed") /\ UNCHANGED <<daemon, faults>>
  /\ UNCHANGED <<route, remote, local, pending>>

-----------------------------------------------------------------------------
(* updateStandaloneContainer, request by request.  The container that was  *)
(* inspected has to be there still for the first two; a request that fails *)
(* may have been carried out.                                              *)
Holds(w, id) == Target(w) \in exists /\ life[Target(w)] = id

Stop(w) ==
  LET c == Target(w)  here == Holds(w, call[w].id) IN
  /\ At(w, "stop")
  /\ \/ here /\ Faultless /\ Goto(w, "remove") /\ up' = up \ {c}
     \/ here /\ Faulty /\ Return(w, "Failed") /\ up' \in {up, up \ {c}}
     \/ ~here /\ Faultless /\ Return(w, "Failed") /\ UNCHANGED up
  /\ UNCHANGED <<route, remote, local, replaced, pending>>

(* The remove is not forced: it is refused for a container that runs again.*)
Remove(w) ==
  LET c == Target(w)  can == Holds(w, call[w].id) /\ c \notin up IN
  /\ At(w, "remove")
  /\ \/ can /\ Faultless /\ Goto(w, "create") /\ Take(c)
     \/ can /\ Faulty /\ Return(w, "Failed") /\ (Take(c) \/ UNCHANGED replaced)
     \/ ~can /\ Faultless /\ Return(w, "Failed") /\ UNCHANGED replaced
  /\ UNCHANGED <<route, remote, local, up, pending>>

(* createStartOrRollback: the first failure is followed by a rollback, and *)
(* a failure of that is the end of the call.                               *)
NextAttempt(w) ==
  \/ /\ call[w].attempt = "update"
     /\ call' = [call EXCEPT ![w].pc = "create", ![w].attempt = "rollback", ![w].own = 0]
  \/ call[w].attempt = "rollback" /\ Return(w, "Failed")

PutAttempt(w) ==
  \/ call[w].attempt = "update" /\ FromReference(Target(w))
  \/ call[w].attempt = "rollback" /\ FromImage(Target(w), call[w].image)

(* createAndStartStandaloneContainer: the name has to be free; there is    *)
(* nothing to clean up without an ID.                                      *)
Create(w) ==
  LET c == Target(w) IN
  /\ At(w, "create")
  /\ \/ /\ c \notin exists /\ Faultless /\ PutAttempt(w)
        /\ call' = [call EXCEPT ![w].pc = "start", ![w].own = life[c] + 1]
     \/ c \notin exists /\ Faulty /\ NextAttempt(w) /\ (PutAttempt(w) \/ UNCHANGED replaced)
     \/ c \in exists /\ Faultless /\ NextAttempt(w) /\ UNCHANGED replaced
  /\ UNCHANGED <<route, remote, local, up, pending>>

(* Wrong on purpose: a start error is taken for a container that runs.     *)
StartIgnoringErrors(w) ==
  LET c == Target(w) IN
  /\ At(w, "start")
  /\ Goto(w, "record")
  /\ \/ Holds(w, call[w].own) /\ Faultless /\ up' = up \cup {c}
     \/ Holds(w, call[w].own) /\ Faulty /\ up' \in {up, up \cup {c}}
     \/ ~Holds(w, call[w].own) /\ Faultless /\ UNCHANGED up
  /\ UNCHANGED <<route, remote, local, replaced, pending>>

Start(w) ==
  LET c == Target(w)  here == Holds(w, call[w].own) IN
  /\ At(w, "start")
  /\ \/ here /\ Faultless /\ Goto(w, "record") /\ up' = up \cup {c}
     \/ here /\ Faulty /\ Goto(w, "inspect") /\ up' \in {up, up \cup {c}}
     \/ ~here /\ Faultless /\ Goto(w, "inspect") /\ UNCHANGED up
  /\ UNCHANGED <<route, remote, local, replaced, pending>>

(* containerRunning decides after an error of the start.                   *)
Inspect(w) ==
  LET running == Holds(w, call[w].own) /\ Target(w) \in up IN
  /\ At(w, "inspect")
  /\ \/ Faultless /\ Goto(w, IF running THEN "record" ELSE "cleanup")
     \/ running /\ Faulty /\ Goto(w, "cleanup")
  /\ UNCHANGED <<world, pending>>

(* Wrong on purpose: a rollback that succeeds is taken for an update.      *)
RecordAnyAttempt(w) ==
  /\ At(w, "record")
  /\ \/ Faultless /\ Applied(w, "Updated")
     \/ Faulty /\ Goto(w, "cleanup")
  /\ UNCHANGED <<world, pending>>

(* The last event of an attempt; with a rollback the update has failed.    *)
Record(w) ==
  /\ At(w, "record")
  /\ \/ call[w].attempt = "update" /\ Faultless /\ Applied(w, "Updated")
     \/ call[w].attempt = "rollback" /\ Faultless /\ Return(w, "Failed")
     \/ Faulty /\ Goto(w, "cleanup")
  /\ UNCHANGED <<world, pending>>

(* removeFailedCreatedContainer: forced; its error is only logged.         *)
Cleanup(w) ==
  LET c == Target(w)  here == Holds(w, call[w].own) IN
  /\ At(w, "cleanup")
  /\ NextAttempt(w)
  /\ \/ here /\ Faultless /\ Take(c) /\ up' = up \ {c}
     \/ here /\ Faulty /\ UNCHANGED daemon
     \/ ~here /\ Faultless /\ UNCHANGED daemon
  /\ UNCHANGED <<route, remote, local, pending>>

-----------------------------------------------------------------------------
(* Wrong on purpose: records are matched by the reference they replace.    *)
ReadRecordsByOldRef(w) ==
  /\ At(w, "records")
  /\ Faultless
  /\ call' = [call EXCEPT ![w].pc = "clear", ![w].due = {r \in pending : OldRef[r] = TargetRef(w)}]
  /\ UNCHANGED <<world, pending>>

(* clearPendingRecord: the records whose new reference was applied are     *)
(* read, if the store can be read, ...                                     *)
ReadRecords(w) ==
  /\ At(w, "records")
  /\ \/ /\ Faultless
        /\ call' = [call EXCEPT ![w].pc = "clear",
                                ![w].due = {r \in pending : NewRef[r] = TargetRef(w)}]
     \/ Faulty /\ Goto(w, "done")
  /\ UNCHANGED <<world, pending>>

(* Wrong on purpose: the loop ends with the first record.                  *)
ClearFirst(w, r) ==
  /\ At(w, "clear") /\ r \in call[w].due
  /\ pending' = pending \ {r} /\ Goto(w, "done")
  /\ UNCHANGED <<world, faults>>

(* ... and cleared one by one; one that cannot be cleared stays.           *)
Clear(w, r) ==
  /\ At(w, "clear") /\ r \in call[w].due
  /\ \/ Faultless /\ pending' = pending \ {r}
     \/ Faulty /\ UNCHANGED pending
  /\ call' = [call EXCEPT ![w].due = @ \ {r}]
  /\ UNCHANGED world

Finish(w) ==
  /\ At(w, "clear") /\ call[w].due = {}
  /\ Goto(w, "done")
  /\ UNCHANGED <<world, pending, faults>>

-----------------------------------------------------------------------------
(* The process dies, and the calls under way with it.                      *)
Crash ==
  /\ Faulty
  /\ call' = [w \in Calls |-> IF At(w, "idle") \/ At(w, "done") THEN call[w]
                              ELSE [call[w] EXCEPT !.pc = "done", !.due = {}, !.result = "none"]]
  /\ UNCHANGED <<world, pending>>

Publish(x) ==
  /\ remote[x] < MaxVersion
  /\ remote' = [remote EXCEPT ![x] = @ + 1]
  /\ UNCHANGED <<route, local, daemon, pending, call, faults>>

(* The host checks, finds a newer image or another tag, and saves a record.*)
Detect(r) ==
  /\ \E c \in exists : Ref[c] = OldRef[r]
  /\ OldRef[r] = NewRef[r] => local[NewRef[r]] < remote[NewRef[r]]
  /\ pending' = pending \cup {r}
  /\ UNCHANGED <<world, call, faults>>

Step(w) ==
  \/ Begin(w) \/ Skip(w) \/ Pull(w) \/ Compare(w) \/ Trigger(w) \/ ChooseRoute(w)
  \/ UpdateService(w) \/ Stop(w) \/ Remove(w) \/ Create(w) \/ Start(w) \/ Inspect(w) \/ Record(w)
  \/ Cleanup(w) \/ ReadRecords(w) \/ Finish(w)
  \/ \E r \in Records : Clear(w, r)

Environment ==
  \/ Crash
  \/ \E x \in Refs : Publish(x)
  \/ \E r \in Records : Detect(r)

Next == Environment \/ \E w \in Calls : Step(w)

Spec == Init /\ [][Next]_vars

-----------------------------------------------------------------------------
Succeeded(w) == call[w].result \in {"Updated", "Unchanged"}

(* Where the updater recreates a container itself or through compose, a    *)
(* call that reports it updated or unchanged has brought it to what the    *)
(* registry served when the call began, whatever other calls pull, replace *)
(* and take from each other; unless another call has rolled it back, to    *)
(* the image that one had inspected, and that one does not report success. *)
(* (A SelfUpdater works after the call is over.)                           *)
RolledBackBy(v, c) ==
  /\ Target(v) = c /\ call[v].attempt = "rollback" /\ ~Succeeded(v)
  /\ c \in pinned /\ runs[c] = call[v].image

ReportIsTrue ==
  \A w \in Calls : LET c == Target(w) IN
    Succeeded(w) /\ route[c] # "self" /\ c \in exists =>
      runs[c] >= call[w].since \/ \E v \in Calls : RolledBackBy(v, c)

(* A container is down only while a call is replacing it, or after a call  *)
(* that did not report success: calls that meet in the middle of a         *)
(* replacement do not lose the container between them.                     *)
Replacing(w) == call[w].pc \in {"remove", "create", "start", "inspect", "cleanup"}
EndedBadly(w) == At(w, "done") /\ call[w].result \in {"none", "Failed"}

OutageIsReported ==
  \A c \in Containers \ up : \E w \in Calls : Target(w) = c /\ (Replacing(w) \/ EndedBadly(w))

(* A record goes only with a call that applied its new reference: a failed,*)
(* skipped or interrupted call clears nothing, and a tag update stays      *)
(* pending when only the old tag was pulled again.                         *)
ClearedWasApplied ==
  [][\A r \in pending \ pending' :
       \E w \in Calls : Succeeded(w) /\ TargetRef(w) = NewRef[r]]_pending
=============================================================================
