----------------------------- MODULE RestartPass -----------------------------
(***************************************************************************)
(* One restart pass: executeRestartPlans of restart.go, from the ordered   *)
(* candidates (RestartOrder) to their results.                             *)
(*                                                                         *)
(* Candidates of a known compose project are updated at once, project by   *)
(* project, through the ProjectUpdater; standalone ones are queued, stopped*)
(* and removed from last to first, then recreated from first to last;      *)
(* self-update targets are triggered at the very end, because the trigger  *)
(* may stop the process that runs the pass.                                *)
(*                                                                         *)
(* createStartOrRollback is one step here, with the outcomes that          *)
(* ContainerRecreate gives it.  Docker, docker compose and the SelfUpdater *)
(* are external and may fail, partly fail, or fail after the fact.         *)
(***************************************************************************)
EXTENDS Naturals, Sequences, FiniteSets

CONSTANTS
  Order,        \* the candidates, as sortRestartCandidates ordered them
  Projects,     \* compose projects
  NoProject,
  Roles,        \* the roles candidates may have
  Plans,        \* the plans they may have
  MaxFaults     \* bound on what goes wrong in a pass

Names == {Order[i] : i \in 1..Len(Order)}

ASSUME OrderAssumption ==
  /\ Order \in Seq(Names)
  /\ \A i, j \in 1..Len(Order) : Order[i] = Order[j] => i = j
ASSUME NoProjectAssumption == NoProject \notin Projects
ASSUME RolesAssumption ==
  Roles \subseteq {"normal",   \* nothing of the below
                   "agent", "server",   \* labelled self-update target
                   "own"}      \* the container named by SelfContainerID, without a label
ASSUME PlansAssumption ==
  Plans \subseteq {"explicit",   \* its reference was updated: it names a new image
                   "retagged",   \* it goes over to another reference
                   "implicit",   \* it depends on one whose image was
                   "none"}       \* implicit, and no image reference to recreate it from
ASSUME MaxFaultsAssumption == MaxFaults \in Nat

VARIABLES
  plan, project, role,           \* the candidates: fixed in a pass
  inspected,    \* those whose plan has inspect data
  state, image, recreated,       \* the container of each, in the daemon
  phase,        \* group, dispatch, verify, stop, create, trigger, done, killed
  at,           \* index of the loop of the phase
  groups,       \* the services of each known project
  processed, projectErrors,      \* projects UpdateServices was called for; with an error
  standalone, self,              \* the two queues of candidates
  result,       \* the status of each candidate's result
  faults        \* bound

candidates == <<plan, project, role>>
world      == <<state, image, recreated>>
queues     == <<standalone, self>>
compose    == <<groups, processed, projectErrors>>
vars       == <<candidates, inspected, world, phase, at, compose, queues, result, faults>>

Statuses == {"none", "Checked", "Skipped", "Failed", "Updated", "Restarted"}

TypeOK ==
  /\ plan \in [Names -> Plans] /\ role \in [Names -> Roles]
  /\ project \in [Names -> Projects \cup {NoProject}]
  /\ inspected \subseteq Names /\ recreated \subseteq Names
  /\ state \in [Names -> {"running", "stopped", "removed"}]
  /\ image \in [Names -> {"old", "new"}]
  /\ phase \in {"group", "dispatch", "verify", "stop", "create", "trigger", "done", "killed"}
  /\ at \in 0..(Len(Order) + 1)
  /\ groups \in [Projects -> SUBSET Names]
  /\ processed \subseteq Projects /\ projectErrors \subseteq processed
  /\ standalone \in Seq(Names) /\ self \in Seq(Names)
  /\ result \in [Names -> Statuses]
  /\ faults \in 0..MaxFaults

-----------------------------------------------------------------------------
Rank(n)     == CASE role[n] = "agent" -> 2 [] role[n] = "server" -> 3 [] OTHER -> 1
Labelled(n) == role[n] \in {"agent", "server"}
SelfUpdate(n) == role[n] # "normal"          \* isSelfUpdateCandidate
Hosting(n)  == role[n] \in {"server", "own"}   \* this process runs in it

(* What RestartOrder hands over has self-update targets last; for the rest *)
(* of it, any candidate may depend on any that is earlier.                 *)
Ordered == \A i, j \in 1..Len(Order) : i < j => Rank(Order[i]) <= Rank(Order[j])

Init ==
  /\ role \in [Names -> Roles] /\ Cardinality({n \in Names : Hosting(n)}) <= 1
  /\ Ordered
  /\ plan \in [Names -> Plans]
  /\ project \in [Names -> Projects \cup {NoProject}]
  /\ inspected \in SUBSET Names
  /\ faults = Cardinality(Names \ inspected) /\ faults <= MaxFaults
  /\ state = [n \in Names |-> "running"] /\ image = [n \in Names |-> "old"] /\ recreated = {}
  /\ phase = "group" /\ at = 1
  /\ groups = [p \in Projects |-> {}] /\ processed = {} /\ projectErrors = {}
  /\ standalone = <<>> /\ self = <<>>
  /\ result = [n \in Names |-> "none"]

Over         == phase \in {"done", "killed"}
Faulty       == faults < MaxFaults /\ faults' = faults + 1
Faultless    == UNCHANGED faults
SetResult(n, status) == result' = [result EXCEPT ![n] = status]
Served(n)    == project[n] # NoProject /\ groups[project[n]] # {}   \* composeProjectID
Explicit(n)  == plan[n] \in {"explicit", "retagged"}
NewImage(n)  == IF Explicit(n) THEN "new" ELSE "old"

(* The services that buildComposeGroups asks the ProjectUpdater about.     *)
Eligible(n) == n \in inspected /\ project[n] # NoProject /\ plan[n] # "none" /\ ~Labelled(n)

(* It asks for each of them whether its project is known: the answers are  *)
(* the same for all services of a project, unless some lookups fail.       *)
BuildGroups ==
  /\ phase = "group"
  /\ \E known \in SUBSET Projects, missed \in SUBSET {n \in Names : Eligible(n)} :
       /\ IF missed = {} THEN Faultless ELSE Faulty
       /\ groups' = [p \in Projects |->
            IF p \in known THEN {n \in Names : Eligible(n) /\ project[n] = p} \ missed ELSE {}]
  /\ phase' = "dispatch"
  /\ UNCHANGED <<candidates, inspected, world, at, processed, projectErrors, queues, result>>

-----------------------------------------------------------------------------
(* dispatchRestartCandidate, candidate by candidate.                       *)
Dispatching(n) == phase = "dispatch" /\ at <= Len(Order) /\ n = Order[at]

(* The inspect the scan could not do is done now, or its failure reported. *)
LateInspect(n) ==
  /\ Dispatching(n) /\ n \notin inspected
  /\ \/ inspected' = inspected \cup {n} /\ Faultless /\ UNCHANGED <<result, at>>
     \/ Faulty /\ SetResult(n, "Failed") /\ at' = at + 1 /\ UNCHANGED inspected
  /\ UNCHANGED <<candidates, world, phase, compose, queues>>

SkipUnmatched(n) ==
  /\ Dispatching(n) /\ n \in inspected /\ plan[n] = "none"
  /\ SetResult(n, "Skipped") /\ at' = at + 1
  /\ UNCHANGED <<candidates, inspected, world, phase, compose, queues, faults>>

Routable(n) == Dispatching(n) /\ n \in inspected /\ plan[n] # "none"

(* Wrong on purpose: a project is marked as processed only on success.     *)
UpdateProjectUnmarked(n) ==
  LET p == project[n] IN
  /\ Routable(n) /\ Served(n) /\ ~SelfUpdate(n)
  /\ \/ Faultless /\ processed' = processed \cup {p} /\ UNCHANGED <<world, projectErrors>>
     \/ Faulty /\ projectErrors' = projectErrors \cup {p} /\ UNCHANGED <<world, processed>>
  /\ phase' = "verify"
  /\ UNCHANGED <<candidates, inspected, at, groups, queues, result>>

(* docker compose up recreates services from the files of their project.   *)
(* An updated reference is the one in them; the reference of a tag update  *)
(* is not, and what they name then, as for an implicit restart, may be the *)
(* image the service has, or another one.                                  *)
FromFiles(n) == IF plan[n] = "explicit" THEN {"new"} ELSE {"old", "new"}
ComposeImages(services) ==
  {i \in [Names -> {"old", "new"}] :
     \A n \in Names : IF n \in services THEN i[n] \in FromFiles(n) ELSE i[n] = image[n]}

(* applyComposeServiceUpdate: the first candidate of a project has all the *)
(* services of the group recreated.  With an error, some were, and some    *)
(* may be gone.                                                            *)
UpdateProject(n) ==
  LET p == project[n] IN
  /\ Routable(n) /\ Served(n) /\ ~SelfUpdate(n)
  /\ IF p \in processed
     THEN UNCHANGED <<world, processed, projectErrors, faults>>
     ELSE /\ \/ /\ Faultless
                /\ state' = [m \in Names |-> IF m \in groups[p] THEN "running" ELSE state[m]]
                /\ image' \in ComposeImages(groups[p])
                /\ recreated' = recreated \cup groups[p]
                /\ UNCHANGED projectErrors
             \/ \E up, down \in SUBSET groups[p] :
                  /\ Faulty /\ up \cap down = {}
                  /\ state' = [m \in Names |-> IF m \in up THEN "running"
                                               ELSE IF m \in down THEN "removed" ELSE state[m]]
                  /\ image' \in ComposeImages(up)
                  /\ recreated' = recreated \cup up
                  /\ projectErrors' = projectErrors \cup {p}
          /\ processed' = processed \cup {p}
  /\ phase' = "verify"
  /\ UNCHANGED <<candidates, inspected, at, groups, queues, result>>

(* Wrong on purpose: the project-level error decides, not the container.   *)
TrustComposeResult(n) ==
  /\ phase = "verify" /\ n = Order[at]
  /\ SetResult(n, IF project[n] \in projectErrors THEN "Failed" ELSE "Updated")
  /\ phase' = "dispatch" /\ at' = at + 1
  /\ UNCHANGED <<candidates, inspected, world, compose, queues, faults>>

(* VerifyComposeServiceUpdatedImage: the service must have a running       *)
(* container and none on the image it had; the list call may fail.  A      *)
(* project-level error alone does not fail the candidate.                  *)
VerifyService(n) ==
  /\ phase = "verify" /\ n = Order[at]
  /\ \/ /\ Faultless
        /\ SetResult(n, IF state[n] = "running" /\ image[n] = "new" THEN "Updated" ELSE "Failed")
     \/ Faulty /\ SetResult(n, "Failed")
  /\ phase' = "dispatch" /\ at' = at + 1
  /\ UNCHANGED <<candidates, inspected, world, compose, queues>>

(* Wrong on purpose: the queue of self-updates is filled from its front.   *)
DeferInFront(n) ==
  /\ Routable(n)
  /\ \/ SelfUpdate(n) /\ self' = <<n>> \o self /\ UNCHANGED standalone
     \/ ~SelfUpdate(n) /\ ~Served(n) /\ standalone' = Append(standalone, n) /\ UNCHANGED self
  /\ SetResult(n, "Checked") /\ at' = at + 1
  /\ UNCHANGED <<candidates, inspected, world, phase, compose, faults>>

(* Self-update targets wait for the end, standalone ones for the others.   *)
Defer(n) ==
  /\ Routable(n)
  /\ \/ SelfUpdate(n) /\ self' = Append(self, n) /\ UNCHANGED standalone
     \/ ~SelfUpdate(n) /\ ~Served(n) /\ standalone' = Append(standalone, n) /\ UNCHANGED self
  /\ SetResult(n, "Checked") /\ at' = at + 1
  /\ UNCHANGED <<candidates, inspected, world, phase, compose, faults>>

EndDispatch ==
  /\ phase = "dispatch" /\ at > Len(Order)
  /\ phase' = "stop" /\ at' = Len(standalone)
  /\ UNCHANGED <<candidates, inspected, world, compose, queues, result, faults>>

-----------------------------------------------------------------------------
(* updateStandaloneRestartCandidates.                                      *)
StopRemove(n) ==
  \/ /\ Faultless /\ state' = [state EXCEPT ![n] = "removed"] /\ UNCHANGED result
  \/ /\ Faulty /\ \E st \in {"running", "stopped", "removed"} : state' = [state EXCEPT ![n] = st]
     /\ SetResult(n, "Failed")

(* Wrong on purpose: dependencies are stopped before their dependents.     *)
StopInOrder ==
  /\ phase = "stop" /\ at >= 1
  /\ StopRemove(standalone[Len(standalone) + 1 - at])
  /\ at' = at - 1
  /\ UNCHANGED <<candidates, inspected, image, recreated, phase, compose, queues>>

(* The backward loop: stopAndRemoveStandaloneContainer, which may fail     *)
(* before or after the fact.                                               *)
Stop ==
  /\ phase = "stop" /\ at >= 1
  /\ StopRemove(standalone[at])
  /\ at' = at - 1
  /\ UNCHANGED <<candidates, inspected, image, recreated, phase, compose, queues>>

(* Wrong on purpose: the self-updaters are triggered before the recreation.*)
TriggerFirst ==
  /\ phase = "stop" /\ at = 0
  /\ at' = 1
  /\ phase' = IF self = <<>> THEN "create" ELSE "trigger"
  /\ UNCHANGED <<candidates, inspected, world, compose, queues, result, faults>>

EndStop ==
  /\ phase = "stop" /\ at = 0
  /\ phase' = "create" /\ at' = 1
  /\ UNCHANGED <<candidates, inspected, world, compose, queues, result, faults>>

(* The forward loop: a failed candidate is left alone.  An error of        *)
(* createStartOrRollback leaves nothing, or a container of the old or of   *)
(* the new image, which runs or does not: the last event may not have been *)
(* recorded, or the clean-up or the rollback may have failed as well.      *)
Create ==
  /\ phase = "create" /\ at <= Len(standalone)
  /\ LET n == standalone[at] IN
       \/ result[n] = "Failed" /\ UNCHANGED <<world, result, faults>>
       \/ /\ result[n] # "Failed" /\ Faultless
          /\ state' = [state EXCEPT ![n] = "running"]
          /\ image' = [image EXCEPT ![n] = NewImage(n)]
          /\ recreated' = recreated \cup {n}
          /\ SetResult(n, IF Explicit(n) THEN "Updated" ELSE "Restarted")
       \/ /\ result[n] # "Failed" /\ Faulty
          /\ \E st \in {"running", "stopped", "removed"} : state' = [state EXCEPT ![n] = st]
          /\ \E i \in {image[n], NewImage(n)} : image' = [image EXCEPT ![n] = i]
          /\ recreated' = recreated \cup {n}
          /\ SetResult(n, "Failed")
  /\ at' = at + 1
  /\ UNCHANGED <<candidates, inspected, phase, compose, queues>>

EndCreate ==
  /\ phase = "create" /\ at > Len(standalone)
  /\ phase' = "trigger" /\ at' = 1
  /\ UNCHANGED <<candidates, inspected, world, compose, queues, result, faults>>

-----------------------------------------------------------------------------
(* triggerDeferredSelfUpdates: the SelfUpdater accepts, or is missing or   *)
(* returns an error.                                                       *)
Trigger ==
  /\ phase = "trigger" /\ at <= Len(self)
  /\ \/ Faultless /\ SetResult(self[at], "Updated")
     \/ Faulty /\ SetResult(self[at], "Failed")
  /\ at' = at + 1
  /\ UNCHANGED <<candidates, inspected, world, phase, compose, queues>>

EndTrigger ==
  /\ phase = "trigger" /\ at > Len(self)
  /\ phase' = "done"
  /\ UNCHANGED <<candidates, inspected, world, at, compose, queues, result, faults>>

(* The container this process runs in is replaced: by the SelfUpdater, or  *)
(* with the services of its project.                                       *)
Killed ==
  /\ ~Over
  /\ \E n \in Names : Hosting(n) /\ (n \in recreated \/ result[n] = "Updated")
  /\ phase' = "killed"
  /\ UNCHANGED <<candidates, inspected, world, at, compose, queues, result, faults>>

Next ==
  \/ BuildGroups
  \/ \E n \in Names : LateInspect(n) \/ SkipUnmatched(n) \/ UpdateProject(n) \/ VerifyService(n)
                      \/ Defer(n)
  \/ EndDispatch \/ Stop \/ EndStop \/ Create \/ EndCreate \/ Trigger \/ EndTrigger
  \/ Killed

Spec == Init /\ [][Next]_vars

-----------------------------------------------------------------------------
(* No standalone container runs while one it may depend on is down for the *)
(* pass, unless the daemon refused something to one of the two: dependents *)
(* go down first and come up last.                                         *)
NoDependentWithoutDependency ==
  \A i, j \in 1..Len(standalone) :
    i < j /\ state[standalone[j]] = "running" /\ state[standalone[i]] # "running"
      => "Failed" \in {result[standalone[i]], result[standalone[j]]}

(* A result tells what became of the container: Updated only on an image   *)
(* it did not have, Restarted only recreated, and a container that is down *)
(* is Failed.  Nothing goes wrong by itself: without faults an updated     *)
(* reference reaches its containers, as a tag update and a restart do      *)
(* outside compose, and only a service that compose recreated on the image *)
(* it had is Failed.                                                       *)
ResultsAreTrue ==
  Over => \A n \in Names : ~SelfUpdate(n) =>
    /\ result[n] = "Updated" => state[n] = "running" /\ image[n] = "new"
    /\ result[n] = "Restarted" => state[n] = "running" /\ n \in recreated
    /\ state[n] # "running" => result[n] = "Failed"
    /\ faults = 0 /\ plan[n] = "explicit" => result[n] = "Updated"
    /\ faults = 0 /\ plan[n] = "retagged" /\ ~Served(n) => result[n] = "Updated"
    /\ faults = 0 /\ plan[n] = "implicit" /\ ~Served(n) => result[n] = "Restarted"
    /\ faults = 0 /\ result[n] = "Failed" => Served(n) /\ n \in recreated /\ image[n] = "old"

(* Every candidate has a final result when the pass is over, or when its   *)
(* own self-update cuts it short: nobody is left queued, or half recreated.*)
NobodyIsLeftBehind ==
  Over => \A n \in Names : result[n] \notin {"none", "Checked"} \/ (SelfUpdate(n) /\ phase = "killed")

(* Labelled self-update targets are left to the SelfUpdater, as the pass   *)
(* never recreates them, and the trigger that may stop this process is the *)
(* last one.  (orderSelfUpdateLast takes an unlabelled one for normal.)    *)
SelfUpdatesComeLast ==
  /\ \A n \in recreated : ~Labelled(n)
  /\ \A n \in Names : phase = "killed" /\ role[n] = "server" =>
       \A i \in 1..Len(self) : result[self[i]] # "Checked"

(* The container this process runs in is left to the SelfUpdater, labelled *)
(* or not.                                                                 *)
OwnContainerIsOnlyTriggered == \A n \in recreated : role[n] # "own"
=============================================================================
