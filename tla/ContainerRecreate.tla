-------------------------- MODULE ContainerRecreate --------------------------
(***************************************************************************)
(* The recreation of one standalone container by the updater: inspect the  *)
(* container that holds the name, stop it, remove it, create a replacement *)
(* under the same name, start it, record the update; on failure remove the *)
(* replacement and recreate the old image (container.go).                  *)
(*                                                                         *)
(* A Service is safe for concurrent use and an update may be retried, so   *)
(* several Runs (calls of UpdateContainer, or the standalone part of an    *)
(* ApplyPending) act on the name, one after the other or interleaved.  Each*)
(* Docker request is one step: the daemon may carry it out and answer,     *)
(* refuse it, or carry it out while the answer is lost to a timeout        *)
(* (OperationTimeout).  The daemon's own rule, one container per name, is  *)
(* external; everything else here is the updater's code.                   *)
(***************************************************************************)
EXTENDS Naturals, FiniteSets

CONSTANTS
  Runs,            \* the calls that may recreate the container
  Original,        \* the id of the container deployed before any update
  Deployed,        \* the states it may be in then: UpdateContainer takes stopped ones too
  FaultsFirst,     \* TRUE when nothing fails any more once two calls have overlapped
  ExtraNetworks,   \* TRUE when the daemon needs networks connected after create
  AutoRemove,      \* TRUE when the container was deployed with --rm
  Faults,          \* the <<call, kind>> pairs that may go wrong
  MaxFaults        \* bound on how many of them do in a behaviour

Calls   == {"stop", "remove", "prepare", "create", "connect", "start",
            "inspect", "record", "cleanup"}
Kinds   == {"fail",   \* refused: no effect, an error is returned
            "lost"}   \* carried out, an error is returned
Attempts == {"update", "rollback"}
Created(r, attempt) == <<r, attempt>>     \* the id a run's create call yields
Ids     == {Original} \cup (Runs \X Attempts)

ASSUME OriginalAssumption  == Original \notin Runs \X Attempts
ASSUME DeployedAssumption  == Deployed \subseteq {"running", "stopped"}
ASSUME FlagsAssumption     == {FaultsFirst, ExtraNetworks, AutoRemove} \subseteq BOOLEAN
ASSUME FaultsAssumption    == Faults \subseteq (Calls \X Kinds) \cup {<<"context", "cancel">>, <<"process", "crash">>}
ASSUME MaxFaultsAssumption == MaxFaults \in Nat

VARIABLES
  container,   \* what the daemon has under each id
  run,         \* the control state and locals of each call
  faults       \* how many faults have happened (a bound, not a part of the code)

vars == <<container, run, faults>>

Working == {"stop", "remove", "prepare", "create", "connect", "start",
            "inspect", "record", "cleanup"}
Results == {"none", "updated", "rolledBack", "stopFailed", "removeFailed",
            "rollbackFailed", "crashed"}

RunState == [pc        : Working \cup {"idle", "done"},
             target    : Ids,          \* the container listed and inspected
             attempt   : Attempts,     \* createAndStart for newRef, or for the old image
             created   : BOOLEAN,      \* whether createdID is known (not "")
             cancelled : BOOLEAN,      \* the caller's context is cancelled
             result    : Results]

TypeOK ==
  /\ container \in [Ids -> {"absent", "created", "running", "stopped"}]
  /\ run \in [Runs -> RunState]
  /\ faults \in 0..MaxFaults

-----------------------------------------------------------------------------
Exists(id)    == container[id] # "absent"
NameFree      == \A id \in Ids : ~Exists(id)
Current(r)    == Created(r, run[r].attempt)
SetTo(id, st) == [container EXCEPT ![id] = st]
Goto(r, step) == [run[r] EXCEPT !.pc = step]
Finish(r, how) == [run[r] EXCEPT !.pc = "done", !.result = how]

(***************************************************************************)
(* What may become of a request.  Requests carry the caller's context, so  *)
(* after a cancellation the client refuses every one of them; only the     *)
(* host's own EventRecorder decides for itself.                            *)
(***************************************************************************)
Outcomes(r, call) ==
  IF run[r].cancelled /\ call # "record"
  THEN {"fail"}
  ELSE {"ok"} \cup {kind \in Kinds : <<call, kind>> \in Faults /\ faults < MaxFaults}

(***************************************************************************)
(* Run r issues a request.  can: the daemon is able to carry it out;       *)
(* effect: the containers once it has; good and bad: where the run goes on *)
(* when the request returns nil, or an error.                              *)
(***************************************************************************)
Request(r, call, can, effect, good, bad) ==
  \E outcome \in Outcomes(r, call) :
    /\ container' = IF can /\ outcome # "fail" THEN effect ELSE container
    /\ run' = [run EXCEPT ![r] = IF can /\ outcome = "ok" THEN good ELSE bad]
    /\ faults' = IF outcome # "ok" /\ ~run[r].cancelled THEN faults + 1 ELSE faults

-----------------------------------------------------------------------------
Init ==
  /\ \E st \in Deployed :
       container = [id \in Ids |-> IF id = Original THEN st ELSE "absent"]
  /\ run = [r \in Runs |-> [pc |-> "idle", target |-> Original, attempt |-> "update",
                            created |-> FALSE, cancelled |-> FALSE, result |-> "none"]]
  /\ faults = 0

(* Another call is under way.                                              *)
Overlaps == \E s \in Runs : run[s].pc \in Working

(* The container that holds the name is listed (stopped ones too) and      *)
(* inspected; a call that finds none returns ErrContainerNotFound.         *)
(* (Where FaultsFirst, an overlap uses up the bound on faults.)            *)
Begin(r) ==
  /\ run[r].pc = "idle"
  /\ faults' = IF FaultsFirst /\ Overlaps THEN MaxFaults ELSE faults
  /\ \E id \in {i \in Ids : Exists(i)} :
       run' = [run EXCEPT ![r] = [run[r] EXCEPT !.pc = "stop", !.target = id]]
  /\ UNCHANGED container

(* stopAndRemoveStandaloneContainer: an error of either call ends the      *)
(* update.  Stopping a container that does not run is not an error.        *)
Stop(r) ==
  LET id == run[r].target IN
  /\ run[r].pc = "stop"
  /\ Request(r, "stop", Exists(id),
             IF container[id] = "running" THEN SetTo(id, "stopped") ELSE container,
             Goto(r, "remove"), Finish(r, "stopFailed"))

(* Wrong on purpose: a remove error does not end the update.               *)
RemoveIgnoringErrors(r) ==
  LET id == run[r].target IN
  /\ run[r].pc = "remove"
  /\ Request(r, "remove", Exists(id) /\ container[id] # "running",
             SetTo(id, "absent"),
             Goto(r, "prepare"), Goto(r, "prepare"))

(* The remove is not forced: the daemon refuses it for a running container.*)
Remove(r) ==
  LET id == run[r].target IN
  /\ run[r].pc = "remove"
  /\ Request(r, "remove", Exists(id) /\ container[id] # "running",
             SetTo(id, "absent"),
             Goto(r, "prepare"), Finish(r, "removeFailed"))

(* createAndStartStandaloneContainer up to the create call: the image      *)
(* inspect is best effort, PrepareRecreateHostConfig is not.               *)
Prepare(r) ==
  /\ run[r].pc = "prepare"
  /\ Request(r, "prepare", TRUE, container, Goto(r, "create"), Goto(r, "cleanup"))

(* compat.ContainerCreate returns no id with an error of the create call.  *)
Create(r) ==
  /\ run[r].pc = "create"
  /\ Request(r, "create", NameFree, SetTo(Current(r), "created"),
             [run[r] EXCEPT !.pc = IF ExtraNetworks THEN "connect" ELSE "start",
                            !.created = TRUE],
             Goto(r, "cleanup"))

(* connectExtraNetworks, on daemons that take one endpoint at create time. *)
Connect(r) ==
  /\ run[r].pc = "connect"
  /\ Request(r, "connect", Exists(Current(r)), container,
             Goto(r, "start"), Goto(r, "cleanup"))

(* Wrong on purpose: a start error is taken for a container that runs.     *)
StartIgnoringErrors(r) ==
  /\ run[r].pc = "start"
  /\ Request(r, "start", Exists(Current(r)), SetTo(Current(r), "running"),
             Goto(r, "record"), Goto(r, "record"))

(* Wrong on purpose: a start error is taken for a container that is down.  *)
StartWithoutInspect(r) ==
  /\ run[r].pc = "start"
  /\ Request(r, "start", Exists(Current(r)), SetTo(Current(r), "running"),
             Goto(r, "record"), Goto(r, "cleanup"))

Start(r) ==
  /\ run[r].pc = "start"
  /\ Request(r, "start", Exists(Current(r)), SetTo(Current(r), "running"),
             Goto(r, "record"), Goto(r, "inspect"))

(* Wrong on purpose: poll until the container runs.                        *)
InspectPolling(r) ==
  /\ run[r].pc = "inspect"
  /\ Request(r, "inspect", container[Current(r)] = "running", container,
             Goto(r, "record"), Goto(r, "inspect"))

(* After a start error containerRunning decides.                           *)
Inspect(r) ==
  /\ run[r].pc = "inspect"
  /\ Request(r, "inspect", container[Current(r)] = "running", container,
             Goto(r, "record"), Goto(r, "cleanup"))

(* Wrong on purpose: the attempt's name is reported for its result.        *)
RecordAttempt(r) ==
  /\ run[r].pc = "record"
  /\ Request(r, "record", TRUE, container, Finish(r, run[r].attempt), Goto(r, "cleanup"))

(* The last event, container_update, is the attempt's return value: an     *)
(* EventRecorder error fails the attempt.                                  *)
Record(r) ==
  /\ run[r].pc = "record"
  /\ Request(r, "record", TRUE, container,
             Finish(r, IF run[r].attempt = "update" THEN "updated" ELSE "rolledBack"),
             Goto(r, "cleanup"))

(* Where a failed attempt goes once removeFailedCreatedContainer returned: *)
(* the update attempt rolls back, the rollback itself has failed.  (The    *)
(* daemon always gives inspect.Image, so rollbackStandaloneContainer has   *)
(* an image to go back to.)                                                *)
AfterCleanup(r) ==
  IF run[r].attempt = "update"
  THEN [run[r] EXCEPT !.pc = "prepare", !.attempt = "rollback", !.created = FALSE]
  ELSE Finish(r, "rollbackFailed")

(* Wrong on purpose: the clean-up removes whatever holds the name.         *)
CleanupByName(r) ==
  /\ run[r].pc = "cleanup"
  /\ IF \E id \in Ids : Exists(id)
     THEN \E id \in {i \in Ids : Exists(i)} :
            Request(r, "cleanup", TRUE, SetTo(id, "absent"), AfterCleanup(r), AfterCleanup(r))
     ELSE /\ run' = [run EXCEPT ![r] = AfterCleanup(r)]
          /\ UNCHANGED <<container, faults>>

(* removeFailedCreatedContainer: forced, a no-op without an id, errors are *)
(* only logged.                                                            *)
Cleanup(r) ==
  /\ run[r].pc = "cleanup"
  /\ IF run[r].created
     THEN Request(r, "cleanup", Exists(Current(r)), SetTo(Current(r), "absent"),
                  AfterCleanup(r), AfterCleanup(r))
     ELSE /\ run' = [run EXCEPT ![r] = AfterCleanup(r)]
          /\ UNCHANGED <<container, faults>>

-----------------------------------------------------------------------------
(* The caller gives up: its context is cancelled between two requests.     *)
CancelContext(r) ==
  /\ <<"context", "cancel">> \in Faults /\ faults < MaxFaults
  /\ run[r].pc \in Working /\ ~run[r].cancelled
  /\ run' = [run EXCEPT ![r].cancelled = TRUE]
  /\ faults' = faults + 1
  /\ UNCHANGED container

(* The updater's process dies: nothing of a call survives, and the calls   *)
(* still idle are those of the next process.                               *)
Crash ==
  /\ <<"process", "crash">> \in Faults /\ faults < MaxFaults
  /\ run' = [r \in Runs |-> IF run[r].pc \in Working THEN Finish(r, "crashed") ELSE run[r]]
  /\ faults' = faults + 1
  /\ UNCHANGED container

(* The daemon removes a container deployed with --rm once it has exited,   *)
(* without waiting for the updater's remove call; HostConfig is carried    *)
(* over, so replacements are auto-removed too.                             *)
DaemonAutoRemove(id) ==
  /\ AutoRemove /\ container[id] = "stopped"
  /\ container' = SetTo(id, "absent")
  /\ UNCHANGED <<run, faults>>

Step(r) ==
  \/ Stop(r) \/ Remove(r)
  \/ Prepare(r) \/ Create(r) \/ Connect(r) \/ Start(r) \/ Inspect(r) \/ Record(r)
  \/ Cleanup(r)

Next ==
  \/ \E r \in Runs : Begin(r) \/ Step(r) \/ CancelContext(r)
  \/ \E id \in Ids : DaemonAutoRemove(id)
  \/ Crash

Spec == Init /\ [][Next]_vars

(* A call that has begun goes on: its goroutine is scheduled and every     *)
(* request returns.  Nothing makes a caller begin, cancel or crash.        *)
Fairness == \A r \in Runs : WF_vars(Step(r))

FairSpec == Spec /\ Fairness

-----------------------------------------------------------------------------
(* Past its remove call, a run is the one that replaces its target.        *)
Replacing(r) ==
  \/ run[r].pc \in Working \ {"stop", "remove"}
  \/ run[r].result \in {"updated", "rolledBack", "rollbackFailed"}

TakenOver(id) == \E r \in Runs : run[r].pc # "idle" /\ run[r].target = id

Settled == \A r \in Runs : run[r].pc \in {"idle", "done"}

SomeRunning == \E id \in Ids : container[id] = "running"

(* Two runs never both replace one container: the remove call that         *)
(* succeeds elects the run that goes on to create, whatever fails, is lost *)
(* or is cancelled (container.go 236-241 is what makes concurrent          *)
(* UpdateContainer calls and ApplyPending safe together).                  *)
ExclusiveReplacement ==
  \A r1, r2 \in Runs :
    r1 # r2 /\ Replacing(r1) /\ Replacing(r2) => run[r1].target # run[r2].target

(* A call that reports Updated, or a completed rollback, left the          *)
(* container it created running, unless another call has since taken that  *)
(* container as its own target: neither lost answers of start nor the      *)
(* clean-up of a concurrent failing call takes it down.                    *)
ReportedContainerServes ==
  \A r \in Runs :
    /\ run[r].result = "updated" => \/ container[Created(r, "update")] = "running"
                                    \/ TakenOver(Created(r, "update"))
    /\ run[r].result = "rolledBack" => \/ container[Created(r, "rollback")] = "running"
                                        \/ TakenOver(Created(r, "rollback"))

(* When no call is under way a container of the name is running: whatever  *)
(* single request was refused was rolled back, and concurrent calls did    *)
(* not undo each other's replacement.  (A request refused while calls      *)
(* overlap is too much: each rollback can fail on the other one's name.)   *)
ServiceSurvives == Settled => SomeRunning

(* A replacement that runs is not forced off the daemon because its start  *)
(* call returned an error (containerRunning, container.go 310-319).        *)
RunningReplacementKept ==
  [][\A id \in Ids : container[id] = "running" => container'[id] # "absent"]_vars

(* Every call that began returns.                                          *)
EveryCallReturns == \A r \in Runs : (run[r].pc \in Working) ~> (run[r].pc = "done")

-----------------------------------------------------------------------------
(***************************************************************************)
(* What the calls do to the name, as NameSuccession has it: a container    *)
(* that is there holds it, and a call past its remove call is the heir.    *)
(***************************************************************************)
(* Run r has not issued, and may still issue, the create call of attempt a.*)
Unborn(r, a) ==
  \/ run[r].pc \in {"idle", "stop", "remove"}
  \/ run[r].attempt = a /\ run[r].pc \in {"prepare", "create"}
  \/ run[r].attempt = "update" /\ a = "rollback" /\ run[r].pc \in Working

Stage(r) ==
  CASE run[r].pc = "idle"              -> "idle"
    [] run[r].pc \in {"stop", "remove"} -> "aimed"
    [] run[r].pc = "done"              -> IF run[r].result \in {"stopFailed", "removeFailed"}
                                          THEN "refused" ELSE run[r].result
    [] OTHER                           -> "heir"

holders == {id \in Ids : Exists(id)}
serving == {id \in Ids : container[id] = "running"}
stage   == [r \in Runs |-> Stage(r)]
aim     == [r \in Runs |-> run[r].target]
unborn  == [r \in Runs |-> {a \in Attempts : Unborn(r, a)}]

Succession == INSTANCE NameSuccession
  WITH Vanishing <- AutoRemove,
       holders <- holders, serving <- serving, stage <- stage, aim <- aim, unborn <- unborn

(* Whatever fails, the name goes from hand to hand as if take-overs and    *)
(* installations were single steps that only an heir makes: no call        *)
(* removes, starts or replaces what it has neither taken over nor made.    *)
NamePassesOn == Succession!Spec

-----------------------------------------------------------------------------
(* The inductive invariants behind the two safety properties.              *)

(* A call reports its result at its end.                                   *)
ReportsAtEnd ==
  \A r \in Runs : run[r].pc # "done" => run[r].result = "none"

(* The id of a create call yet to be made is new to everyone.              *)
FreshIds ==
  \A r \in Runs, a \in Attempts :
    Unborn(r, a) => /\ container[Created(r, a)] = "absent"
                    /\ \A s \in Runs : run[s].target # Created(r, a)

(* A replaced container is gone for good.                                  *)
ReplacedIsGone ==
  \A r \in Runs : Replacing(r) => container[run[r].target] = "absent"

ReplacementInv == ReportsAtEnd /\ FreshIds /\ ReplacedIsGone /\ ExclusiveReplacement

(* An attempt about to be recorded runs, unless it was taken over.         *)
StartedServes ==
  \A r \in Runs : run[r].pc = "record" => \/ container[Current(r)] = "running"
                                          \/ TakenOver(Current(r))

ServingInv == StartedServes /\ ReportedContainerServes

(* A call that has not taken over is at its update attempt.                *)
UpdateFirst ==
  \A r \in Runs : run[r].pc \in {"idle", "stop", "remove"} => run[r].attempt = "update"

(***************************************************************************)
(* The inductive invariant behind ServiceSurvives and                      *)
(* RunningReplacementKept, where little enough goes wrong for them: the    *)
(* container is running at first and not deployed with --rm, at most one   *)
(* request of a replacement is refused, or the answer of a start is lost,  *)
(* and nothing more once calls have overlapped.                            *)
(***************************************************************************)
ReplacementTrouble ==
  {<<c, "fail">> : c \in Calls \ {"remove", "record"}} \cup {<<"start", "lost">>}

LittleTrouble ==
  /\ Deployed \subseteq {"running"} /\ ~AutoRemove
  /\ FaultsFirst /\ MaxFaults <= 1 /\ Faults \subseteq ReplacementTrouble

Starting == {"connect", "start"}

AtMostOne == \A i, j \in Ids : Exists(i) /\ Exists(j) => i = j

(* While something may still go wrong, the one call under way is the first *)
(* thing to have happened to the container it found.                       *)
Undisturbed(r) ==
  /\ run[r].attempt = "update"
  /\ run[r].pc \notin {"inspect", "cleanup"}
  /\ run[r].pc = "stop" => container[run[r].target] = "running"
  /\ run[r].pc = "remove" => container[run[r].target] = "stopped"
  /\ run[r].pc \in {"prepare", "create"} => NameFree
  /\ run[r].pc \in Starting => container[Current(r)] = "created"
  /\ run[r].pc = "record" => container[Current(r)] = "running"

FaultsComeFirst ==
  faults < MaxFaults =>
    \A r \in Runs : run[r].pc \in Working =>
      Undisturbed(r) /\ \A s \in Runs \ {r} : run[s].pc \notin Working

(* The locals of a call tell where it is: createdID and the attempt; what  *)
(* it cleans up does not run, and what its rollback cleans up is gone.     *)
LocalsFit(r) ==
  /\ ~run[r].cancelled
  /\ run[r].pc \in {"idle", "stop", "remove"} => run[r].attempt = "update"
  /\ run[r].pc \in {"idle", "stop", "remove", "prepare", "create"} => ~run[r].created
  /\ run[r].pc \in Starting \cup {"inspect"} => run[r].created
  /\ run[r].pc \in Starting => container[Current(r)] \in {"absent", "created"}
  /\ run[r].pc = "cleanup" /\ run[r].created => container[Current(r)] # "running"
  /\ run[r].pc \in {"inspect", "cleanup"} /\ run[r].created /\ run[r].attempt = "rollback" =>
       container[Current(r)] = "absent"

LocalsTell == \A r \in Runs : LocalsFit(r)

(* Whatever is down has a call that takes it further: a stopped container  *)
(* has one that removes it, a created one its creator that starts it or    *)
(* rolls back, and where there is none a call is about to create one.      *)
StoppedIsClaimed ==
  \A id \in Ids : container[id] = "stopped" => \E s \in Runs : run[s].pc = "remove" /\ run[s].target = id

CreatedIsAttended ==
  /\ container[Original] # "created"
  /\ \A r \in Runs, a \in Attempts : container[Created(r, a)] = "created" =>
       /\ run[r].attempt = a /\ run[r].created
       /\ run[r].pc \in Starting \/ (a = "update" /\ run[r].pc \in {"inspect", "cleanup"})

WillCreate(r) ==
  \/ run[r].pc \in {"prepare", "create"}
  \/ run[r].attempt = "update" /\ run[r].pc \in Starting \cup {"inspect", "cleanup"}

GapIsFilled == NameFree => \E r \in Runs : WillCreate(r)

SurvivalInv ==
  /\ AtMostOne /\ FaultsComeFirst /\ LocalsTell
  /\ StoppedIsClaimed /\ CreatedIsAttended /\ GapIsFilled

(* Nothing makes a replacement that runs look like one that failed: its    *)
(* event can be recorded, and where the answer of a start can be lost its  *)
(* state can be read afterwards, or the lost answer is the one fault.      *)
NoFalseAlarm ==
  /\ Faults \cap ({"record"} \X Kinds) = {}
  /\ \/ Faults \cap ({"inspect"} \X Kinds) = {}
     \/ <<"start", "lost">> \notin Faults
     \/ MaxFaults <= 1

(* What a call cleans up does not run, or the clean-up is refused as well; *)
(* what it inspects runs only where the answer of its start was lost.      *)
CleansUpWhatIsDown ==
  \A r \in Runs :
    /\ run[r].pc \in {"idle", "stop", "remove", "prepare", "create"} => ~run[r].created
    /\ run[r].pc \in Starting => container[Current(r)] \in {"absent", "created"}
    /\ run[r].pc = "inspect" /\ container[Current(r)] = "running" =>
         <<"start", "lost">> \in Faults /\ faults >= 1
    /\ run[r].pc = "cleanup" /\ run[r].created =>
         run[r].cancelled \/ container[Current(r)] # "running"
=============================================================================
