# Formal models of the container updater

The repository is a Go library that keeps Docker containers up to date: a `Service` pulls newer
images and recreates the containers that run the old ones, on its own, through docker compose,
or through a host-supplied self-updater. These TLA+ modules model its control flow; TLC checks
them on small instances and TLAPS proves the safety properties and the refinements for all
instances.

## 1. Inventory

| Part (source) | State | Operations | Interacts with |
|---|---|---|---|
| Standalone recreation (`container.go` 184-364, `internal/compat`) | none of its own; the daemon's containers | `updateStandaloneContainer`, `createStartOrRollback`, `rollbackStandaloneContainer` | daemon, `EventRecorder`; used by `UpdateContainer` and the restart pass |
| `UpdateContainer` (`container.go`, `hooks.go`, `compose_updater.go`) | the call's locals | inspect, pull, compare, route, recreate, `clearPendingRecord` | the above, `ProjectUpdater`, `SelfUpdater`, `PendingStore`, status |
| `ApplyPending` (`apply.go`, `internal/digestcheck`) | plans, maps from old to new images, results | plan, up-to-date check, pull, restart, mark failed plans, clear records | `PendingStore`, registries, daemon, restart pass |
| Restart order (`restart.go` 125-195, `internal/deps`, `restart_helpers.go`) | marks, the search's stack | `propagateImplicitRestarts`, `Sort`, `orderSelfUpdateLast` | scan before, dispatch after |
| Restart pass (`restart.go` 197-439, `compose_groups.go`, `internal/match`) | groups, two queues, processed projects, results | group, dispatch, compose update and verify, stop backwards, create forwards, trigger self-updates | daemon, `ProjectUpdater`, `SelfUpdater` |
| Status tracking (`status.go`) | two atomic pointers to immutable slices | `BeginContainerUpdate`, `BeginProjectUpdate`, their completion callbacks, `Status` | every update |
| Docker client provider (`defaults.go`) | one atomic pointer to a client | `DockerClient`, `Close` | daemon; every operation |
| Pending store (`memory_store.go`) | records by key | get, save, clear | `ApplyPending`, `UpdateContainer`, host |
| Image matching (`internal/match`) | none | by ID, by reference | scan |
| Digest checks (`internal/digestcheck`, `digest`) | none | known digest, remote digest, local digests | plans |
| Registry access (`registry`, `default_auth.go`, `defaults.go`) | none; the host's Docker config | credentials, token exchange, pull with its privilege function | digest checks, pulls |
| Compose (`compose_updater.go`, `internal/compose`) | none | look the project up, `UpdateServices` | daemon, docker compose |
| Labels, references, configuration, results (`labels`, `labelpolicy.go`, `refs`, `config.go`, ...) | none shared | parsing, lookups | all of the above |

Hard behaviours: `updater.go:12` declares "A Service is safe for concurrent use.", so calls of
`UpdateContainer`, `ApplyPending`, `Status` and `Close` interleave; there is no lock around an
update, only the daemon's own checks, compare-and-swap loops and the mutex of the memory store.
A recreation is a sequence of requests of which any can be refused, time out after the fact, or
be cancelled with the caller's context, and it removes the old container before the new one
exists. A pass has several loops over the same candidates and may stop its own process. Records
outlive a run, and later runs see images that earlier ones pulled. A digest check is up to seven
requests, to a daemon and a registry that both change in between.

What makes each part correct:

- recreation: one replacement per container; a reported result is true; a failure leaves the old
  or the new image running;
- `UpdateContainer`: reports are true, an outage is reported, records go only when applied;
- `ApplyPending`: a record goes only when pulled and restarted, and stays until then; each update
  is applied in the end;
- order: transitive dependents and no others, each once, dependencies first, cycles tolerated;
- pass: results tell what happened, nobody is left half done, nothing is taken down twice, the
  updater's own container comes last and only through the self-updater;
- status: atomic sets, what is under way is listed and nothing else, for a reader of both too;
- digest checks: nothing outdated passes for up to date, and what the registry gives to anyone is
  not refused because of what is in the Docker config;
- provider: the pointer holds an open client, nothing leaks, nothing is closed twice.

The hazards list of `PROJECT.json` goes through the lines where these can go wrong.

## 2. Modules

| Module | Models | Kind |
|---|---|---|
| `ContainerRecreate` | standalone recreation, several calls on one name | component |
| `NameSuccession` | one name passed from hand to hand by calls that take over, install, withdraw | abstract specification of the above |
| `UpdateContainer` | `UpdateContainer`, concurrent calls by all routes, request by request | component |
| `RestartOrder` | marking, sorting, self-updates last | algorithm as a state machine |
| `RestartPass` | `executeRestartPlans`; recreation in one step | component, composes the outcomes of recreation and order |
| `ApplyPending` | several runs of `ApplyPending`; a restart in one step per container | component, composes the outcomes of the pass |
| `AtomicStatus` | two sets with atomic begin and end | abstract specification |
| `StatusTracking` | compare-and-swap loops over snapshots | implements `AtomicStatus` |
| `StatusReader` | `Status`, two loads between the steps of `StatusTracking` | composes a reader with the writers |
| `DigestCheck` | the check of an image and its pull: daemon, credentials, token exchange | component |
| `DockerClientProvider` | `DockerClient` and `Close` | component |
| `MC<Module>` | constants for TLC | |
| `<Module>_proofs` | theorems | TLAPS |

Definitions named "Wrong on purpose" are variants of the definition that follows with a
plausible bug in them; no specification uses them. Substituting one for the original makes TLC
find a violation of the property it is listed with in `PROJECT.json`, which shows that the
property depends on that code.

### ContainerRecreate

`container` is what the daemon has under each id (the deployed container, and for each call the
one of its update and the one of its rollback); `run` has each call's program counter and
locals. An action is one request of the source: `Begin` (list and inspect), `Stop`, `Remove`,
`Prepare` (host config), `Create`, `Connect` (extra networks), `Start`, `Inspect`
(`containerRunning` after a start error), `Record` (the last event, whose error fails the
attempt), `Cleanup` (forced removal of what was created). `AfterCleanup` goes from the update
attempt to the rollback attempt. Every request may be carried out, refused, or carried out with
its answer lost; `CancelContext` makes all later requests of a call fail, `Crash` ends all calls.
External: one container per name (`NameFree`), and `DaemonAutoRemove` of `--rm` containers.
Best-effort requests (events before the last, the image inspect) have no effect that matters and
are left out.

### NameSuccession

What concurrent recreations promise about the name, without program counters, requests and their
failures. `holders` is who has the name (the containers that exist) and `serving` whether it runs;
`stage` says of a call that it aims at a holder, is the heir, or how it ended; `unborn` has the
containers it may still install. `Halt` and `TakeOver` bring down and remove the holder a call aims
at; `Install`, `Start` and `Withdraw` concern what an heir makes itself, and need a free name, or
that it still holds it; `Report` needs what it reports to run, or to be another call's aim.
`ContainerRecreate` maps to it at its end (`Succession`): past its remove call a run is the heir, a
request that is carried out is one abstract step whatever its answer, and the waiting, the
inspections and the cancellations are stutters.

### UpdateContainer

Each call has a target container and walks `Begin`, `Skip`, `Pull`, `Compare`, then one of three
routes, then `ReadRecords`, `Clear`, `Finish`. The routes are `Trigger` (the self-updater),
`ChooseRoute` and `UpdateService` (docker compose, one step, as it is a single command), and the
requests of a standalone recreation: `Stop`, `Remove`, `Create`, `Start`, `Inspect`, `Record`,
`Cleanup`, each of which may be refused or carried out with an error. `attempt` says whether a call
is at its update or at its rollback (`NextAttempt`), `own` which container the attempt has created.
Calls interleave at every one of these steps: a call may inspect, find unchanged, or stop and remove
a container that another one has created and not started.

`ContainerRecreate` has the same requests with more of what may become of them (host preparation,
networks, cancellation, `--rm`) and without images; here they come with what makes reports true: the
image that was inspected, pulled and run. An image is a version, ordered by publication. `life` stands
for a container's ID: requests name the container by it, so they fail when it is no longer there
(`Holds`), while compose names the service and recreates whatever has it by now. The compose updater
looks for the project among the containers there are, and fails when the last one went after the
call chose that route; a success of docker compose is taken at its word, as `container.go` 376 does. A
project's files name the reference of its containers, which is the one a call pulls. A rollback
creates its container from an image ID (`pinned`); such a container is skipped when no tag names its
image any more (`Nameless`). A call whose container is not found returns without an effect and has no
action. Beginning and ending status entries is `StatusTracking`.

### RestartOrder

The loops of a pass before its dispatch, one phase each: marking (`Consider`, `EndPass`), the list of
the candidates that are marked (`Collect`, `EndCollect`), the depth-first search with an explicit
stack (`NextRoot`, `Visit`, `Leave`, `EndSort`), and `orderSelfUpdateLast`, which appends each candidate
to the slice of its role (`Sift`) and joins the three (`EndOrder`). A container is its name; the order
of the dependencies of one container is open, as the source collects them from links, labels and
network mode. `OrderIsRight` has four parts: the order has each marked container once
(`OrderIsComplete`), no role before an earlier one (`SelfUpdatesLast`), and among containers of one
role dependencies come first (`DependenciesFirst`), or, where the sort failed, what was discovered
first (`DiscoveredFirst`).

### RestartPass

`at` is the index of the loop named by `phase`. `BuildGroups`, then per candidate `LateInspect`,
`SkipUnmatched`, `UpdateProject` with `VerifyService`, or `Defer`; then the backward `Stop` loop,
the forward `Create` loop and the `Trigger` loop. `Killed` ends the pass once the container of
this process has been replaced.

A candidate's plan is to run a new image of its reference (`"explicit"`), to go over to another
reference (`"retagged"`), to restart with a dependency (`"implicit"`), or has no reference (`"none"`).
The project of each candidate is looked up on its own, so a group may lack services whose lookup
failed, which are then dispatched with the project all the same. docker compose recreates a service
from the project's files (`FromFiles`): they name the reference whose image was updated, but not the
one of a tag update, for which, as for a restart, the service may come back with the image it had.
`VerifyService` then fails it. An error of `Create` may leave nothing, or a container of the old or the
new image that runs or does not, as in `ContainerRecreate`.

### ApplyPending

`remote`, `local`, `ref`, `runs`, `handed`, `pending` and `latest` outlive a run, the rest is a run's
locals, which `Idle` resets. `Begin` makes plans from the records and the used images; `Skip`,
`StartPull`, `PullFails` (the image may have arrived), `Pull` execute them; `Scan` finds the containers
to restart as `ResolveContainerImageMatch` does; `Restart`, `EndRestarts`, `Clear`, `End` finish the run.
A container is listed by its reference while that names its image, and by image ID afterwards
(`ListedByRef`), as the daemon does; one that was rolled back has an image ID for its reference
(`ByID`). A crash leaves down what was stopped.

`Restart` takes the route of the container. `RestartStandalone`: recreated from its new reference; a
failure may leave it as it was, restarted, rolled back or down. `RestartService`: compose recreates it
from the reference its project's files name, which a tag update does not change, and it counts as
failed when it then runs the image it had. `Trigger`: once all others are through, the container is
handed to the self-updater with its new reference (`handed`) and counts as updated, while it still
runs the old image. `SelfUpdate` is the self-updater's replacement of it, at some time or never.
`Publish` and `Detect` are the registries and the host.

### StatusTracking and AtomicStatus

A snapshot is its ids and the identity of its allocation, which is what compare-and-swap
compares. `Load` and `CompareAndSwap` are the two halves of a turn of `updateStatusSnapshot`.
`AtomicStatus` has begin and end in one step; the refinement maps `listed` to the ids of the
snapshots the pointers hold.

### StatusReader

`StatusReader` adds a call of `Status` to the writers: it loads the containers, then the projects,
and returns both. `throughout` and `meanwhile` record who was updating in all of the call, and
what in any of it. One reader stands for any number, since reading changes nothing (a theorem).

### DigestCheck

`call` has the locals of each call of one of three kinds: a check that asks the registry
(`"check"`), one against the digest of the record (`"known"`), and a pull without a check
(`"pull"`). `Inspect` or `MatchKnown` ask the daemon; `Credentials` reads the Docker config;
`Manifest`, `Token` and `Retry` are the exchange with the registry; `PullOptions`, `Pull` and
`PullAgain` are the pull and its retry with the privilege function. A manifest has a digest, an
image an ID, and several manifests may stand for one image. Between any two steps the registry
publishes, the image is pulled or removed by others, or gets a digest of another repository, and
the host logs in and out.

### DockerClientProvider

Each access to the pointer, each ping, and each close of a shared client is a step. The daemon
goes up and down at any time, and a ping may fail while it is up, as the caller's context counts.

## 3. Runs

| Run | Question | Bounds | Result |
|---|---|---|---|
| `RecreateSafety` | do concurrent calls, whatever fails, replace a container twice, misreport, or touch what is not theirs (`NamePassesOn`)? | 3 calls, 3 faults of any kind, started running or stopped | holds |
| `RecreateService` | does a container survive refused requests and overlapping calls; do calls return? | 3 calls, 1 fault, none after an overlap | holds |
| `UpdateCalls` | are reports true, outages reported, records kept until applied? | 2 calls, every request a step; 2 containers, 2 tags, 4 routes, 3 modes, 2 faults | holds |
| `OrderGraphs` | are marks, order and cycle detection right? | graphs of 3 containers with up to 4 dependencies, every acyclic one among them; all roles and updates | holds |
| `PassResults` | are results true, nobody left, self-updates last? | 3 candidates, 2 projects, 3 roles, 4 plans, 2 faults | holds |
| `ApplySafety` | may a record go too early, or a container follow the wrong one? | 3 containers (a service, a standalone one, a self-update target), a tag and a digest record, 3 modes, 1 publication, 2 faults | holds |
| `ApplyLive` | is every pending digest update applied? | 2 containers (a service, a standalone one), 2 records, 3 publications, no faults | holds |
| `StatusLists` | do the loops implement the sets, and end; is a `Status` current? | 2 workers, 5 updates, shared project, a reader | holds |
| `DigestChecks` | does nothing outdated pass for up to date; are refusals justified; do checks end? | 1 call of 3 kinds, 3 manifests of 2 images, 4 accesses, 4 logins, 2 changes, 2 faults | holds |
| `ProviderCalls` | is the shared client open, owned, closed once; do calls return? | 3 callers, 4 calls | holds |
| `PassOwn` | is the updater's unlabelled container left to the self-updater? | 2 candidates, no fault | violated |
| `ApplyTags` | is a tag update applied when the daemon has its image? | 2 containers, 1 tag and 1 digest record, 1 publication, no fault | violated |

Why the bounds are enough. Two calls are needed for a race and three for one call to start
from what another made while a third is under way. Faults are independent of each other, and
what a second or third fault can add is a failure of the recovery from the first. Three
containers have every shape of a small graph: chain, fork, diamond edge, cycle, self-loop. An
acyclic graph of them has three dependencies at most, so all of those are there, and of those with
cycles every one with up to four. The proofs cover the rest. Two workers, one of which
ends while the other one is between its load and its swap, make a loop fail, and five updates
let it fail again and a reader meet old and new snapshots. Two images per reference are enough for
one to be stale; the three publications of `ApplyLive` let a reference go back to an earlier one, the
one of `ApplySafety` makes a record or a pull be late. One call of a
digest check is enough because calls share only the daemon's image and digests, which the
environment changes just as another call would; two manifests of one image and one of another
tell the comparison of digests from that of images. Its theorems are for any number of calls.

Constants that restrict a run are a part of what it shows:

- `FaultsFirst` in `RecreateService`: nothing fails any more after two calls have overlapped.
  Otherwise a rollback may find the name taken by the other call's replacement and be the one
  that is missing later. `ReplacementTrouble` leaves out a refused remove, which leaves the
  container stopped (the update ends with that error and starts nothing again), and the recorder
  (see 6).
- `OwnContainers` in `StatusLists`: each worker updates a container of its own.
- `LateInspects = FALSE`, references with images of their own and one record per reference in the
  runs of `ApplyPending`; see 6. `ApplyLive` has no tag updates, no faults and no self-update targets:
  see 5 and 6. `FirstRefs`: in `ApplySafety` no container is on the new tag from the start.
- `Composed` and `Targets` are disjoint, and lookups of projects succeed in `ApplyPending`: the
  unlabelled own container in a project, and services whose lookup fails, are in `RestartPass`.
- Roles without `"own"` in `PassResults`: the container of this process has its label; see 5.

`CHECK_DEADLOCK FALSE` in all: calls and passes end, and the bounds stop the environment.

Fairness. `RecreateService`, `StatusLists`, `DigestChecks` and `ProviderCalls` assume weak fairness
of the steps of each call: goroutines are scheduled, and a request returns when the daemon
answers, the connection breaks or its context is done (`opCtx`, `updater.go` 115-120, bounds it when
the host sets `OperationTimeout`; the requests to a registry have 30 seconds, `NewHTTPClient` and
`FetchDigest` of `registry_http.go`). Nothing is assumed of callers, faults, publications, readers
or the state of the daemon. `OrderGraphs`: a sequential program goes on. `ApplyLive` and
`ApplyTags`: weak fairness of `Step`, which includes `Begin`: the host, whose job scheduling is
(`README.md` 105), calls `ApplyPending` again and again. `Publish` is bounded, and `Detect` is never
forced.

## 4. Proofs

TLAPS proves these for every value of the constants that satisfies the ASSUMEs of the modules
(ids are distinct from sentinels, bounds are naturals, maps have the types one expects).

- `ContainerRecreate_proofs`: `TypeCorrect`; `ExclusiveReplacementHolds`, by `ReplacementInv`. Two
  calls with one target are told apart by the remove call, but only if a removed id never comes
  back: `FreshIds` says that the id a create call will yield has never been seen, `ReplacedIsGone`
  that a target stays absent, `ReportsAtEnd` that results belong to calls that are over.
  `ReportedContainerServesHolds`, by `ServingInv`: it adds the attempt that is about to be recorded
  (`StartedServes`). `StepMoves` and `StepKeepsServing` say which ids a step of a call may touch:
  its target and what it created. These hold whatever goes wrong.
  `ServiceSurvivesHolds` is proved under `LittleTrouble`: a container that runs and was not deployed
  with `--rm`, one fault at most, a refused request of a replacement or the lost answer of a start,
  and none after an overlap. Section 6 says what happens with more. `SurvivalInv` is what makes it
  inductive: whatever is down has a call that takes it further. A stopped container has one that
  removes it (`StoppedIsClaimed`), a created one its creator (`CreatedIsAttended`), a free name a call
  about to create (`GapIsFilled`); the one fault hits a call that is alone and undisturbed
  (`FaultsComeFirst`), so that its rollback finds the name free, and `LocalsTell` says what a call's
  locals tell of its container.
  `RunningReplacementKeptHolds` needs only `NoFalseAlarm`: the recorder does not fail, and inspections
  do not, or no answer of a start is lost, or there is one fault at most, which cannot be both.
  Then what a call cleans up does not run, or the clean-up is refused as well
  (`CleansUpWhatIsDown`).
  `ImplementsNameSuccession`: each action is one abstract step or a stutter, one lemma per action.
  What the abstract steps ask for is what the daemon asks for (a free name, a stopped container)
  and what the program counter tells (`StageTells`); a take-over also needs `UpdateFirst`, and a
  report `StartedServes`.
- `StatusReader_proofs`: `TypeCorrect`; `ImplementsAtomicStatus` by `SnapshotsAreImmutable` (a
  pointer that is unchanged since the load holds the ids that were loaded, so the swap is the
  atomic step on the current ids; every other step is a stutter); `UpdatingIsListedHolds` by
  `BegunIsListed`, under the hypothesis `OwnContainersOnly`. Since `ReadersOnlyRead`, these hold
  with readers too. `NothingStaysListed` (`ListedIsUnderWay`) is proved of the abstract steps and
  needs no such hypothesis; `StatusIsCurrentHolds` adds what a reader that is between its two loads
  knows (`HalfRead`).
- `UpdateContainer_proofs`: `TypeCorrect`, `ReportIsTrueHolds`, `OutageIsReportedHolds`,
  `ClearedWasAppliedHolds`, for any number of calls that interleave at every request. The invariant is
  `Published` (no registry is behind the daemon, no daemon behind its containers), `PinnedByRollback`
  (a container that was created from an image ID was so by the rollback of a call that reports no
  success, and runs the image that one inspected), `OutageIsReported` itself and, for each call, what it
  knows: of itself (`KnowsItself`: only a success goes on to the records) and of the world
  (`KnowsWorld`: as long as its container has the ID it was inspected with, it runs the image it was
  inspected with; unless it was rolled back, it runs no older one; once the pull is done the daemon
  has at least what the registry served when the call began, and so has the container the call
  created, unless it was rolled back). `Grows` is what one call may rely on
  of all the others: versions and IDs only grow, but by a rollback.
- `RestartPass_proofs`: `TypeCorrect`, `NoDependentWithoutDependencyHolds`, `SelfUpdatesComeLastHolds`,
  and, under `"own" \notin Roles`, `ResultsAreTrueHolds` and `NobodyIsLeftBehindHolds`. `Lengths` keeps
  the loops within their queues, `Queues` says who is queued, once each and in which order,
  `Stands` says who is down between the two loops. For each candidate, `HasResult` says in which
  phase it may be without a result, `Honest` what a result means already, and `Smooth` what it is
  without faults, where a service that compose recreated on the image it had is the one failure. The hypothesis is what the run `PassOwn` shows to be needed: with an unlabelled
  container of this process, docker compose may end the pass in the middle.
- `ApplyPending_proofs`: `TypeCorrect`, `ClearedWasPulledHolds`, and, under `OwnImages` (no image
  belongs to two references), `FollowsItsRecordHolds`. Types need more than types here: a container
  is restarted from the image its new reference names, so there has to be one (`NamesAnImage`),
  which holds since new references come from plans that were pulled (`MapsAreUpdates`,
  `PulledIsServed`). `InPlace` and `TargetsFollow` add where images and containers may go, and
  `HandedIsRight` where the self-updater may take them.
  `FailedRestartKeepsRecordHolds` adds `SeparateRecords`: one record per reference, none that begins
  where another one ends, and no failed late inspection, whose result names no image. The first two
  keep the maps of a run from leading a container astray. The invariant (`KeepsInv`) follows a
  container of a replaced image from the plan to the end: both maps lead to the new reference
  (`UpdatesAreMapped`), the containers of a reference that a tag update leaves are listed by it
  (`LeftTagsStand`), after the scan such a container runs the new image, is on the list, is
  handed over with the new reference, or its failure is noted (`RestartsGoOn`), and the list is used
  up before records are cleared (`ListIsUsedUp`). `RestartEffect` sums up the three routes of a restart.
- `DigestCheck_proofs`: `TypeCorrect`, `UpToDateIsTrueHolds`, `RefusalsHaveAReasonHolds`. The invariant
  (`AllRight`) is `Sound` of every call: the local digest a call works with is one of the image it
  inspected, the registry's present digest is among those it served to the call, an error has
  its reason. Steps of other calls only change what the environment may change as well.
- `DockerClientProvider_proofs`: `TypeCorrect`, `CurrentIsOpenHolds`, `NoLeakHolds`,
  `ClosedOnceHolds`. The three are inductive together (`OwnershipInv`): a client is in the pointer
  or with one owner, and each compare-and-swap hands it over.
- `RestartOrder_proofs`: `TypeCorrect`; `MarkingIsTheClosure` by `MarkInv` (everything marked has a
  reason; what a pass has gone by without adding anything is closed); `SortingIsTopological` and
  `FailureMeansCycle` by `SortInv`: the output is what was visited (`OutputInv`), the stack is a chain
  of dependencies whose finished dependencies are visited or next on it (`PathInv`), and the loop
  forgets nothing (`ProgressInv`). `Reaches` is defined by closed sets, not by recursion, so that
  it can be reasoned about; `PrefixClosed` derives the order of indirect dependencies from that of
  direct ones. `OrderIsRightHolds`, by `CollectInv` and `OrderInv`: a list picked from another has the
  same containers of its role in the same order (`Picked`), so the order is three slices without
  gaps, and two containers change places only when their roles differ (`OrderKept`).

`ReaderTypeCorrect`, the types of `StatusReader`, is proved and checked by no run.

Only model-checked: all liveness (`EveryCallReturns`, `EveryUpdateEnds`, `EveryCallEnds`,
`EveryUpdateIsApplied`, `Terminates`), as the prover has no ENABLED. The properties proved under
hypotheses are `ServiceSurvives`, `RunningReplacementKept`, `FollowsItsRecord`,
`FailedRestartKeepsRecord`, `UpdatingIsListed`, `StatusIsCurrent`, `ResultsAreTrue` and
`NobodyIsLeftBehind`; the constants of their runs satisfy them.

## 5. Where code and text differ

Each is a run with `expect: violation`.

- `PassOwn`: `buildComposeGroups` (`compose_groups.go` 28) leaves out self-update targets by label,
  so the service of an unlabelled container named by `SelfContainerID` is recreated with its
  project. `config.go` 47-50 says it is always routed through the self-updater.
- `ApplyTags`: the plan of a tag update is skipped as up to date when the daemon already has the
  image of the new tag (`apply.go` 108), because it was pulled by hand or another container runs it;
  nobody looks at the containers of the old tag, and every later run does the same. `README.md:65`
  says that `ApplyPending` applies each pending update and restarts the containers still running
  the images it replaced, and `doc.go:18` that it works through every update recorded.

## 6. Other limits met while modelling

These make a property fail when the corresponding constant or fault is allowed; no run states
them as a disagreement with a text.

- `container.go` 236: the daemon removes a stopped `--rm` container before the remove call, which
  fails; the update ends with nothing running.
- `updater.go` 115: rollback requests derive from the caller's context, so a caller that gives up
  between remove and start leaves nothing running. So does a create whose answer is lost
  (`container.go` 302): its container blocks the name.
- `container.go` 353: a container that was rolled back has no reference but an image ID, so
  `UpdateContainer` skips it from then on, unless a tag still names its image.
- `container.go` 321: an `EventRecorder` error of the last event takes down the replacement.
- `container.go` 348: a rollback goes back to the image that was inspected. A call that inspects the
  new container of another one between its create and its start, and finds it unchanged, reports so;
  the other one may still fail to start it and take it back. So a report can be overtaken by a
  rollback, and a container goes back behind the update of another call; `ReportIsTrue` says that only
  the rollback of a call that reports no success does that.
- `status.go` 81: lists are sets without counts, so the first of two updates that share a project
  takes it off.
- `status.go` 11: `Status` is not of one moment: containers and projects are loaded one after the
  other. `StatusIsCurrent` says what remains true.
- `restart.go` 409: a compose service that is restarted for a dependency is verified as if its image
  had been replaced, so it is reported Failed; `constants.go` 34 describes `StatusRestarted`. The same
  goes for a tag update: compose recreates the service from the project's own files
  (`compose_updater.go` 54), which name the old tag, so it is reported Failed without a fault, and its
  record stays. `ResultsAreTrue` allows this faultless failure and no other.
- `restart.go` 301: a self-update that was triggered counts as Updated, and its record is cleared,
  while the container still runs the old image; nobody looks whether the self-updater gets to it.
  `FailedRestartKeepsRecord` says that it has been handed the container with the new reference.
- `apply.go` 108, 244, 300: after a failed restart the record is kept, but the image is there
  already, so the next run skips the plan, or makes none as the containers are listed by image ID.
- `internal/digestcheck`: the local digest is the first of the image's repository digests, so an
  image that is current may be pulled once more; the reverse cannot happen (`UpToDateIsTrue`).
- `restart.go` 236: the result of a failed late inspect names no image, so the record of its
  plan is cleared (`LateInspects = TRUE`).
- The self-updater is assumed not to replace a container between the scan of a later run and that
  run's trigger for it (the guard of `SelfUpdate`): otherwise a run hands over a container under an ID
  that is gone.
- `apply.go` 72: plans share an entry of `oldIDToNewRef` when their references share an image;
  containers of the one follow the other.
- `defaults.go` 66 and 90: a client in use may be closed by another caller whose ping failed; a
  winner of the publication is handed out without a ping of its own.

## 7. Not modelled

- References, labels and digests as text, URLs and headers of the registry protocol, the rate
  limits it reports: stateless conversions. The modules work with normalized references, roles,
  routes, digests and kinds of access.
- Argument building of docker compose; its effect on services is in `RestartPass` and
  `UpdateContainer`.
- The host's `UsedImageCollector` and its scope filters: `ApplyPending` takes every container.
- What is saved again under a record's key while a run or a call is under way.
- docker compose as a sequence of requests: it is one step, with partial outcomes when it fails.
- `internal/compat`'s conversion of container configurations, apart from what decides whether a
  create or a connect request is made.
- Configuration, formatting, logging, counters of results.

## 8. Plan

Done: all components above; the proofs of section 4.

What would add to it:

1. A pending-store module: keys, versions of records, and a save between read and clear, composed
   with `UpdateContainer` and `ApplyPending`.
2. A naming layer under `RestartOrder`: links, labels and network modes that name a container by id
   or by a project-qualified name.
3. The use of a client after its hand-out in `DockerClientProvider`.
4. Refinements upwards: the single steps of `RestartPass` and `ApplyPending` that stand for a
   recreation, justified from `NameSuccession` instead of by the outcomes they list.
