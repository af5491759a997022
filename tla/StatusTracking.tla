--------------------------- MODULE StatusTracking ----------------------------
(***************************************************************************)
(* The status tracking of a Service (status.go): two atomic pointers, one  *)
(* for containers and one for projects, to immutable snapshots of the ids  *)
(* being updated.  A begin or an end loads the pointer, derives the next   *)
(* snapshot and publishes it with compare-and-swap, from the start again   *)
(* when another goroutine was faster.                                      *)
(*                                                                         *)
(* A snapshot is modelled as the set of its ids and the identity of its    *)
(* allocation, which is what compare-and-swap compares (the collector does *)
(* not reuse the address of one that is still referred to); that the slice *)
(* is sorted only serves the search.                                       *)
(***************************************************************************)
EXTENDS Naturals

CONSTANTS
  Workers, Containers, Projects, NoProject, MayUpdate,  \* as in AtomicStatus
  MaxUpdates      \* bound on the updates asked for in a behaviour

VARIABLES
  stage, work,    \* as in AtomicStatus
  active,         \* the snapshot each pointer holds
  loaded,         \* the snapshot each worker derives its next one from
  published,      \* how many snapshots have been published
  asked           \* how many updates have been asked for (a bound)

vars == <<stage, work, active, loaded, published, asked>>

listedIds == [l \in {"containers", "projects"} |-> active[l].ids]
Atomic == INSTANCE AtomicStatus WITH listed <- listedIds

Steps     == Atomic!Steps
Lists     == Atomic!Lists
Ids       == Atomic!Ids
ListOf    == Atomic!ListOf
Snapshots == [ptr : Nat, ids : SUBSET Ids]
NotLoaded == [ptr |-> 0, ids |-> {}]      \* no snapshot has the number 0

TypeOK ==
  /\ stage \in [Workers -> Atomic!Stages]
  /\ work \in [Workers -> Atomic!Work]
  /\ active \in [Lists -> Snapshots]
  /\ loaded \in [Workers -> Snapshots]
  /\ published \in Nat /\ asked \in 0..MaxUpdates

ASSUME BoundAssumption == MaxUpdates \in Nat
ASSUME NoProjectAssumption == NoProject \notin Projects \cup Containers
ASSUME MayUpdateAssumption == MayUpdate \in [Workers -> SUBSET Containers]

-----------------------------------------------------------------------------
(* newService stores an empty snapshot in both pointers.                   *)
Init ==
  /\ stage = [w \in Workers |-> "idle"]
  /\ work \in [Workers -> [container : Containers, project : {NoProject}]]
  /\ \A w \in Workers : work[w].container \in MayUpdate[w]
  /\ active = [l \in Lists |-> [ptr |-> IF l = "containers" THEN 1 ELSE 2, ids |-> {}]]
  /\ loaded = [w \in Workers |-> NotLoaded]
  /\ published = 2
  /\ asked = 0

Ask(w) ==
  /\ stage[w] = "idle" /\ asked < MaxUpdates
  /\ \E c \in MayUpdate[w], p \in Projects \cup {NoProject} :
       work' = [work EXCEPT ![w] = [container |-> c, project |-> p]]
  /\ stage' = [stage EXCEPT ![w] = "beginContainer"]
  /\ asked' = asked + 1
  /\ UNCHANGED <<active, loaded, published>>

(* The operation returns: the worker goes on to its next stage.            *)
Return(w) ==
  /\ stage' = [stage EXCEPT ![w] = Atomic!After[stage[w]]]
  /\ loaded' = [loaded EXCEPT ![w] = NotLoaded]

(* The id of the operation is empty: the container is in no project.       *)
Unlisted(w) == Atomic!IdOf(w, stage[w]) = NoProject

(* beginStatusUpdate with an empty id: nothing, and a callback that does   *)
(* nothing.                                                                *)
SkipEmptyId(w) ==
  /\ stage[w] \in Steps /\ Unlisted(w)
  /\ Return(w)
  /\ UNCHANGED <<work, active, published, asked>>

(* The head of updateStatusSnapshot's loop: load the pointer; an id to add *)
(* that is found, or one to delete that is not, ends the operation.        *)
Load(w) ==
  /\ stage[w] \in Steps /\ ~Unlisted(w) /\ loaded[w] = NotLoaded
  /\ LET snapshot == active[ListOf[stage[w]]] IN
       IF Atomic!Applied(stage[w], snapshot.ids, Atomic!IdOf(w, stage[w])) = snapshot.ids
       THEN Return(w)
       ELSE loaded' = [loaded EXCEPT ![w] = snapshot] /\ UNCHANGED stage
  /\ UNCHANGED <<work, active, published, asked>>

(* Wrong on purpose: what was loaded is not looked at again, it is stored. *)
StoreBlindly(w) ==
  LET l == ListOf[stage[w]] IN
  /\ stage[w] \in Steps /\ loaded[w] # NotLoaded
  /\ published' = published + 1
  /\ active' = [active EXCEPT ![l] =
                  [ptr |-> published + 1,
                   ids |-> Atomic!Applied(stage[w], loaded[w].ids, Atomic!IdOf(w, stage[w]))]]
  /\ Return(w)
  /\ UNCHANGED <<work, asked>>

(* Wrong on purpose: one attempt, whether or not the swap succeeded.       *)
SwapOnce(w) ==
  LET l == ListOf[stage[w]] IN
  /\ stage[w] \in Steps /\ loaded[w] # NotLoaded
  /\ published' = published + 1
  /\ active' = IF active[l].ptr = loaded[w].ptr
               THEN [active EXCEPT ![l] =
                      [ptr |-> published + 1,
                       ids |-> Atomic!Applied(stage[w], loaded[w].ids, Atomic!IdOf(w, stage[w]))]]
               ELSE active
  /\ Return(w)
  /\ UNCHANGED <<work, asked>>

(* Wrong on purpose: the retry swaps against the pointer it loaded first.  *)
SwapAgainstStale(w) ==
  LET l == ListOf[stage[w]] IN
  /\ stage[w] \in Steps /\ loaded[w] # NotLoaded
  /\ IF active[l].ptr = loaded[w].ptr
     THEN /\ active' = [active EXCEPT ![l] =
                          [ptr |-> published + 1,
                           ids |-> Atomic!Applied(stage[w], loaded[w].ids,
                                                  Atomic!IdOf(w, stage[w]))]]
          /\ published' = published + 1
          /\ Return(w)
     ELSE UNCHANGED <<stage, active, loaded, published>>
  /\ UNCHANGED <<work, asked>>

(* Its tail: publish a new snapshot if the pointer is still the one loaded,*)
(* else go round again.                                                    *)
CompareAndSwap(w) ==
  LET l == ListOf[stage[w]] IN
  /\ stage[w] \in Steps /\ loaded[w] # NotLoaded
  /\ IF active[l].ptr = loaded[w].ptr
     THEN /\ published' = published + 1
          /\ active' = [active EXCEPT ![l] =
                          [ptr |-> published + 1,
                           ids |-> Atomic!Applied(stage[w], loaded[w].ids,
                                                  Atomic!IdOf(w, stage[w]))]]
          /\ Return(w)
     ELSE /\ loaded' = [loaded EXCEPT ![w] = NotLoaded]
          /\ UNCHANGED <<stage, active, published>>
  /\ UNCHANGED <<work, asked>>

(* The update itself is over and the deferred callbacks run.               *)
Finish(w) ==
  /\ stage[w] = "updating"
  /\ stage' = [stage EXCEPT ![w] = "endProject"]
  /\ UNCHANGED <<work, active, loaded, published, asked>>

Proceed(w) == SkipEmptyId(w) \/ Load(w) \/ CompareAndSwap(w) \/ Finish(w)

Next == \E w \in Workers : Ask(w) \/ Proceed(w)

Spec == Init /\ [][Next]_vars

(* Goroutines are scheduled, and an update ends some day.                  *)
Fairness == \A w \in Workers : WF_vars(Proceed(w))

FairSpec == Spec /\ Fairness

-----------------------------------------------------------------------------
(* The compare-and-swap loops implement atomic set operations.             *)
AtomicSpec == Atomic!Spec

(* While a worker updates a container, Status lists it, however its begin  *)
(* raced with the begins and ends of other workers (for workers that       *)
(* update different containers).                                           *)
UpdatingIsListed ==
  \A w \in Workers : stage[w] = "updating" => work[w].container \in active["containers"].ids

(* Every update ends: no worker loops for ever on failing swaps.           *)
EveryUpdateEnds == \A w \in Workers : stage[w] # "idle" ~> stage[w] = "idle"

-----------------------------------------------------------------------------
(* The inductive invariant behind the refinement: a snapshot that is still *)
(* the one a pointer holds has not changed since it was loaded.            *)
SnapshotsAreImmutable ==
  /\ \A l \in Lists : active[l].ptr \in 1..published
  /\ \A w \in Workers : loaded[w] # NotLoaded =>
       /\ stage[w] \in Steps /\ ~Unlisted(w)
       /\ loaded[w].ptr \in 1..published
       /\ loaded[w].ptr = active[ListOf[stage[w]]].ptr
            => loaded[w].ids = active[ListOf[stage[w]]].ids

(* And behind UpdatingIsListed, for workers with containers of their own.  *)
OwnContainersOnly == \A v, w \in Workers : v # w => MayUpdate[v] \cap MayUpdate[w] = {}

BegunIsListed ==
  \A w \in Workers :
    /\ work[w].container \in MayUpdate[w]
    /\ stage[w] \notin {"idle", "beginContainer"}
         => work[w].container \in active["containers"].ids

(* And behind StatusIsCurrent (StatusReader): nothing stays listed once its*)
(* updates are over, even when workers share containers and projects.      *)
Marking(l) == IF l = "containers" THEN {"beginProject", "updating", "endProject", "endContainer"}
                                  ELSE {"updating", "endProject"}

ListedIsUnderWay ==
  \A l \in Lists : \A id \in active[l].ids :
    \E w \in Workers : stage[w] \in Marking(l) /\ id = (IF l = "containers" THEN work[w].container
                                                                        ELSE work[w].project)
=============================================================================
