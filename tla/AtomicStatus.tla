---------------------------- MODULE AtomicStatus -----------------------------
(***************************************************************************)
(* What the status tracking of a Service promises: the containers and the  *)
(* projects being updated are two sets, and each BeginContainerUpdate,     *)
(* BeginProjectUpdate or completion callback adds or deletes one id of one *)
(* of them in a single step.  StatusTracking implements it with            *)
(* compare-and-swap on immutable snapshots.                                *)
(***************************************************************************)

CONSTANTS
  Workers,      \* goroutines that update containers
  Containers,   \* container ids
  Projects,     \* project ids
  NoProject,    \* the empty project id of a container outside compose
  MayUpdate     \* MayUpdate[w]: the containers worker w is asked to update

Lists == {"containers", "projects"}

VARIABLES
  stage,    \* where each worker is in its update
  work,     \* the container and the project it updates
  listed    \* the ids of each list

(* A worker begins the container, then its project, updates, and runs the  *)
(* deferred callbacks in the opposite order.                               *)
Steps  == {"beginContainer", "beginProject", "endProject", "endContainer"}
Stages == Steps \cup {"idle", "updating"}
After  == [beginContainer |-> "beginProject", beginProject |-> "updating",
           endProject |-> "endContainer", endContainer |-> "idle"]
ListOf == [beginContainer |-> "containers", endContainer |-> "containers",
           beginProject |-> "projects", endProject |-> "projects"]

Ids == Containers \cup Projects
IdOf(w, step) == IF ListOf[step] = "containers" THEN work[w].container ELSE work[w].project

(* The set a step makes of a list's ids.                                   *)
Applied(step, ids, id) ==
  IF step \in {"beginContainer", "beginProject"} THEN ids \cup {id} ELSE ids \ {id}

Work == [container : Containers, project : Projects \cup {NoProject}]

Init ==
  /\ stage = [w \in Workers |-> "idle"]
  /\ work \in [Workers -> Work]
  /\ listed = [l \in Lists |-> {}]

(* A caller asks worker w to update one container.                         *)
Ask(w) ==
  /\ stage[w] = "idle"
  /\ \E c \in MayUpdate[w], p \in Projects \cup {NoProject} :
       work' = [work EXCEPT ![w] = [container |-> c, project |-> p]]
  /\ stage' = [stage EXCEPT ![w] = "beginContainer"]
  /\ UNCHANGED listed

(* One begin or end, in one step; an empty id is a no-op.                  *)
Apply(w) ==
  /\ stage[w] \in Steps
  /\ LET step == stage[w]  l == ListOf[step]  id == IdOf(w, step) IN
       listed' = IF id = NoProject THEN listed
                 ELSE [listed EXCEPT ![l] = Applied(step, @, id)]
  /\ stage' = [stage EXCEPT ![w] = After[stage[w]]]
  /\ UNCHANGED work

Finish(w) ==
  /\ stage[w] = "updating"
  /\ stage' = [stage EXCEPT ![w] = "endProject"]
  /\ UNCHANGED <<work, listed>>

Next == \E w \in Workers : Ask(w) \/ Apply(w) \/ Finish(w)

Spec == Init /\ [][Next]_<<stage, work, listed>>
=============================================================================
