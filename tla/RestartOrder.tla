---------------------------- MODULE RestartOrder -----------------------------
(***************************************************************************)
(* Which containers a restart pass recreates, and in which order.          *)
(*                                                                         *)
(* restart.go marks the containers whose image was updated, then everything*)
(* that depends on a marked container, pass after pass until nothing is    *)
(* added; the marked ones are sorted by a depth-first search over their    *)
(* dependencies (internal/deps/sorter.go), in discovery order when that    *)
(* search meets a cycle; self-update targets are moved to the end.         *)
(*                                                                         *)
(* A container is its name.  Names of dependencies that are not scanned are*)
(* ignored by the code and left out; the order in which the search takes   *)
(* the dependencies of one container is left open.                         *)
(***************************************************************************)
EXTENDS Naturals, Sequences

CONSTANTS
  Containers,   \* the scanned containers, in discovery order
  Graphs,       \* the dependency relations they may have
  Explicits,    \* the sets of containers whose image may have been updated
  Roles         \* the label roles they may have

Names == {Containers[i] : i \in 1..Len(Containers)}

ASSUME ContainersAssumption ==
  /\ Containers \in Seq(Names)
  /\ \A i, j \in 1..Len(Containers) : Containers[i] = Containers[j] => i = j
ASSUME GraphsAssumption    == Graphs \subseteq [Names -> SUBSET Names]
ASSUME ExplicitsAssumption == Explicits \subseteq SUBSET Names
ASSUME RolesAssumption     == Roles \subseteq {"normal", "agent", "server"}

VARIABLES
  deps,       \* links, depends-on label and shared network of each container
  role,       \* what its labels make it
  explicit,   \* the containers whose image was updated
  marked,     \* markedForRestart
  grew,       \* whether this pass of UpdateImplicitRestart added one
  next,       \* index of the loop under way
  phase,      \* mark, collect, sort, order: a loop each; then done
  candidates, \* the marked containers, in discovery order
  path,       \* the calls of visit under way: container and dependencies left
  visited,    \* containers whose visit has returned
  sorted,     \* the sorter's output so far
  failed,     \* whether it met a cycle
  slices,     \* normalCandidates, agentCandidates and serverCandidates
  order       \* the order handed to executeRestartPlans

graph  == <<deps, role, explicit>>
search == <<path, visited, sorted, failed>>
vars   == <<graph, marked, grew, next, phase, candidates, search, slices, order>>

LabelRoles == {"normal", "agent", "server"}
Frames == [name : Names, todo : SUBSET Names]

TypeOK ==
  /\ deps \in [Names -> SUBSET Names] /\ role \in [Names -> Roles]
  /\ explicit \in SUBSET Names /\ marked \in SUBSET Names /\ visited \in SUBSET Names
  /\ grew \in BOOLEAN /\ failed \in BOOLEAN
  /\ next \in Nat \ {0}
  /\ phase \in {"mark", "collect"} => next <= Len(Containers) + 1
  /\ phase \in {"mark", "collect", "sort", "order", "done"}
  /\ path \in Seq(Frames)
  /\ candidates \in Seq(marked) /\ sorted \in Seq(marked) /\ order \in Seq(marked)
  /\ slices \in [LabelRoles -> Seq(marked)]

-----------------------------------------------------------------------------
Top     == path[Len(path)]
Frame(c) == [name |-> c, todo |-> deps[c] \cap marked]   \* nameToIndex has the marked ones
Took(d) == [path EXCEPT ![Len(path)].todo = @ \ {d}]     \* the loop of visit goes on
OnPath(c) == \E i \in 1..Len(path) : path[i].name = c

(* What orderSelfUpdateLast is given: discovery order when the sort fails. *)
Chosen == IF failed THEN candidates ELSE sorted

Init ==
  /\ deps \in Graphs /\ role \in [Names -> Roles] /\ explicit \in Explicits
  /\ marked = explicit
  /\ grew = FALSE /\ next = 1 /\ phase = "mark"
  /\ candidates = <<>>
  /\ path = <<>> /\ visited = {} /\ sorted = <<>> /\ failed = FALSE
  /\ slices = [r \in LabelRoles |-> <<>>] /\ order = <<>>

(* One round of the loop of UpdateImplicitRestart; a container marked in   *)
(* this pass already counts for those after it.                            *)
Consider ==
  /\ phase = "mark" /\ next <= Len(Containers)
  /\ LET c == Containers[next] IN
       IF c \notin marked /\ deps[c] \cap marked # {}
       THEN marked' = marked \cup {c} /\ grew' = TRUE
       ELSE UNCHANGED <<marked, grew>>
  /\ next' = next + 1
  /\ UNCHANGED <<graph, phase, candidates, search, slices, order>>

(* Wrong on purpose: one pass is taken for enough.                         *)
EndPassAtOnce ==
  /\ phase = "mark" /\ next > Len(Containers)
  /\ phase' = "collect" /\ next' = 1 /\ grew' = FALSE
  /\ UNCHANGED <<graph, marked, candidates, search, slices, order>>

(* Wrong on purpose: whether a pass added something is not reset.          *)
EndPassForgetful ==
  /\ phase = "mark" /\ next > Len(Containers)
  /\ phase' = IF grew THEN "mark" ELSE "collect"
  /\ next' = 1
  /\ UNCHANGED <<graph, marked, grew, candidates, search, slices, order>>

(* propagateImplicitRestarts: another pass unless this one added nothing.  *)
EndPass ==
  /\ phase = "mark" /\ next > Len(Containers)
  /\ phase' = IF grew THEN "mark" ELSE "collect"
  /\ next' = 1 /\ grew' = FALSE
  /\ UNCHANGED <<graph, marked, candidates, search, slices, order>>

(* Wrong on purpose: everything that was scanned is a candidate.           *)
CollectAll ==
  /\ phase = "collect" /\ next <= Len(Containers)
  /\ candidates' = Append(candidates, Containers[next])
  /\ next' = next + 1
  /\ UNCHANGED <<graph, marked, grew, phase, search, slices, order>>

(* One round of the loop of sortRestartCandidates.                         *)
Collect ==
  /\ phase = "collect" /\ next <= Len(Containers)
  /\ LET c == Containers[next] IN
       candidates' = IF c \in marked THEN Append(candidates, c) ELSE candidates
  /\ next' = next + 1
  /\ UNCHANGED <<graph, marked, grew, phase, search, slices, order>>

EndCollect ==
  /\ phase = "collect" /\ next > Len(Containers)
  /\ phase' = "sort" /\ next' = 1
  /\ UNCHANGED <<graph, marked, grew, candidates, search, slices, order>>

(* The loop of Sort: visit the next candidate that has not been.           *)
NextRoot ==
  /\ phase = "sort" /\ path = <<>> /\ next <= Len(candidates)
  /\ LET c == candidates[next] IN
       path' = IF c \in visited THEN <<>> ELSE <<Frame(c)>>
  /\ next' = next + 1
  /\ UNCHANGED <<graph, marked, grew, phase, candidates, visited, sorted, failed, slices, order>>

(* Wrong on purpose: a container marked by an earlier visit stays marked.  *)
VisitMarkedForEver ==
  /\ phase = "sort" /\ path # <<>>
  /\ \E d \in Top.todo :
       IF OnPath(d) \/ d \in visited
       THEN /\ phase' = "order" /\ next' = 1 /\ failed' = TRUE
            /\ UNCHANGED path
       ELSE /\ path' = Append(Took(d), Frame(d))
            /\ UNCHANGED <<phase, next, failed>>
  /\ UNCHANGED <<graph, marked, grew, candidates, visited, sorted, slices, order>>

(* visit of a dependency of the container on top: a cycle when it is under *)
(* way, nothing when it has been visited, a nested call otherwise.         *)
Visit ==
  /\ phase = "sort" /\ path # <<>>
  /\ \E d \in Top.todo :
       IF OnPath(d)
       THEN /\ phase' = "order" /\ next' = 1 /\ failed' = TRUE
            /\ UNCHANGED path
       ELSE /\ path' = IF d \in visited THEN Took(d) ELSE Append(Took(d), Frame(d))
            /\ UNCHANGED <<phase, next, failed>>
  /\ UNCHANGED <<graph, marked, grew, candidates, visited, sorted, slices, order>>

(* Wrong on purpose: the output is prepended to.                           *)
LeaveFront ==
  /\ phase = "sort" /\ path # <<>> /\ Top.todo = {}
  /\ visited' = visited \cup {Top.name}
  /\ sorted' = <<Top.name>> \o sorted
  /\ path' = SubSeq(path, 1, Len(path) - 1)
  /\ UNCHANGED <<graph, marked, grew, next, phase, candidates, failed, slices, order>>

(* visit returns: its container follows all it depends on.                 *)
Leave ==
  /\ phase = "sort" /\ path # <<>> /\ Top.todo = {}
  /\ visited' = visited \cup {Top.name}
  /\ sorted' = Append(sorted, Top.name)
  /\ path' = SubSeq(path, 1, Len(path) - 1)
  /\ UNCHANGED <<graph, marked, grew, next, phase, candidates, failed, slices, order>>

EndSort ==
  /\ phase = "sort" /\ path = <<>> /\ next > Len(candidates)
  /\ phase' = "order" /\ next' = 1
  /\ UNCHANGED <<graph, marked, grew, candidates, search, slices, order>>

(* One round of the loop of orderSelfUpdateLast.                           *)
Sift ==
  /\ phase = "order" /\ next <= Len(Chosen)
  /\ LET c == Chosen[next] IN
       slices' = [slices EXCEPT ![role[c]] = Append(slices[role[c]], c)]
  /\ next' = next + 1
  /\ UNCHANGED <<graph, marked, grew, phase, candidates, search, order>>

(* Wrong on purpose: servers are handled before agents.                    *)
EndOrderServersFirst ==
  /\ phase = "order" /\ next > Len(Chosen)
  /\ order' = slices["normal"] \o slices["server"] \o slices["agent"]
  /\ phase' = "done"
  /\ UNCHANGED <<graph, marked, grew, next, candidates, search, slices>>

EndOrder ==
  /\ phase = "order" /\ next > Len(Chosen)
  /\ order' = slices["normal"] \o slices["agent"] \o slices["server"]
  /\ phase' = "done"
  /\ UNCHANGED <<graph, marked, grew, next, candidates, search, slices>>

Next ==
  \/ Consider \/ EndPass
  \/ Collect \/ EndCollect
  \/ NextRoot \/ Visit \/ Leave \/ EndSort
  \/ Sift \/ EndOrder

Spec == Init /\ [][Next]_vars
FairSpec == Spec /\ WF_vars(Next)     \* a sequential program goes on

-----------------------------------------------------------------------------
(* x depends on y, directly or through others: y is in every set that has  *)
(* the dependencies of x and those of its own members.                     *)
Reaches(x, y) ==
  \A S \in SUBSET Names :
    deps[x] \subseteq S /\ (\A z \in S : deps[z] \subseteq S) => y \in S

Before(s, x, y) == \E i, j \in 1..Len(s) : i < j /\ s[i] = x /\ s[j] = y

(* The passes over the containers end with every container that depends,   *)
(* however far away, on one with an updated image, and with no other.      *)
MarkedIsClosure ==
  phase # "mark" =>
    marked = explicit \cup {x \in Names : \E y \in explicit : Reaches(x, y)}

(* The depth-first search puts every container after all those it depends  *)
(* on, directly or through others.                                         *)
SortIsTopological ==
  \A i \in 1..Len(sorted) : \A y \in marked :
    phase # "mark" /\ Reaches(sorted[i], y) => Before(sorted, y, sorted[i])

(* It gives up exactly on the graphs with a cycle among the containers to  *)
(* restart: no diamond is taken for a cycle, and no cycle is sorted.       *)
FailsExactlyOnCycles ==
  phase = "done" => (failed <=> \E x \in marked : Reaches(x, x))

(* Whatever the graph, each container to restart is restarted once, agents *)
(* after the others and servers after agents.                              *)
OrderIsComplete ==
  /\ {order[i] : i \in 1..Len(order)} = marked
  /\ \A i, j \in 1..Len(order) : order[i] = order[j] => i = j

Rank(c) == CASE role[c] = "normal" -> 1 [] role[c] = "agent" -> 2 [] role[c] = "server" -> 3

SelfUpdatesLast ==
  \A x, y \in marked : Rank(x) < Rank(y) => Before(order, x, y)

(* Dependencies first survives that move, except for containers that       *)
(* depend on one that is moved past them; without a sort the discovery     *)
(* order does.                                                             *)
DependenciesFirst ==
  ~failed => \A x, y \in marked : Reaches(x, y) /\ Rank(y) <= Rank(x) => Before(order, y, x)

DiscoveredFirst ==
  failed => \A x, y \in marked : Before(Containers, y, x) /\ Rank(y) <= Rank(x) => Before(order, y, x)

OrderIsRight ==
  phase = "done" => OrderIsComplete /\ SelfUpdatesLast /\ DependenciesFirst /\ DiscoveredFirst

-----------------------------------------------------------------------------
(* The inductive invariants behind them.                                   *)

(* Marking: everything marked has a reason, and what the pass has gone by  *)
(* without adding anything is closed under depending.                      *)
MarkedWithReason ==
  /\ explicit \subseteq marked
  /\ \A x \in marked : x \in explicit \/ \E y \in explicit : Reaches(x, y)

ClosedBelow(n) ==
  \A i \in 1..Len(Containers) :
    i < n /\ deps[Containers[i]] \cap marked # {} => Containers[i] \in marked

NothingSorted ==
  /\ path = <<>> /\ sorted = <<>> /\ visited = {} /\ ~failed
  /\ slices = [r \in LabelRoles |-> <<>>] /\ order = <<>>

MarkInv ==
  /\ MarkedWithReason
  /\ phase = "mark" /\ ~grew => ClosedBelow(next)
  /\ phase # "mark" => ClosedBelow(Len(Containers) + 1)
  /\ phase \in {"mark", "collect"} => NothingSorted
  /\ phase = "mark" => candidates = <<>>

(* The loops that pick: s has what t holds of S before position n, in the  *)
(* order of t.                                                             *)
Picked(s, t, n, S) ==
  /\ \A i \in 1..Len(s) : s[i] \in S /\ \E k \in 1..Len(t) : k < n /\ t[k] = s[i]
  /\ \A k \in 1..Len(t) : k < n /\ t[k] \in S => \E i \in 1..Len(s) : s[i] = t[k]
  /\ \A i, j \in 1..Len(s) : i < j => Before(t, s[i], s[j])

CollectInv ==
  /\ phase = "collect" => Picked(candidates, Containers, next, marked)
  /\ phase \notin {"mark", "collect"} => Picked(candidates, Containers, Len(Containers) + 1, marked)

(* Searching: the output is what has been visited, each container once and *)
(* after its dependencies ...                                              *)
OutputInv ==
  /\ visited = {sorted[i] : i \in 1..Len(sorted)}
  /\ \A i, j \in 1..Len(sorted) : sorted[i] = sorted[j] => i = j
  /\ \A i \in 1..Len(sorted) : \A d \in deps[sorted[i]] \cap marked : Before(sorted, d, sorted[i])

(* ... the path is a chain of dependencies, and a dependency that its      *)
(* container no longer has to look at is visited, or next on the path.     *)
PathInv ==
  /\ \A i \in 1..Len(path) : path[i].name \in marked \ visited
  /\ \A i, j \in 1..Len(path) :
       i < j => path[i].name # path[j].name /\ Reaches(path[i].name, path[j].name)
  /\ \A i \in 1..Len(path) : \A d \in Names :
       /\ d \in path[i].todo => d \in deps[path[i].name] \cap marked
       /\ d \in (deps[path[i].name] \cap marked) \ path[i].todo
            => d \in visited \/ (i < Len(path) /\ path[i + 1].name = d)

ProgressInv ==
  /\ phase = "sort" => \A i \in 1..Len(candidates) :
       i < next => candidates[i] \in visited \/ OnPath(candidates[i])
  /\ phase \in {"order", "done"} /\ ~failed => visited = marked
  /\ failed => \E x \in marked : Reaches(x, x)
  /\ failed => phase \in {"order", "done"}

SortInv == OutputInv /\ PathInv /\ ProgressInv

(* Ordering: each slice has the containers of its role, in the order that  *)
(* was chosen.                                                             *)
OfRole(r) == {c \in marked : role[c] = r}

OrderInv ==
  /\ phase = "sort" => slices = [r \in LabelRoles |-> <<>>]
  /\ phase = "order" => \A r \in LabelRoles : Picked(slices[r], Chosen, next, OfRole(r))
  /\ phase = "done" =>
       /\ \A r \in LabelRoles : Picked(slices[r], Chosen, Len(Chosen) + 1, OfRole(r))
       /\ order = slices["normal"] \o slices["agent"] \o slices["server"]

-----------------------------------------------------------------------------
(* The marking and the search end, on graphs with cycles too.              *)
Terminates == <>(phase = "done")
=============================================================================
