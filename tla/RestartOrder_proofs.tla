------------------------- MODULE RestartOrder_proofs -------------------------
(***************************************************************************)
(* For every set of containers and every dependency relation: the marking  *)
(* computes the closure, the search sorts topologically, it gives up only  *)
(* on cycles, and the order handed on is complete and keeps dependencies   *)
(* first.                                                                  *)
(***************************************************************************)
EXTENDS RestartOrder, TLAPS

USE DEF graph, search

(* The containers and the positions of the list are each other's.          *)
LEMMA ListFacts ==
  /\ Len(Containers) \in Nat
  /\ \A i \in 1..Len(Containers) : Containers[i] \in Names
  /\ \A c \in Names : \E i \in 1..Len(Containers) : Containers[i] = c
BY ContainersAssumption DEF Names

(* An index of a sequence is one of its domain.                            *)
LEMMA AppendFacts ==
  ASSUME NEW S, NEW s \in Seq(S), NEW e \in S
  PROVE  /\ Append(s, e) \in Seq(S)
         /\ Len(Append(s, e)) = Len(s) + 1 /\ Len(s) \in Nat
         /\ \A i \in 1..Len(s) : Append(s, e)[i] = s[i] /\ s[i] \in S
         /\ Append(s, e)[Len(s) + 1] = e
OBVIOUS

LEMMA PopFacts ==
  ASSUME NEW S, NEW s \in Seq(S), s # <<>>
  PROVE  /\ SubSeq(s, 1, Len(s) - 1) \in Seq(S)
         /\ Len(SubSeq(s, 1, Len(s) - 1)) = Len(s) - 1 /\ Len(s) \in Nat \ {0}
         /\ \A i \in 1..(Len(s) - 1) : SubSeq(s, 1, Len(s) - 1)[i] = s[i]
         /\ s[Len(s)] \in S
<1>1. Len(s) \in Nat \ {0} /\ s[Len(s)] \in S /\ s \in [1..Len(s) -> S]
  OBVIOUS
<1>2. SubSeq(s, 1, Len(s) - 1) = [i \in 1..(Len(s) - 1) |-> s[i]]
  BY <1>1
<1>3. [i \in 1..(Len(s) - 1) |-> s[i]] \in Seq(S)
  BY <1>1
<1>4. Len(SubSeq(s, 1, Len(s) - 1)) = Len(s) - 1
  BY <1>1
<1> QED BY <1>1, <1>2, <1>3, <1>4

LEMMA ReplaceLastFacts ==
  ASSUME NEW S, NEW s \in Seq(S), s # <<>>, NEW e \in S
  PROVE  LET r == [s EXCEPT ![Len(s)] = e] IN
         /\ r \in Seq(S) /\ Len(r) = Len(s)
         /\ \A i \in 1..(Len(s) - 1) : r[i] = s[i]
         /\ r[Len(s)] = e
OBVIOUS

-----------------------------------------------------------------------------
(* The stack of visits, after a dependency was taken from its top.         *)
LEMMA TookFacts ==
  ASSUME path \in Seq(Frames), path # <<>>, NEW d
  PROVE  /\ Took(d) \in Seq(Frames) /\ Len(Took(d)) = Len(path) /\ Len(path) \in Nat \ {0}
         /\ \A i \in 1..Len(path) : path[i] \in Frames /\ Took(d)[i].name = path[i].name
         /\ \A i \in 1..(Len(path) - 1) : Took(d)[i] = path[i]
         /\ Took(d)[Len(path)].todo = path[Len(path)].todo \ {d}
<1>1. Len(path) \in Nat \ {0} /\ \A i \in 1..Len(path) : path[i] \in Frames
  OBVIOUS
<1>2. [path[Len(path)] EXCEPT !.todo = @ \ {d}] \in Frames
  BY <1>1 DEF Frames
<1>3. Took(d) = [path EXCEPT ![Len(path)] = [path[Len(path)] EXCEPT !.todo = @ \ {d}]]
  BY DEF Took
<1>4. Took(d) \in Seq(Frames) /\ Len(Took(d)) = Len(path)
  BY <1>1, <1>2, <1>3, ReplaceLastFacts
<1>5. /\ \A i \in 1..(Len(path) - 1) : Took(d)[i] = path[i]
      /\ Took(d)[Len(path)] = [path[Len(path)] EXCEPT !.todo = @ \ {d}]
  <2> DEFINE top == [path[Len(path)] EXCEPT !.todo = @ \ {d}]
  <2>1. top \in Frames /\ Took(d) = [path EXCEPT ![Len(path)] = top]
    BY <1>2, <1>3
  <2> HIDE DEF top
  <2>2. /\ \A i \in 1..(Len(path) - 1) : Took(d)[i] = path[i]
        /\ Took(d)[Len(path)] = top
    BY <2>1, ReplaceLastFacts
  <2> QED BY <2>2 DEF top
<1>6. /\ Took(d)[Len(path)].name = path[Len(path)].name
      /\ Took(d)[Len(path)].todo = path[Len(path)].todo \ {d}
  <2>1. path[Len(path)] \in [name : Names, todo : SUBSET Names]
    BY <1>1 DEF Frames
  <2>2. /\ [path[Len(path)] EXCEPT !.todo = @ \ {d}].name = path[Len(path)].name
        /\ [path[Len(path)] EXCEPT !.todo = @ \ {d}].todo = path[Len(path)].todo \ {d}
    BY <2>1
  <2> QED BY <1>5, <2>2
<1>7. \A i \in 1..Len(path) : Took(d)[i].name = path[i].name
  <2>1. \A i \in 1..Len(path) : i \in 1..(Len(path) - 1) \/ i = Len(path)
    BY <1>1
  <2> QED BY <1>5, <1>6, <2>1
<1> QED BY <1>1, <1>4, <1>5, <1>6, <1>7

(* Every variable keeps its type.                                          *)
LEMMA TypeInductive ==
  ASSUME TypeOK, MarkInv, PathInv, Next PROVE TypeOK'
<1> USE DEF TypeOK
<1>a. /\ LabelRoles = {"normal", "agent", "server"}
      /\ \A c \in Names : role[c] \in LabelRoles
  BY RolesAssumption DEF LabelRoles
<1>b. \A S : <<>> \in Seq(S)
  OBVIOUS
<1>1. CASE Consider
  <2>1. next \in 1..Len(Containers) /\ Containers[next] \in Names
    BY <1>1, ListFacts DEF Consider
  <2>2. marked' \in SUBSET Names /\ grew' \in BOOLEAN
    BY <1>1, <2>1 DEF Consider
  <2>3. next' \in 1..(Len(Containers) + 1)
    BY <1>1, <2>1, ListFacts DEF Consider
  <2>4. /\ sorted' = <<>> /\ candidates' = <<>> /\ order' = <<>>
        /\ slices' = [r \in LabelRoles |-> <<>>]
    BY <1>1 DEF Consider, MarkInv, NothingSorted
  <2>5. /\ deps' = deps /\ role' = role /\ explicit' = explicit /\ visited' = visited
        /\ failed' = failed /\ phase' = phase /\ path' = path
    BY <1>1 DEF Consider
  <2>6. slices' \in [LabelRoles -> Seq(marked')]
    BY <1>b, <2>4
  <2>7. candidates' \in Seq(marked') /\ sorted' \in Seq(marked') /\ order' \in Seq(marked')
    BY <1>b, <2>4
  <2> QED BY <2>1, <2>2, <2>3, <2>5, <2>6, <2>7, ListFacts
<1>2. CASE EndPass \/ EndCollect
  <2>1. next' = 1 /\ 1 \in 1..(Len(Containers) + 1)
    BY <1>2, ListFacts DEF EndPass, EndCollect
  <2>2. phase' \in {"mark", "collect", "sort"} /\ grew' \in BOOLEAN
    BY <1>2 DEF EndPass, EndCollect
  <2>3. UNCHANGED <<graph, marked, candidates, search, slices, order>>
    BY <1>2 DEF EndPass, EndCollect
  <2> QED BY <2>1, <2>2, <2>3, ListFacts
<1>3. CASE NextRoot
  <2>1. candidates[next] \in marked /\ candidates[next] \in Names
    BY <1>3 DEF NextRoot
  <2>2. Frame(candidates[next]) \in Frames
    BY <2>1 DEF Frame, Frames
  <2>3. path' \in Seq(Frames)
    BY <1>3, <2>2 DEF NextRoot
  <2>4. next' \in Nat \ {0}
    BY <1>3 DEF NextRoot
  <2> QED BY <1>3, <2>3, <2>4 DEF NextRoot
<1>4. CASE Visit
  <2>1. PICK d \in Top.todo :
          IF OnPath(d)
          THEN phase' = "order" /\ next' = 1 /\ failed' = TRUE /\ UNCHANGED path
          ELSE /\ path' = IF d \in visited THEN Took(d) ELSE Append(Took(d), Frame(d))
               /\ UNCHANGED <<phase, next, failed>>
    BY <1>4 DEF Visit
  <2>2. path # <<>> /\ Len(path) \in Nat \ {0} /\ Top \in Frames
    BY <1>4 DEF Visit, Top
  <2>3. d \in Names
    BY <2>2 DEF Frames
  <2>4. Took(d) \in Seq(Frames)
    BY <2>2, TookFacts
  <2>5. Append(Took(d), Frame(d)) \in Seq(Frames)
    <3>1. Frame(d) \in Frames
      BY <2>3 DEF Frame, Frames
    <3> QED BY <2>4, <3>1
  <2>a. phase = "sort"
    BY <1>4 DEF Visit
  <2>b. path' \in Seq(Frames)
    BY <2>1, <2>4, <2>5
  <2>6. phase' \in {"sort", "order"} /\ next' \in Nat \ {0} /\ failed' \in BOOLEAN
    <3>1. CASE OnPath(d)
      BY <2>1, <3>1
    <3>2. CASE ~OnPath(d)
      BY <2>1, <2>a, <3>2
    <3> QED BY <3>1, <3>2
  <2>7. UNCHANGED <<graph, marked, grew, candidates, visited, sorted, slices, order>>
    BY <1>4 DEF Visit
  <2> QED BY <2>b, <2>6, <2>7
<1>5. CASE Leave
  <2>1. path # <<>>
    BY <1>5 DEF Leave
  <2>2. path' \in Seq(Frames) /\ Top \in Frames
    BY <1>5, <2>1, PopFacts DEF Leave, Top
  <2>3. Top.name \in marked
    BY <2>1 DEF PathInv, Top
  <2> QED BY <1>5, <2>2, <2>3 DEF Leave, Frames
<1>6. CASE EndSort
  BY <1>6 DEF EndSort
<1>7. CASE Collect
  <2>1. candidates' \in Seq(marked) /\ next' \in 1..(Len(Containers) + 1)
    BY <1>7, ListFacts DEF Collect
  <2> QED BY <1>7, <2>1 DEF Collect
<1>8. CASE Sift
  <2> DEFINE c == Chosen[next]
  <2>1. c \in marked /\ role[c] \in LabelRoles
    BY <1>8, <1>a DEF Sift, Chosen
  <2>2. Append(slices[role[c]], c) \in Seq(marked)
    BY <2>1
  <2>3. slices' \in [LabelRoles -> Seq(marked)] /\ next' \in Nat \ {0}
    BY <1>8, <2>1, <2>2 DEF Sift
  <2> QED BY <1>8, <2>3 DEF Sift
<1>9. CASE EndOrder
  <2>1. slices["normal"] \in Seq(marked) /\ slices["agent"] \in Seq(marked) /\ slices["server"] \in Seq(marked)
    BY <1>a
  <2>2. order' \in Seq(marked)
    BY <1>9, <2>1 DEF EndOrder
  <2> QED BY <1>9, <2>2 DEF EndOrder
<1> QED BY <1>1, <1>2, <1>3, <1>4, <1>5, <1>6, <1>7, <1>8, <1>9 DEF Next

-----------------------------------------------------------------------------
(* Depending, directly and through others.                                 *)
LEMMA ReachesFacts ==
  ASSUME deps \in [Names -> SUBSET Names], NEW x \in Names
  PROVE  /\ \A d \in deps[x] : Reaches(x, d)
         /\ \A d \in deps[x] : \A y : Reaches(d, y) => Reaches(x, y)
         /\ \A y \in Names : Reaches(x, y) => \A d \in deps[y] : Reaches(x, d)
BY DEF Reaches

(* No step changes what the containers depend on.                          *)
LEMMA GraphStays ==
  ASSUME [Next]_vars
  PROVE  deps' = deps /\ explicit' = explicit /\ \A x, y : Reaches(x, y)' <=> Reaches(x, y)
<1>1. deps' = deps /\ explicit' = explicit
  BY DEF Next, vars, Consider, EndPass, Collect, EndCollect, NextRoot, Visit, Leave, EndSort,
         Sift, EndOrder
<1> QED BY <1>1 DEF Reaches

(* The steps of the search leave the marking alone.                        *)
LEMMA MarkingStays ==
  ASSUME \/ Collect \/ EndCollect \/ NextRoot \/ Visit \/ Leave \/ EndSort \/ Sift \/ EndOrder
         \/ UNCHANGED vars
  PROVE  marked' = marked /\ grew' = grew /\ deps' = deps /\ role' = role
BY DEF vars, Collect, EndCollect, NextRoot, Visit, Leave, EndSort, Sift, EndOrder

LEMMA MarkInductive ==
  ASSUME TypeOK, MarkInv, [Next]_vars
  PROVE  MarkInv'
<1>1. CASE Consider
  <2> DEFINE c == Containers[next]
  <2>1. next \in 1..Len(Containers) /\ c \in Names /\ next' = next + 1
        /\ phase = "mark" /\ phase' = "mark"
    BY <1>1, ListFacts DEF Consider, TypeOK
  <2>2. NothingSorted' /\ candidates' = <<>>
    BY <1>1 DEF Consider, MarkInv, NothingSorted
  <2>3. CASE c \notin marked /\ deps[c] \cap marked # {}
    <3>1. marked' = marked \cup {c} /\ grew' = TRUE
      BY <1>1, <2>3 DEF Consider
    <3>2. PICK d \in deps[c] : d \in marked
      BY <2>3
    <3>3. \E y \in explicit : Reaches(c, y)
      <4>1. CASE d \in explicit
        BY <2>1, <3>2, <4>1, ReachesFacts DEF TypeOK
      <4>2. CASE d \notin explicit
        <5>1. PICK y \in explicit : Reaches(d, y)
          BY <3>2, <4>2 DEF MarkInv, MarkedWithReason
        <5>2. Reaches(c, y)
          BY <2>1, <3>2, <5>1, ReachesFacts DEF TypeOK
        <5> QED BY <5>2
      <4> QED BY <4>1, <4>2
    <3>4. MarkedWithReason'
      BY <3>1, <3>3, GraphStays DEF MarkInv, MarkedWithReason
    <3> QED BY <2>1, <2>2, <3>1, <3>4 DEF MarkInv
  <2>4. CASE c \in marked \/ deps[c] \cap marked = {}
    <3>1. marked' = marked /\ grew' = grew
      BY <1>1, <2>4 DEF Consider
    <3>2. MarkedWithReason'
      BY <3>1, GraphStays DEF MarkInv, MarkedWithReason
    <3>3. ~grew' => ClosedBelow(next)'
      <4>1. ASSUME ~grew PROVE ClosedBelow(next + 1)
        BY <2>1, <2>4, <4>1 DEF MarkInv, ClosedBelow
      <4> QED BY <2>1, <3>1, <4>1, GraphStays DEF ClosedBelow
    <3> QED BY <2>1, <2>2, <3>2, <3>3 DEF MarkInv
  <2> QED BY <2>3, <2>4
<1>2. CASE EndPass
  <2>1. /\ marked' = marked /\ grew' = FALSE /\ next' = 1 /\ phase = "mark"
        /\ phase' = IF grew THEN "mark" ELSE "collect"
        /\ candidates' = <<>> /\ NothingSorted'
    BY <1>2 DEF EndPass, MarkInv, NothingSorted
  <2>2. next = Len(Containers) + 1
    BY <1>2, ListFacts DEF EndPass, TypeOK
  <2>3. MarkedWithReason'
    BY <2>1, GraphStays DEF MarkInv, MarkedWithReason
  <2>4. ClosedBelow(next)'
    BY <2>1 DEF ClosedBelow
  <2>5. ~grew => ClosedBelow(Len(Containers) + 1)'
    BY <2>1, <2>2, GraphStays DEF MarkInv, ClosedBelow
  <2> QED BY <2>1, <2>3, <2>4, <2>5 DEF MarkInv
<1>3. CASE \/ Collect \/ EndCollect \/ NextRoot \/ Visit \/ Leave \/ EndSort \/ Sift \/ EndOrder
  <2>1. phase # "mark" /\ phase' # "mark"
    BY <1>3 DEF Collect, EndCollect, NextRoot, Visit, Leave, EndSort, Sift, EndOrder
  <2>2. MarkedWithReason'
    BY <1>3, MarkingStays, GraphStays DEF MarkInv, MarkedWithReason
  <2>3. ClosedBelow(Len(Containers) + 1)'
    BY <1>3, <2>1, MarkingStays DEF MarkInv, ClosedBelow
  <2>4. phase' \in {"mark", "collect"} => NothingSorted'
    BY <1>3 DEF Collect, EndCollect, NextRoot, Visit, Leave, EndSort, Sift, EndOrder, MarkInv, NothingSorted
  <2> QED BY <2>1, <2>2, <2>3, <2>4 DEF MarkInv
<1>4. CASE UNCHANGED vars
  <2>1. /\ marked' = marked /\ grew' = grew /\ deps' = deps /\ next' = next /\ phase' = phase
        /\ candidates' = candidates /\ (NothingSorted => NothingSorted')
    BY <1>4 DEF vars, NothingSorted
  <2>2. MarkedWithReason'
    BY <2>1, GraphStays DEF MarkInv, MarkedWithReason
  <2> QED BY <2>1, <2>2 DEF MarkInv, ClosedBelow
<1> QED BY <1>1, <1>2, <1>3, <1>4 DEF Next

-----------------------------------------------------------------------------
(* Entering and leaving visits keeps the stack a chain of dependencies.    *)
LEMMA EnterKeepsPath ==
  ASSUME TypeOK, PathInv, Visit, path # <<>>, NEW d \in Top.todo, ~OnPath(d),
         path' = IF d \in visited THEN Took(d) ELSE Append(Took(d), Frame(d))
  PROVE  PathInv'
<1> DEFINE rest == Took(d)
           n == Len(path)
<1>1. /\ path \in Seq(Frames) /\ n \in Nat \ {0}
      /\ rest \in Seq(Frames) /\ Len(rest) = n
      /\ \A i \in 1..n : rest[i].name = path[i].name /\ path[i] \in Frames
      /\ \A i \in 1..(n - 1) : rest[i] = path[i]
      /\ rest[n].todo = path[n].todo \ {d}
  <2>1. path \in Seq(Frames)
    BY DEF TypeOK
  <2> QED BY <2>1, TookFacts
<1>2. marked' = marked /\ deps' = deps /\ visited' = visited
  BY DEF Visit
<1>3. \A x, y : Reaches(x, y)' <=> Reaches(x, y)
  BY <1>2 DEF Reaches
<1>4. d \in path[n].todo /\ d \in marked /\ d \in deps[path[n].name] /\ d \in Names
  BY <1>1 DEF Top, PathInv, Frames
<1>0. n \in Nat \ {0}
  BY <1>1
<1> HIDE DEF rest
<1>5. CASE d \in visited
  <2>1. path' = rest
    BY <1>5 DEF rest
  <2>2. \A i \in 1..n : rest[i].name \in marked \ visited
    BY <1>1 DEF PathInv
  <2>3. \A i, j \in 1..n :
          i < j => rest[i].name # rest[j].name /\ Reaches(rest[i].name, rest[j].name)
    BY <1>1 DEF PathInv
  <2>4. ASSUME NEW i \in 1..n, NEW e \in Names
        PROVE  /\ e \in rest[i].todo => e \in deps[rest[i].name] \cap marked
               /\ e \in (deps[rest[i].name] \cap marked) \ rest[i].todo
                    => e \in visited \/ (i < n /\ rest[i + 1].name = e)
    <3>1. CASE i < n
      BY <1>1, <3>1 DEF PathInv
    <3>2. CASE i = n
      BY <1>1, <1>4, <1>5, <3>2 DEF PathInv
    <3> QED BY <1>0, <3>1, <3>2
  <2>5. Len(path') = n
    BY <1>1, <2>1
  <2> QED BY <1>2, <1>3, <2>1, <2>2, <2>3, <2>4, <2>5 DEF PathInv
<1>6. CASE d \notin visited
  <2>1. Frame(d) \in Frames /\ Frame(d).name = d /\ Frame(d).todo = deps[d] \cap marked
    BY <1>4 DEF Frame, Frames, TypeOK
  <2>2. path' = Append(rest, Frame(d))
    BY <1>6 DEF rest
  <2>3. /\ Len(path') = n + 1 /\ path'[n + 1] = Frame(d)
        /\ \A i \in 1..n : path'[i] = rest[i]
    <3>1. /\ Len(Append(rest, Frame(d))) = Len(rest) + 1
          /\ \A i \in 1..Len(rest) : Append(rest, Frame(d))[i] = rest[i]
          /\ Append(rest, Frame(d))[Len(rest) + 1] = Frame(d)
      BY <1>1, <2>1, AppendFacts
    <3> QED BY <1>1, <2>2, <3>1
  <2>4. \A i \in 1..n : path'[i].name = path[i].name /\ path[i].name # d
                        /\ path[i].name \in Names
    BY <1>1, <2>3 DEF OnPath, Frames
  <2>5. \A i \in 1..n : Reaches(path[i].name, d)
    <3>1. ASSUME NEW i \in 1..n PROVE Reaches(path[i].name, d)
      <4>1. CASE i = n
        BY <1>4, <2>4, <4>1, ReachesFacts DEF TypeOK
      <4>2. CASE i < n
        <5>1. Reaches(path[i].name, path[n].name)
          BY <1>1, <4>2 DEF PathInv
        <5> QED BY <1>1, <1>4, <2>4, <5>1, ReachesFacts DEF TypeOK
      <4> QED BY <1>0, <4>1, <4>2
    <3> QED BY <3>1
  <2>6. \A i \in 1..(n + 1) : path'[i].name \in marked \ visited
    BY <1>1, <1>4, <1>6, <2>1, <2>3, <2>4 DEF PathInv
  <2>7. ASSUME NEW i \in 1..(n + 1), NEW j \in 1..(n + 1), i < j
        PROVE  path'[i].name # path'[j].name /\ Reaches(path'[i].name, path'[j].name)
    <3>1. CASE j = n + 1
      BY <1>1, <2>1, <2>3, <2>4, <2>5, <2>7, <3>1
    <3>2. CASE j < n + 1
      <4>1. i \in 1..n /\ j \in 1..n
        BY <1>0, <2>7, <3>2
      <4>2. path[i].name # path[j].name /\ Reaches(path[i].name, path[j].name)
        BY <2>7, <4>1 DEF PathInv
      <4> QED BY <2>4, <4>1, <4>2
    <3>4. j < n + 1 \/ j = n + 1
      <4> HIDE DEF n
      <4> QED BY <1>0
    <3> QED BY <3>4, <3>1, <3>2
  <2>8. ASSUME NEW i \in 1..(n + 1), NEW e \in Names
        PROVE  /\ e \in path'[i].todo => e \in deps[path'[i].name] \cap marked
               /\ e \in (deps[path'[i].name] \cap marked) \ path'[i].todo
                    => e \in visited \/ (i < n + 1 /\ path'[i + 1].name = e)
    <3>1. CASE i < n
      BY <1>1, <2>3, <3>1 DEF PathInv
    <3>2. CASE i = n
      BY <1>1, <1>4, <2>1, <2>3, <3>2 DEF PathInv
    <3>3. CASE i = n + 1
      BY <1>1, <2>1, <2>3, <3>3
    <3>4. i < n \/ i = n \/ i = n + 1
      <4> HIDE DEF n
      <4> QED BY <1>0
    <3> QED BY <3>4, <3>1, <3>2, <3>3
  <2> QED BY <1>1, <1>2, <1>3, <2>3, <2>6, <2>7, <2>8 DEF PathInv
<1> QED BY <1>5, <1>6

(* When a visit returns, everything its container depends on is in the     *)
(* output.                                                                 *)
LEMMA LeaveKeepsSorting ==
  ASSUME TypeOK, OutputInv, PathInv, Leave
  PROVE  OutputInv' /\ PathInv'
<1> DEFINE n == Len(path)
           m == Len(sorted)
           c == Top.name
<1>1. /\ path # <<>> /\ Top.todo = {} /\ visited' = visited \cup {c}
      /\ sorted' = Append(sorted, c) /\ path' = SubSeq(path, 1, n - 1)
      /\ marked' = marked /\ deps' = deps
  BY DEF Leave
<1>2. /\ n \in Nat \ {0} /\ path[n] \in Frames /\ Len(path') = n - 1
      /\ \A i \in 1..(n - 1) : path'[i] = path[i]
  BY <1>1, PopFacts DEF TypeOK
<1>3. c = path[n].name /\ path[n].todo = {} /\ c \in marked /\ c \notin visited /\ c \in Names
  BY <1>1, <1>2 DEF Top, PathInv, Frames
<1>4. \A d \in deps[c] \cap marked : d \in visited
  BY <1>2, <1>3 DEF PathInv, TypeOK
<1>5. /\ m \in Nat /\ Len(sorted') = m + 1 /\ sorted'[m + 1] = c
      /\ \A i \in 1..m : sorted'[i] = sorted[i]
  BY <1>1, <1>3, AppendFacts DEF TypeOK
<1>6. \A x, y : Reaches(x, y)' <=> Reaches(x, y)
  BY <1>1 DEF Reaches
<1>7. visited' = {sorted'[i] : i \in 1..(m + 1)}
  BY <1>1, <1>5 DEF OutputInv
<1>8. \A i, j \in 1..(m + 1) : sorted'[i] = sorted'[j] => i = j
  BY <1>3, <1>5 DEF OutputInv
<1>9. ASSUME NEW i \in 1..(m + 1), NEW d \in deps[sorted'[i]] \cap marked
      PROVE  \E k, l \in 1..(m + 1) : k < l /\ sorted'[k] = d /\ sorted'[l] = sorted'[i]
  <2>1. CASE i = m + 1
    BY <1>4, <1>5, <1>9, <2>1 DEF OutputInv
  <2>2. CASE i \in 1..m
    BY <1>5, <1>9, <2>2 DEF OutputInv, Before
  <2> QED BY <1>5, <2>1, <2>2
<1>10. OutputInv'
  BY <1>1, <1>5, <1>7, <1>8, <1>9 DEF OutputInv, Before
<1>11. \A i \in 1..(n - 1) : path'[i].name \in marked \ visited'
  BY <1>1, <1>2, <1>3 DEF PathInv
<1>12. \A i, j \in 1..(n - 1) :
         i < j => path'[i].name # path'[j].name /\ Reaches(path'[i].name, path'[j].name)
  <2>1. \A i, j \in 1..n :
          i < j => path[i].name # path[j].name /\ Reaches(path[i].name, path[j].name)
    BY DEF PathInv
  <2>2. \A i \in 1..(n - 1) : i \in 1..n
    BY <1>2
  <2> QED BY <1>2, <2>1, <2>2
<1>13. ASSUME NEW i \in 1..(n - 1), NEW e \in Names
       PROVE  /\ e \in path'[i].todo => e \in deps[path'[i].name] \cap marked
              /\ e \in (deps[path'[i].name] \cap marked) \ path'[i].todo
                   => e \in visited' \/ (i < n - 1 /\ path'[i + 1].name = e)
  <2>1. CASE i < n - 1
    <3>1. i \in 1..n /\ i < n /\ path'[i] = path[i] /\ path'[i + 1] = path[i + 1]
      BY <1>2, <2>1
    <3>2. /\ e \in path[i].todo => e \in deps[path[i].name] \cap marked
          /\ e \in (deps[path[i].name] \cap marked) \ path[i].todo
               => e \in visited \/ (i < n /\ path[i + 1].name = e)
      BY <3>1 DEF PathInv
    <3> QED BY <1>1, <2>1, <3>1, <3>2
  <2>2. CASE i = n - 1
    BY <1>1, <1>2, <1>3, <2>2 DEF PathInv
  <2> QED BY <1>2, <2>1, <2>2
<1>14. PathInv'
  <2>1. Len(path') = n - 1 /\ marked' = marked /\ deps' = deps
    BY <1>1, <1>2
  <2> HIDE DEF n, c
  <2> QED BY <2>1, <1>6, <1>11, <1>12, <1>13 DEF PathInv
<1> QED BY <1>10, <1>14

LEMMA SortInductive ==
  ASSUME TypeOK, MarkInv, CollectInv, SortInv, [Next]_vars
  PROVE  SortInv'
<1> USE DEF SortInv
<1>1. CASE Consider \/ EndPass \/ Collect \/ EndCollect
  <2>1. /\ path' = <<>> /\ sorted' = <<>> /\ visited' = {} /\ ~failed'
        /\ phase' \in {"mark", "collect"} \/ (phase' = "sort" /\ next' = 1)
    BY <1>1 DEF Consider, EndPass, Collect, EndCollect, MarkInv, NothingSorted
  <2> QED BY <2>1 DEF OutputInv, PathInv, ProgressInv
<1>3. CASE NextRoot
  <2> DEFINE c == candidates[next]
  <2>1. /\ phase = "sort" /\ phase' = "sort" /\ path = <<>> /\ next' = next + 1
        /\ path' = IF c \in visited THEN <<>> ELSE <<Frame(c)>>
        /\ UNCHANGED <<deps, marked, visited, sorted, failed, candidates>>
    BY <1>3 DEF NextRoot
  <2>2. next \in Nat /\ c \in marked /\ Len(candidates) \in Nat
    BY <1>3 DEF NextRoot, TypeOK
  <2>3. OutputInv'
    BY <2>1 DEF OutputInv, Before
  <2>4. CASE c \notin visited
    <3>1. Len(path') = 1 /\ path'[1] = Frame(c)
      BY <2>1, <2>4
    <3>2. Frame(c).name = c /\ Frame(c).todo = deps[c] \cap marked
      BY DEF Frame
    <3>3. PathInv'
      BY <2>1, <2>2, <2>4, <3>1, <3>2 DEF PathInv
    <3>4. ASSUME NEW i \in 1..Len(candidates), i < next + 1
          PROVE  candidates[i] \in visited \/ OnPath(candidates[i])'
      <4>1. CASE i < next
        BY <2>1, <3>4, <4>1 DEF ProgressInv, OnPath
      <4>2. CASE i = next
        <5>1. 1 \in 1..Len(path') /\ path'[1].name = c
          BY <3>1, <3>2
        <5>2. OnPath(candidates[i])'
          BY <2>1, <4>2, <5>1 DEF OnPath
        <5> QED BY <5>2
      <4>3. i < next \/ i = next
        BY <2>2, <3>4
      <4> QED BY <4>1, <4>2, <4>3
    <3>5. ProgressInv'
      BY <2>1, <3>4 DEF ProgressInv
    <3> QED BY <2>3, <3>3, <3>5
  <2>5. CASE c \in visited
    <3>1. path' = <<>>
      BY <2>1, <2>5
    <3>2. PathInv'
      BY <3>1 DEF PathInv
    <3>3. \A i \in 1..Len(candidates) : i < next + 1 => candidates[i] \in visited
      <4>1. \A i \in 1..Len(candidates) : i < next => candidates[i] \in visited
        BY <2>1 DEF ProgressInv, OnPath
      <4> QED BY <2>2, <2>5, <4>1
    <3>4. ProgressInv'
      BY <2>1, <3>3 DEF ProgressInv
    <3> QED BY <2>3, <3>2, <3>4
  <2> QED BY <2>4, <2>5
<1>4. CASE Visit
  <2>1. PICK d \in Top.todo :
          IF OnPath(d)
          THEN phase' = "order" /\ failed' = TRUE /\ path' = path
          ELSE /\ path' = IF d \in visited THEN Took(d) ELSE Append(Took(d), Frame(d))
               /\ phase' = phase /\ failed' = failed /\ next' = next
    BY <1>4 DEF Visit
  <2>2. /\ phase = "sort" /\ path # <<>>
        /\ UNCHANGED <<deps, marked, visited, sorted, candidates>>
    BY <1>4 DEF Visit
  <2>3. OutputInv'
    BY <2>2 DEF OutputInv, Before
  <2>4. path \in Seq(Frames) /\ Len(path) \in Nat \ {0} /\ path[Len(path)] \in Frames
    BY <2>2 DEF TypeOK
  <2>5. \A x, y : Reaches(x, y)' <=> Reaches(x, y)
    BY GraphStays
  <2>6. CASE OnPath(d)
    <3>1. PathInv'
      BY <2>1, <2>2, <2>5, <2>6 DEF PathInv
    <3>2. PICK i \in 1..Len(path) : path[i].name = d
      BY <2>6 DEF OnPath
    <3>3. d \in deps[path[Len(path)].name] /\ d \in marked /\ path[Len(path)].name \in Names
      BY <2>4 DEF PathInv, Top, Frames
    <3>4. Reaches(path[Len(path)].name, d)
      BY <3>3, ReachesFacts DEF TypeOK
    <3>5. Reaches(d, d)
      <4>1. CASE i = Len(path)
        BY <3>2, <3>4, <4>1
      <4>2. CASE i < Len(path)
        <5>1. Reaches(d, path[Len(path)].name)
          BY <2>4, <3>2, <4>2 DEF PathInv
        <5> QED BY <3>3, <5>1, ReachesFacts DEF TypeOK
      <4> QED BY <2>4, <4>1, <4>2
    <3>6. ProgressInv'
      BY <2>1, <2>2, <2>5, <2>6, <3>3, <3>5 DEF ProgressInv
    <3> QED BY <2>3, <3>1, <3>6
  <2>7. CASE ~OnPath(d)
    <3>1. path' = IF d \in visited THEN Took(d) ELSE Append(Took(d), Frame(d))
      BY <2>1, <2>7
    <3>2. PathInv'
      BY <1>4, <2>2, <2>7, <3>1, EnterKeepsPath
    <3>3. \A x : OnPath(x) => OnPath(x)'
      <4>1. /\ Took(d) \in Seq(Frames) /\ Len(Took(d)) = Len(path)
            /\ \A k \in 1..Len(path) : Took(d)[k].name = path[k].name
        BY <2>2, <2>4, TookFacts
      <4>2. CASE d \in visited
        BY <3>1, <4>1, <4>2 DEF OnPath
      <4>3. CASE d \notin visited
        <5>1. d \in Names
          BY <2>4 DEF Top, Frames
        <5>2. Frame(d) \in Frames
          BY <5>1 DEF Frame, Frames, TypeOK
        <5>3. /\ Len(path') = Len(path) + 1
              /\ \A k \in 1..Len(path) : path'[k] = Took(d)[k]
          BY <3>1, <4>1, <4>3, <5>2, AppendFacts
        <5>4. \A k \in 1..Len(path) : k \in 1..Len(path') /\ path'[k].name = path[k].name
          BY <2>4, <4>1, <5>3
        <5> QED BY <5>4 DEF OnPath
      <4> QED BY <4>2, <4>3
    <3>4. phase' = phase /\ failed' = failed /\ next' = next
      BY <2>1, <2>7
    <3>5. ProgressInv'
      BY <2>2, <2>5, <3>3, <3>4 DEF ProgressInv
    <3> QED BY <2>3, <3>2, <3>5
  <2> QED BY <2>6, <2>7
<1>5. CASE Leave
  <2>1. OutputInv' /\ PathInv'
    BY <1>5, LeaveKeepsSorting
  <2>2. /\ phase = "sort" /\ phase' = phase /\ failed' = failed /\ next' = next
        /\ visited' = visited \cup {Top.name} /\ marked' = marked
        /\ path # <<>> /\ path' = SubSeq(path, 1, Len(path) - 1) /\ candidates' = candidates
    BY <1>5 DEF Leave
  <2>3. \A x : OnPath(x) => x \in visited' \/ OnPath(x)'
    <3>1. /\ Len(path) \in Nat \ {0} /\ Len(path') = Len(path) - 1
          /\ \A i \in 1..(Len(path) - 1) : path'[i] = path[i]
      BY <2>2, PopFacts DEF TypeOK
    <3>2. \A i \in 1..Len(path) : i \in 1..Len(path') \/ i = Len(path)
      BY <3>1
    <3> QED BY <2>2, <3>1, <3>2 DEF OnPath, Top
  <2>4. \A x, y : Reaches(x, y)' <=> Reaches(x, y)
    BY GraphStays
  <2>5. ProgressInv'
    BY <2>2, <2>3, <2>4 DEF ProgressInv
  <2> QED BY <2>1, <2>5
<1>6. CASE EndSort
  <2>1. /\ phase = "sort" /\ path = <<>> /\ next > Len(candidates) /\ phase' = "order"
        /\ UNCHANGED <<deps, marked, path, visited, sorted, failed>>
    BY <1>6 DEF EndSort
  <2>2. OutputInv' /\ PathInv'
    BY <2>1 DEF OutputInv, PathInv, Before
  <2>3. visited = marked
    <3>1. \A i \in 1..Len(candidates) : candidates[i] \in visited
      BY <2>1 DEF ProgressInv, OnPath, TypeOK
    <3>2. marked \subseteq visited
      <4> SUFFICES ASSUME NEW c \in marked PROVE c \in visited
        OBVIOUS
      <4>1. PICK k \in 1..Len(Containers) : Containers[k] = c
        BY ListFacts DEF TypeOK
      <4>2. PICK i \in 1..Len(candidates) : candidates[i] = c
        BY <2>1, <4>1, ListFacts DEF CollectInv, Picked
      <4> QED BY <3>1, <4>2
    <3>3. visited \subseteq marked
      BY DEF OutputInv, TypeOK
    <3> QED BY <3>2, <3>3
  <2>4. ProgressInv'
    BY <2>1, <2>3 DEF ProgressInv
  <2> QED BY <2>2, <2>4
<1>7. CASE Sift \/ EndOrder
  <2>1. /\ UNCHANGED <<deps, marked, path, visited, sorted, failed>>
        /\ phase \in {"order", "done"} /\ phase' \in {"order", "done"}
    BY <1>7 DEF Sift, EndOrder
  <2>2. \A x, y : Reaches(x, y)' <=> Reaches(x, y)
    BY GraphStays
  <2> QED BY <2>1, <2>2 DEF OutputInv, PathInv, ProgressInv, Before
<1>8. CASE UNCHANGED vars
  <2>1. UNCHANGED <<deps, marked, next, path, visited, sorted, failed, phase, candidates>>
    BY <1>8 DEF vars
  <2>2. \A x, y : Reaches(x, y)' <=> Reaches(x, y)
    BY GraphStays
  <2> QED BY <2>1, <2>2 DEF OutputInv, PathInv, ProgressInv, OnPath, Before
<1> QED BY <1>1, <1>3, <1>4, <1>5, <1>6, <1>7, <1>8 DEF Next

-----------------------------------------------------------------------------
(* The loops that pick from a list go one position further.                *)
LEMMA PickNext ==
  ASSUME NEW T, NEW t \in Seq(T), NEW s \in Seq(T), NEW n \in 1..Len(t), NEW S, Picked(s, t, n, S)
  PROVE  /\ t[n] \in S => Picked(Append(s, t[n]), t, n + 1, S)
         /\ t[n] \notin S => Picked(s, t, n + 1, S)
<1>1. Len(t) \in Nat /\ Len(s) \in Nat /\ n \in Nat /\ t[n] \in T
  OBVIOUS
<1>2. /\ \A i \in 1..Len(s) : s[i] \in S /\ \E k \in 1..Len(t) : k < n /\ t[k] = s[i]
      /\ \A k \in 1..Len(t) : k < n /\ t[k] \in S => \E i \in 1..Len(s) : s[i] = t[k]
      /\ \A i, j \in 1..Len(s) : i < j => Before(t, s[i], s[j])
  BY DEF Picked
<1>3. ASSUME t[n] \notin S PROVE Picked(s, t, n + 1, S)
  <2>1. \A i \in 1..Len(s) : s[i] \in S /\ \E k \in 1..Len(t) : k < n + 1 /\ t[k] = s[i]
    BY <1>1, <1>2
  <2>2. \A k \in 1..Len(t) : k < n + 1 /\ t[k] \in S => \E i \in 1..Len(s) : s[i] = t[k]
    BY <1>1, <1>2, <1>3
  <2> QED BY <1>2, <2>1, <2>2 DEF Picked
<1>4. ASSUME t[n] \in S PROVE Picked(Append(s, t[n]), t, n + 1, S)
  <2> DEFINE u == Append(s, t[n])
             m == Len(s)
  <2>1. /\ Len(u) = m + 1 /\ u[m + 1] = t[n] /\ m \in Nat
        /\ \A i \in 1..m : u[i] = s[i]
    BY <1>1, AppendFacts
  <2> HIDE DEF u
  <2>2. ASSUME NEW i \in 1..(m + 1) PROVE u[i] \in S /\ \E k \in 1..Len(t) : k < n + 1 /\ t[k] = u[i]
    <3>1. CASE i = m + 1
      BY <1>1, <1>4, <2>1, <3>1
    <3>2. CASE i \in 1..m
      BY <1>1, <1>2, <2>1, <3>2
    <3> QED BY <2>1, <3>1, <3>2
  <2>3. ASSUME NEW k \in 1..Len(t), k < n + 1, t[k] \in S PROVE \E i \in 1..(m + 1) : u[i] = t[k]
    <3>1. CASE k = n
      BY <2>1, <3>1
    <3>2. CASE k < n
      <4>1. PICK i \in 1..m : s[i] = t[k]
        BY <1>2, <2>3, <3>2
      <4>2. i \in 1..(m + 1) /\ u[i] = t[k]
        BY <2>1, <4>1
      <4> QED BY <4>2
    <3> QED BY <1>1, <2>3, <3>1, <3>2
  <2>4. ASSUME NEW i \in 1..(m + 1), NEW j \in 1..(m + 1), i < j PROVE Before(t, u[i], u[j])
    <3>1. CASE j = m + 1
      <4>1. i \in 1..m
        BY <2>1, <2>4, <3>1
      <4>2. PICK k \in 1..Len(t) : k < n /\ t[k] = s[i]
        BY <1>2, <4>1
      <4> QED BY <2>1, <3>1, <4>1, <4>2 DEF Before
    <3>2. CASE j \in 1..m
      <4>1. i \in 1..m
        BY <2>1, <2>4, <3>2
      <4> QED BY <1>2, <2>1, <2>4, <3>2, <4>1
    <3> QED BY <2>1, <3>1, <3>2
  <2>5. Picked(u, t, n + 1, S)
    BY <2>1, <2>2, <2>3, <2>4 DEF Picked
  <2> QED BY <2>5 DEF u
<1> QED BY <1>3, <1>4

LEMMA PickNone ==
  ASSUME NEW t, NEW S
  PROVE  Picked(<<>>, t, 1, S)
BY DEF Picked

LEMMA CollectInductive ==
  ASSUME TypeOK, MarkInv, CollectInv, [Next]_vars
  PROVE  CollectInv'
<1>1. CASE Consider
  BY <1>1 DEF Consider, CollectInv
<1>2. CASE EndPass
  <2>1. candidates' = <<>> /\ next' = 1 /\ phase' \in {"mark", "collect"}
    BY <1>2 DEF EndPass, MarkInv
  <2> QED BY <2>1, PickNone DEF CollectInv
<1>3. CASE Collect
  <2> DEFINE c == Containers[next]
  <2>1. /\ phase = "collect" /\ phase' = "collect" /\ marked' = marked /\ next' = next + 1
        /\ candidates' = IF c \in marked THEN Append(candidates, c) ELSE candidates
        /\ next \in 1..Len(Containers)
    BY <1>3, ListFacts DEF Collect, TypeOK
  <2>2. Containers \in Seq(Names) /\ candidates \in Seq(Names) /\ Picked(candidates, Containers, next, marked)
    BY <2>1, ContainersAssumption DEF CollectInv, TypeOK
  <2>3. Picked(candidates', Containers, next + 1, marked)
    BY <2>1, <2>2, PickNext
  <2> QED BY <2>1, <2>3 DEF CollectInv
<1>4. CASE EndCollect
  <2>1. /\ phase = "collect" /\ phase' = "sort" /\ marked' = marked /\ candidates' = candidates
        /\ next > Len(Containers) /\ next <= Len(Containers) + 1
        /\ next \in Nat /\ Len(Containers) \in Nat
    BY <1>4, ListFacts DEF EndCollect, TypeOK
  <2>2. next = Len(Containers) + 1
    BY <2>1
  <2> QED BY <2>1, <2>2 DEF CollectInv
<1>5. CASE NextRoot \/ Visit \/ Leave \/ EndSort \/ Sift \/ EndOrder
  <2>1. /\ phase \notin {"mark", "collect"} /\ phase' \notin {"mark", "collect"}
        /\ marked' = marked /\ candidates' = candidates
    BY <1>5 DEF NextRoot, Visit, Leave, EndSort, Sift, EndOrder
  <2> QED BY <2>1 DEF CollectInv
<1>6. CASE UNCHANGED vars
  BY <1>6 DEF vars, CollectInv
<1> QED BY <1>1, <1>2, <1>3, <1>4, <1>5, <1>6 DEF Next

LEMMA OrderInductive ==
  ASSUME TypeOK, MarkInv, SortInv, OrderInv, [Next]_vars
  PROVE  OrderInv'
<1>1. CASE Consider \/ EndPass \/ Collect \/ EndCollect
  <2>1. phase' \in {"mark", "collect", "sort"} /\ slices' = [r \in LabelRoles |-> <<>>]
    BY <1>1 DEF Consider, EndPass, Collect, EndCollect, MarkInv, NothingSorted
  <2> QED BY <2>1 DEF OrderInv
<1>2. CASE NextRoot \/ Visit \/ Leave \/ EndSort
  <2>1. /\ phase' = "sort" \/ (phase' = "order" /\ next' = 1)
        /\ slices' = [r \in LabelRoles |-> <<>>]
    BY <1>2 DEF NextRoot, Visit, Leave, EndSort, OrderInv
  <2>2. \A r \in LabelRoles : Picked(slices'[r], Chosen', 1, OfRole(r)')
    BY <2>1, PickNone
  <2> QED BY <2>1, <2>2 DEF OrderInv
<1>3. CASE Sift
  <2> DEFINE c == Chosen[next]
  <2>1. /\ phase = "order" /\ phase' = "order" /\ next' = next + 1
        /\ UNCHANGED <<role, marked, failed, candidates, sorted>>
        /\ Chosen \in Seq(marked) /\ next \in 1..Len(Chosen)
    BY <1>3 DEF Sift, Chosen, TypeOK
  <2>2. c \in marked /\ role[c] \in LabelRoles
    <3>1. c \in marked /\ c \in Names
      BY <2>1 DEF TypeOK
    <3>2. role \in [Names -> Roles]
      BY DEF TypeOK
    <3> QED BY <3>1, <3>2, RolesAssumption DEF LabelRoles
  <2>3. slices' = [slices EXCEPT ![role[c]] = Append(slices[role[c]], c)]
    BY <1>3 DEF Sift
  <2>4. Chosen' = Chosen /\ \A r \in LabelRoles : OfRole(r)' = OfRole(r)
    BY <2>1 DEF Chosen, OfRole
  <2>5. ASSUME NEW r \in LabelRoles PROVE Picked(slices'[r], Chosen, next + 1, OfRole(r))
    <3>1. slices[r] \in Seq(marked) /\ Picked(slices[r], Chosen, next, OfRole(r))
      BY <2>1 DEF OrderInv, TypeOK
    <3>2. CASE r = role[c]
      <4>1. c \in OfRole(r) /\ slices'[r] = Append(slices[r], c)
        BY <2>2, <2>3, <3>2 DEF OfRole, TypeOK
      <4> QED BY <2>1, <3>1, <4>1, PickNext
    <3>3. CASE r # role[c]
      <4>1. c \notin OfRole(r) /\ slices'[r] = slices[r]
        BY <2>2, <2>3, <3>3 DEF OfRole, TypeOK
      <4> QED BY <2>1, <3>1, <4>1, PickNext
    <3> QED BY <3>2, <3>3
  <2> QED BY <2>1, <2>4, <2>5 DEF OrderInv
<1>4. CASE EndOrder
  <2>1. /\ phase = "order" /\ phase' = "done"
        /\ UNCHANGED <<role, marked, failed, candidates, sorted, slices>>
        /\ order' = slices["normal"] \o slices["agent"] \o slices["server"]
        /\ next \in Nat /\ Len(Chosen) \in Nat /\ next > Len(Chosen)
    BY <1>4 DEF EndOrder, Chosen, TypeOK
  <2>2. Chosen' = Chosen /\ \A r \in LabelRoles : OfRole(r)' = OfRole(r)
    BY <2>1 DEF Chosen, OfRole
  <2>3. \A r \in LabelRoles : Picked(slices[r], Chosen, Len(Chosen) + 1, OfRole(r))
    <3>1. \A k \in 1..Len(Chosen) : k < next /\ k < Len(Chosen) + 1
      BY <2>1
    <3> QED BY <2>1, <3>1 DEF OrderInv, Picked
  <2> QED BY <2>1, <2>2, <2>3 DEF OrderInv
<1>5. CASE UNCHANGED vars
  <2>1. Chosen' = Chosen /\ \A r \in LabelRoles : OfRole(r)' = OfRole(r)
    BY <1>5 DEF vars, Chosen, OfRole
  <2>2. phase' = phase /\ next' = next /\ slices' = slices /\ order' = order
    BY <1>5 DEF vars
  <2> QED BY <2>1, <2>2 DEF OrderInv
<1> QED BY <1>1, <1>2, <1>3, <1>4, <1>5 DEF Next

-----------------------------------------------------------------------------
Inv == TypeOK /\ MarkInv /\ CollectInv /\ SortInv /\ OrderInv

LEMMA Invariants == Spec => []Inv
<1>1. Init => Inv
  <2> SUFFICES ASSUME Init PROVE Inv
    OBVIOUS
  <2>1. TypeOK
    <3>1. deps \in [Names -> SUBSET Names] /\ role \in [Names -> Roles] /\ explicit \in SUBSET Names
      BY GraphsAssumption, ExplicitsAssumption DEF Init
    <3>2. next = 1 /\ 1 <= Len(Containers) + 1
      BY ListFacts DEF Init
    <3>3. path \in Seq(Frames) /\ sorted \in Seq(marked) /\ candidates \in Seq(marked) /\ order \in Seq(marked)
      BY DEF Init
    <3>4. slices \in [LabelRoles -> Seq(marked)]
      <4>1. slices = [r \in LabelRoles |-> <<>>]
        BY DEF Init
      <4>2. \A S : <<>> \in Seq(S)
        OBVIOUS
      <4> QED BY <4>1, <4>2
    <3>5. /\ marked \in SUBSET Names /\ visited \in SUBSET Names
          /\ grew \in BOOLEAN /\ failed \in BOOLEAN /\ phase = "mark"
      BY <3>1 DEF Init
    <3> QED BY <3>1, <3>2, <3>3, <3>4, <3>5, ListFacts DEF TypeOK
  <2>2. MarkInv
    BY DEF Init, MarkInv, MarkedWithReason, ClosedBelow, NothingSorted
  <2>3. SortInv
    BY DEF Init, SortInv, OutputInv, PathInv, ProgressInv
  <2>4. CollectInv /\ OrderInv
    BY DEF Init, CollectInv, OrderInv
  <2> QED BY <2>1, <2>2, <2>3, <2>4 DEF Inv
<1>2. Inv /\ [Next]_vars => Inv'
  <2> SUFFICES ASSUME TypeOK, MarkInv, CollectInv, SortInv, OrderInv, [Next]_vars PROVE Inv'
    BY DEF Inv
  <2>1. TypeOK'
    <3>1. CASE Next
      BY <3>1, TypeInductive DEF SortInv
    <3>2. CASE UNCHANGED vars
      BY <3>2 DEF vars, TypeOK
    <3> QED BY <3>1, <3>2
  <2> QED BY <2>1, MarkInductive, CollectInductive, SortInductive, OrderInductive DEF Inv
<1>3. QED BY <1>1, <1>2, PTL DEF Spec

(* Every variable keeps its type.                                          *)
THEOREM TypeCorrect == Spec => []TypeOK
<1>1. Inv => TypeOK
  BY DEF Inv
<1>2. QED BY <1>1, Invariants, PTL

(* What nothing marked depends on stays out of the dependencies of what is *)
(* not marked: the marking is closed.                                      *)
LEMMA MarkingClosed ==
  ASSUME TypeOK, MarkInv, phase # "mark", NEW x \in Names, deps[x] \cap marked # {}
  PROVE  x \in marked
<1>1. ClosedBelow(Len(Containers) + 1)
  BY DEF MarkInv
<1>2. PICK i \in 1..Len(Containers) : Containers[i] = x
  BY ListFacts
<1>3. i < Len(Containers) + 1
  BY <1>2, ListFacts
<1> QED BY <1>1, <1>2, <1>3 DEF ClosedBelow

(* UpdateImplicitRestart, repeated until it adds nothing, marks exactly    *)
(* the containers that depend, however far away, on an updated one.        *)
THEOREM MarkingIsTheClosure == Spec => []MarkedIsClosure
<1>1. Inv => MarkedIsClosure
  <2> SUFFICES ASSUME TypeOK, MarkInv, phase # "mark"
               PROVE  marked = explicit \cup {x \in Names : \E y \in explicit : Reaches(x, y)}
    BY DEF MarkedIsClosure, Inv
  <2>1. \A x \in marked : x \in explicit \/ (x \in Names /\ \E y \in explicit : Reaches(x, y))
    BY DEF MarkInv, MarkedWithReason, TypeOK
  <2>2. ASSUME NEW x \in Names, NEW y \in explicit, Reaches(x, y), x \notin marked PROVE FALSE
    <3> DEFINE S == Names \ marked
    <3>1. \A z \in S : deps[z] \subseteq S
      BY MarkingClosed DEF TypeOK
    <3>2. y \in S
      BY <2>2, <3>1 DEF Reaches
    <3> QED BY <3>2 DEF MarkInv, MarkedWithReason
  <2>3. explicit \subseteq marked
    BY DEF MarkInv, MarkedWithReason
  <2> QED BY <2>1, <2>2, <2>3
<1>2. QED BY <1>1, Invariants, PTL

(* The containers before a position of the output, with all that are not   *)
(* marked, depend on nothing outside themselves.                           *)
LEMMA PrefixClosed ==
  ASSUME TypeOK, MarkInv, SortInv, phase # "mark", NEW i \in 1..Len(sorted),
         NEW y \in marked, Reaches(sorted[i], y)
  PROVE  Before(sorted, y, sorted[i])
<1> DEFINE Earlier == {sorted[k] : k \in {j \in 1..Len(sorted) : j < i}}
           S == (Names \ marked) \cup Earlier
<1>1. Len(sorted) \in Nat /\ \A k \in 1..Len(sorted) : sorted[k] \in marked
  BY DEF TypeOK
<1>2. ASSUME NEW k \in 1..Len(sorted), k <= i, NEW d \in deps[sorted[k]] PROVE d \in S
  <2>1. d \in Names
    BY <1>1 DEF TypeOK
  <2>2. CASE d \in marked
    <3>1. PICK j, l \in 1..Len(sorted) : j < l /\ sorted[j] = d /\ sorted[l] = sorted[k]
      BY <1>2, <2>2 DEF SortInv, OutputInv, Before
    <3>2. l = k
      BY <3>1 DEF SortInv, OutputInv
    <3>3. j < i
      BY <1>1, <1>2, <3>1, <3>2
    <3> QED BY <3>1, <3>3
  <2> QED BY <2>1, <2>2
<1>3. ASSUME NEW z \in S PROVE deps[z] \subseteq S
  <2>1. CASE z \in Names \ marked
    BY <2>1, MarkingClosed DEF TypeOK
  <2>2. CASE z \in Earlier
    BY <1>1, <1>2, <2>2
  <2> QED BY <2>1, <2>2
<1>4. deps[sorted[i]] \subseteq S
  BY <1>1, <1>2
<1>5. S \in SUBSET Names
  BY <1>1 DEF TypeOK
<1>6. y \in S
  BY <1>3, <1>4, <1>5 DEF Reaches
<1>7. PICK k \in 1..Len(sorted) : k < i /\ sorted[k] = y
  BY <1>6
<1> QED BY <1>7 DEF Before

(* The output of the search is in dependency order, indirect dependencies  *)
(* included.                                                               *)
THEOREM SortingIsTopological == Spec => []SortIsTopological
<1>1. Inv => SortIsTopological
  BY PrefixClosed DEF SortIsTopological, Inv
<1>2. QED BY <1>1, Invariants, PTL

(* Discovery order is fallen back on exactly when there is a cycle.        *)
THEOREM FailureMeansCycle == Spec => []FailsExactlyOnCycles
<1>1. Inv => FailsExactlyOnCycles
  <2> SUFFICES ASSUME TypeOK, MarkInv, SortInv, phase = "done",
                      NEW x \in marked, Reaches(x, x), ~failed
               PROVE  FALSE
    BY DEF FailsExactlyOnCycles, SortInv, ProgressInv, Inv
  <2>1. PICK i \in 1..Len(sorted) : sorted[i] = x
    BY DEF SortInv, ProgressInv, OutputInv
  <2>2. Before(sorted, x, x)
    BY <2>1, PrefixClosed
  <2>3. PICK j, k \in 1..Len(sorted) : j < k /\ sorted[j] = x /\ sorted[k] = x
    BY <2>2 DEF Before
  <2>4. j = k /\ j \in Nat
    BY <2>3 DEF SortInv, OutputInv
  <2> QED BY <2>3, <2>4
<1>2. QED BY <1>1, Invariants, PTL
-----------------------------------------------------------------------------
(***************************************************************************)
(* The order.  The argument: each slice holds the containers of its role   *)
(* in the order that was chosen, and the order is the slices one after the *)
(* other; so two containers keep their places unless their roles differ.   *)
(***************************************************************************)
Distinct(t) == \A i, j \in 1..Len(t) : t[i] = t[j] => i = j

(* What is picked from a list without duplicates has none.                 *)
LEMMA PickedDistinct ==
  ASSUME NEW t, NEW s, NEW n, NEW S, Len(t) \in Nat, Len(s) \in Nat, Distinct(t), Picked(s, t, n, S)
  PROVE  Distinct(s)
<1> SUFFICES ASSUME NEW i \in 1..Len(s), NEW j \in 1..Len(s), s[i] = s[j], i < j PROVE FALSE
  BY DEF Distinct
<1>1. PICK k, l \in 1..Len(t) : k < l /\ t[k] = s[i] /\ t[l] = s[j]
  BY DEF Picked, Before
<1>2. k = l
  BY <1>1 DEF Distinct
<1> QED BY <1>1, <1>2

(* The chosen list has every container to restart once, sorted or not.     *)
LEMMA ChosenFacts ==
  ASSUME TypeOK, CollectInv, SortInv, phase = "done"
  PROVE  /\ Chosen \in Seq(marked) /\ Len(Chosen) \in Nat /\ Distinct(Chosen)
         /\ \A x \in marked : \E k \in 1..Len(Chosen) : Chosen[k] = x
<1>1. CASE failed
  <2>1. Chosen = candidates /\ candidates \in Seq(marked) /\ Picked(candidates, Containers, Len(Containers) + 1, marked)
    BY <1>1 DEF Chosen, TypeOK, CollectInv
  <2>2. Distinct(Containers)
    BY ContainersAssumption DEF Distinct
  <2>3. Distinct(candidates)
    BY <2>1, <2>2, PickedDistinct, ListFacts
  <2>4. \A x \in marked : \E k \in 1..Len(candidates) : candidates[k] = x
    <3> SUFFICES ASSUME NEW x \in marked PROVE \E k \in 1..Len(candidates) : candidates[k] = x
      OBVIOUS
    <3>1. PICK i \in 1..Len(Containers) : Containers[i] = x
      BY ListFacts DEF TypeOK
    <3>2. i < Len(Containers) + 1
      BY ListFacts
    <3> QED BY <2>1, <3>1, <3>2 DEF Picked
  <2> QED BY <2>1, <2>3, <2>4
<1>2. CASE ~failed
  <2>1. Chosen = sorted /\ sorted \in Seq(marked)
    BY <1>2 DEF Chosen, TypeOK
  <2>2. Distinct(sorted) /\ marked = {sorted[i] : i \in 1..Len(sorted)}
    BY <1>2 DEF SortInv, OutputInv, ProgressInv, Distinct
  <2> QED BY <2>1, <2>2
<1> QED BY <1>1, <1>2

LEMMA JoinFacts ==
  ASSUME NEW T, NEW a \in Seq(T), NEW b \in Seq(T)
  PROVE  /\ a \o b \in Seq(T) /\ Len(a \o b) = Len(a) + Len(b) /\ Len(a) \in Nat /\ Len(b) \in Nat
         /\ \A i \in 1..Len(a) : (a \o b)[i] = a[i]
         /\ \A i \in 1..Len(b) : (a \o b)[Len(a) + i] = b[i]
OBVIOUS

LEMMA ConcatFacts ==
  ASSUME NEW T, NEW a \in Seq(T), NEW b \in Seq(T), NEW c \in Seq(T)
  PROVE  /\ Len(a \o b \o c) = Len(a) + Len(b) + Len(c)
         /\ Len(a) \in Nat /\ Len(b) \in Nat /\ Len(c) \in Nat
         /\ \A i \in 1..Len(a) : (a \o b \o c)[i] = a[i]
         /\ \A i \in 1..Len(b) : (a \o b \o c)[Len(a) + i] = b[i]
         /\ \A i \in 1..Len(c) : (a \o b \o c)[Len(a) + Len(b) + i] = c[i]
<1> DEFINE d == a \o b
           e == d \o c
<1>1. /\ d \in Seq(T) /\ Len(d) = Len(a) + Len(b) /\ Len(a) \in Nat /\ Len(b) \in Nat
      /\ \A i \in 1..Len(a) : d[i] = a[i]
      /\ \A i \in 1..Len(b) : d[Len(a) + i] = b[i]
  BY JoinFacts
<1> HIDE DEF d
<1>2. /\ Len(e) = Len(d) + Len(c) /\ Len(c) \in Nat
      /\ \A i \in 1..Len(d) : e[i] = d[i]
      /\ \A i \in 1..Len(c) : e[Len(d) + i] = c[i]
  <2>1. d \in Seq(T) /\ c \in Seq(T)
    BY <1>1
  <2> QED BY <2>1, JoinFacts
<1> HIDE DEF e
<1>3. \A i \in 1..Len(a) : e[i] = a[i]
  BY <1>1, <1>2
<1>4. \A i \in 1..Len(b) : e[Len(a) + i] = b[i]
  <2>1. \A i \in 1..Len(b) : Len(a) + i \in 1..Len(d)
    BY <1>1
  <2> QED BY <1>1, <1>2, <2>1
<1>5. \A i \in 1..Len(c) : e[Len(a) + Len(b) + i] = c[i]
  BY <1>1, <1>2
<1> QED BY <1>1, <1>2, <1>3, <1>4, <1>5 DEF d, e

(* Where the slice of a role starts in the order.                          *)
Start(r) == IF r = "normal" THEN 0
            ELSE IF r = "agent" THEN Len(slices["normal"])
            ELSE Len(slices["normal"]) + Len(slices["agent"])

LEMMA Placing ==
  ASSUME TypeOK, OrderInv, phase = "done"
  PROVE  /\ \A r \in LabelRoles :
              /\ Start(r) \in Nat /\ Len(slices[r]) \in Nat
              /\ \A i \in 1..Len(slices[r]) : /\ Start(r) + i \in 1..Len(order)
                                              /\ order[Start(r) + i] = slices[r][i]
         /\ \A k \in 1..Len(order) : \E r \in LabelRoles : \E i \in 1..Len(slices[r]) : k = Start(r) + i
<1> DEFINE a == slices["normal"]
           b == slices["agent"]
           c == slices["server"]
<1>1. a \in Seq(marked) /\ b \in Seq(marked) /\ c \in Seq(marked) /\ order = a \o b \o c
  BY DEF TypeOK, LabelRoles, OrderInv
<1>2. /\ Len(order) = Len(a) + Len(b) + Len(c)
      /\ Len(a) \in Nat /\ Len(b) \in Nat /\ Len(c) \in Nat
      /\ \A i \in 1..Len(a) : order[i] = a[i]
      /\ \A i \in 1..Len(b) : order[Len(a) + i] = b[i]
      /\ \A i \in 1..Len(c) : order[Len(a) + Len(b) + i] = c[i]
  <2> HIDE DEF a, b, c
  <2> QED BY <1>1, ConcatFacts
<1>3. Start("normal") = 0 /\ Start("agent") = Len(a) /\ Start("server") = Len(a) + Len(b)
  BY DEF Start
<1>a. a = slices["normal"] /\ b = slices["agent"] /\ c = slices["server"]
  OBVIOUS
<1> HIDE DEF a, b, c
<1>4. ASSUME NEW r \in LabelRoles
      PROVE  /\ Start(r) \in Nat /\ Len(slices[r]) \in Nat
             /\ \A i \in 1..Len(slices[r]) : /\ Start(r) + i \in 1..Len(order)
                                             /\ order[Start(r) + i] = slices[r][i]
  <2>1. CASE r = "normal"
    <3>1. slices[r] = a /\ Start(r) = 0
      BY <1>3, <1>a, <2>1
    <3>2. \A i \in 1..Len(a) : 0 + i = i /\ i \in 1..Len(order)
      BY <1>2
    <3> QED BY <1>2, <3>1, <3>2
  <2>2. CASE r = "agent"
    <3>1. slices[r] = b /\ Start(r) = Len(a)
      BY <1>3, <1>a, <2>2
    <3>2. \A i \in 1..Len(b) : Len(a) + i \in 1..Len(order)
      BY <1>2
    <3> QED BY <1>2, <3>1, <3>2
  <2>3. CASE r = "server"
    <3>1. slices[r] = c /\ Start(r) = Len(a) + Len(b)
      BY <1>3, <1>a, <2>3
    <3>2. \A i \in 1..Len(c) : Len(a) + Len(b) + i \in 1..Len(order)
      BY <1>2
    <3> QED BY <1>2, <3>1, <3>2
  <2> QED BY <2>1, <2>2, <2>3 DEF LabelRoles
<1>5. ASSUME NEW k \in 1..Len(order)
      PROVE  \E r \in LabelRoles : \E i \in 1..Len(slices[r]) : k = Start(r) + i
  <2>1. CASE k <= Len(a)
    <3>1. k \in 1..Len(slices["normal"]) /\ k = Start("normal") + k
      BY <1>2, <1>3, <1>a, <2>1
    <3> QED BY <3>1 DEF LabelRoles
  <2>2. CASE k > Len(a) /\ k <= Len(a) + Len(b)
    <3>1. k - Len(a) \in 1..Len(b) /\ k = Len(a) + (k - Len(a))
      BY <1>2, <2>2
    <3>2. \E i \in 1..Len(b) : k = Len(a) + i
      BY <3>1
    <3>3. \E i \in 1..Len(slices["agent"]) : k = Start("agent") + i
      BY <1>3, <1>a, <3>2
    <3> QED BY <3>3 DEF LabelRoles
  <2>3. CASE k > Len(a) + Len(b)
    <3>1. /\ k - (Len(a) + Len(b)) \in 1..Len(c)
          /\ k = Len(a) + Len(b) + (k - (Len(a) + Len(b)))
      BY <1>2, <2>3
    <3>2. \E i \in 1..Len(c) : k = Len(a) + Len(b) + i
      BY <3>1
    <3>3. \E i \in 1..Len(slices["server"]) : k = Start("server") + i
      BY <1>3, <1>a, <3>2
    <3> QED BY <3>3 DEF LabelRoles
  <2> QED BY <1>2, <2>1, <2>2, <2>3
<1> QED BY <1>4, <1>5

(* Which slice a container is in, and where the slices are.                *)
LEMMA SliceFacts ==
  ASSUME TypeOK, CollectInv, SortInv, OrderInv, phase = "done"
  PROVE  /\ \A x \in marked : /\ role[x] \in LabelRoles /\ Rank(x) \in 1..3
                              /\ \E i \in 1..Len(slices[role[x]]) : slices[role[x]][i] = x
         /\ \A r \in LabelRoles : /\ Distinct(slices[r])
                                  /\ \A i \in 1..Len(slices[r]) : slices[r][i] \in OfRole(r)
         /\ \A x, y \in marked :
              /\ Rank(x) < Rank(y) => Start(role[x]) + Len(slices[role[x]]) <= Start(role[y])
              /\ Rank(x) = Rank(y) => role[x] = role[y]
<1>1. \A x \in marked : role[x] \in LabelRoles
  BY RolesAssumption DEF TypeOK, LabelRoles
<1>2. \A r \in LabelRoles : Picked(slices[r], Chosen, Len(Chosen) + 1, OfRole(r)) /\ Len(slices[r]) \in Nat
  BY DEF OrderInv, TypeOK
<1>3. \A x \in marked : \E i \in 1..Len(slices[role[x]]) : slices[role[x]][i] = x
  <2> SUFFICES ASSUME NEW x \in marked PROVE \E i \in 1..Len(slices[role[x]]) : slices[role[x]][i] = x
    OBVIOUS
  <2>1. PICK k \in 1..Len(Chosen) : Chosen[k] = x
    BY ChosenFacts
  <2>2. k < Len(Chosen) + 1 /\ x \in OfRole(role[x])
    BY ChosenFacts DEF OfRole
  <2> QED BY <1>1, <1>2, <2>1, <2>2 DEF Picked
<1>4. \A r \in LabelRoles : Distinct(slices[r])
  BY <1>2, ChosenFacts, PickedDistinct
<1>5. \A r \in LabelRoles : \A i \in 1..Len(slices[r]) : slices[r][i] \in OfRole(r)
  BY <1>2 DEF Picked
<1>6. \A x \in marked : /\ role[x] = "normal" => Rank(x) = 1
                        /\ role[x] = "agent" => Rank(x) = 2
                        /\ role[x] = "server" => Rank(x) = 3
  BY DEF Rank
<1>7. \A r \in LabelRoles : r = "normal" \/ r = "agent" \/ r = "server"
  BY DEF LabelRoles
<1>8. Len(slices["normal"]) \in Nat /\ Len(slices["agent"]) \in Nat /\ Len(slices["server"]) \in Nat
  BY <1>2 DEF LabelRoles
<1>9. ASSUME NEW x \in marked, NEW y \in marked
      PROVE  /\ Rank(x) < Rank(y) => Start(role[x]) + Len(slices[role[x]]) <= Start(role[y])
             /\ Rank(x) = Rank(y) => role[x] = role[y]
  <2>1. /\ \/ role[x] = "normal" /\ Rank(x) = 1
           \/ role[x] = "agent" /\ Rank(x) = 2
           \/ role[x] = "server" /\ Rank(x) = 3
        /\ \/ role[y] = "normal" /\ Rank(y) = 1
           \/ role[y] = "agent" /\ Rank(y) = 2
           \/ role[y] = "server" /\ Rank(y) = 3
    BY <1>1, <1>6, <1>7
  <2>2. ASSUME Rank(x) < Rank(y) PROVE Start(role[x]) + Len(slices[role[x]]) <= Start(role[y])
    <3>1. CASE role[x] = "normal" /\ role[y] = "agent"
      BY <1>8, <3>1 DEF Start
    <3>2. CASE role[x] = "normal" /\ role[y] = "server"
      <4>1. /\ Start(role[x]) = 0 /\ Start(role[y]) = Len(slices["normal"]) + Len(slices["agent"])
            /\ Len(slices[role[x]]) = Len(slices["normal"])
        BY <3>2 DEF Start
      <4>2. \A m, n \in Nat : 0 + m <= m + n
        OBVIOUS
      <4> QED BY <1>8, <4>1, <4>2
    <3>3. CASE role[x] = "agent" /\ role[y] = "server"
      BY <1>8, <3>3 DEF Start
    <3>4. \/ role[x] = "normal" /\ role[y] = "agent"
          \/ role[x] = "normal" /\ role[y] = "server"
          \/ role[x] = "agent" /\ role[y] = "server"
      BY <2>1, <2>2
    <3> QED BY <3>1, <3>2, <3>3, <3>4
  <2>3. ASSUME Rank(x) = Rank(y) PROVE role[x] = role[y]
    BY <2>1, <2>3
  <2> QED BY <2>2, <2>3
<1>10. \A x \in marked : Rank(x) \in 1..3
  BY <1>1, <1>6, <1>7
<1> QED BY <1>1, <1>3, <1>4, <1>5, <1>9, <1>10

(* A container comes before one of a later role, and one of its own role   *)
(* that was chosen later.                                                  *)
LEMMA OrderKept ==
  ASSUME TypeOK, CollectInv, SortInv, OrderInv, phase = "done",
         NEW x \in marked, NEW y \in marked,
         Rank(y) < Rank(x) \/ (Rank(y) = Rank(x) /\ Before(Chosen, y, x))
  PROVE  Before(order, y, x)
<1>1. PICK i \in 1..Len(slices[role[x]]) : slices[role[x]][i] = x
  BY SliceFacts
<1>2. PICK j \in 1..Len(slices[role[y]]) : slices[role[y]][j] = y
  BY SliceFacts
<1>3. role[x] \in LabelRoles /\ role[y] \in LabelRoles
  BY SliceFacts
<1>4. /\ Start(role[x]) + i \in 1..Len(order) /\ order[Start(role[x]) + i] = x
      /\ Start(role[y]) + j \in 1..Len(order) /\ order[Start(role[y]) + j] = y
      /\ Start(role[x]) \in Nat /\ Start(role[y]) \in Nat
      /\ Len(slices[role[x]]) \in Nat /\ Len(slices[role[y]]) \in Nat
  BY <1>1, <1>2, <1>3, Placing
<1>5. CASE Rank(y) < Rank(x)
  <2>1. Start(role[y]) + Len(slices[role[y]]) <= Start(role[x])
    BY <1>5, SliceFacts
  <2>2. Start(role[y]) + j < Start(role[x]) + i
    BY <1>4, <2>1
  <2> QED BY <1>4, <2>2 DEF Before
<1>6. CASE Rank(y) = Rank(x) /\ Before(Chosen, y, x)
  <2>1. role[y] = role[x]
    BY <1>6, SliceFacts
  <2>2. PICK k, l \in 1..Len(Chosen) : k < l /\ Chosen[k] = y /\ Chosen[l] = x
    BY <1>6 DEF Before
  <2>3. j # i
    <3>1. Distinct(Chosen)
      BY ChosenFacts
    <3>2. x # y
      BY <2>2, <3>1 DEF Distinct
    <3> QED BY <1>1, <1>2, <2>1, <3>2
  <2>4. ~(i < j)
    <3> SUFFICES ASSUME i < j PROVE FALSE
      OBVIOUS
    <3>1. Before(Chosen, x, y)
      BY <1>1, <1>2, <1>3, <2>1 DEF OrderInv, Picked
    <3>2. PICK m, n \in 1..Len(Chosen) : m < n /\ Chosen[m] = x /\ Chosen[n] = y
      BY <3>1 DEF Before
    <3>3. m = l /\ n = k
      BY <2>2, <3>2, ChosenFacts DEF Distinct
    <3> QED BY <2>2, <3>2, <3>3
  <2>5. Start(role[y]) + j < Start(role[x]) + i
    BY <1>4, <2>1, <2>3, <2>4
  <2> QED BY <1>4, <2>5 DEF Before
<1> QED BY <1>5, <1>6

(* The order handed to executeRestartPlans has each container to restart   *)
(* once, self-update targets last, and dependencies (or, where there is a  *)
(* cycle, what was discovered earlier) first among those of one role.      *)
THEOREM OrderIsRightHolds == Spec => []OrderIsRight
<1>1. Inv => OrderIsRight
  <2> SUFFICES ASSUME TypeOK, MarkInv, CollectInv, SortInv, OrderInv, phase = "done"
               PROVE  OrderIsComplete /\ SelfUpdatesLast /\ DependenciesFirst /\ DiscoveredFirst
    BY DEF Inv, OrderIsRight
  <2>1. {order[k] : k \in 1..Len(order)} = marked
    <3>1. ASSUME NEW k \in 1..Len(order) PROVE order[k] \in marked
      BY <3>1 DEF TypeOK
    <3>2. ASSUME NEW x \in marked PROVE \E k \in 1..Len(order) : order[k] = x
      <4>1. role[x] \in LabelRoles
        BY <3>2, SliceFacts
      <4>2. PICK i \in 1..Len(slices[role[x]]) : slices[role[x]][i] = x
        BY <3>2, SliceFacts
      <4>3. /\ Start(role[x]) + i \in 1..Len(order)
            /\ order[Start(role[x]) + i] = slices[role[x]][i]
        BY <4>1, Placing
      <4> QED BY <4>2, <4>3
    <3> QED BY <3>1, <3>2
  <2>2. ASSUME NEW k \in 1..Len(order), NEW l \in 1..Len(order), order[k] = order[l] PROVE k = l
    <3>1. PICK r \in LabelRoles : \E i \in 1..Len(slices[r]) : k = Start(r) + i
      BY Placing
    <3>2. PICK i \in 1..Len(slices[r]) : k = Start(r) + i
      BY <3>1
    <3>3. PICK q \in LabelRoles : \E j \in 1..Len(slices[q]) : l = Start(q) + j
      BY Placing
    <3>4. PICK j \in 1..Len(slices[q]) : l = Start(q) + j
      BY <3>3
    <3>5. order[k] = slices[r][i] /\ order[l] = slices[q][j]
      BY <3>2, <3>4, Placing
    <3>6. r = q
      <4>1. slices[r][i] \in OfRole(r) /\ slices[q][j] \in OfRole(q)
        BY SliceFacts
      <4>2. role[slices[r][i]] = r /\ role[slices[q][j]] = q
        BY <4>1 DEF OfRole
      <4> QED BY <2>2, <3>5, <4>2
    <3>7. i = j
      <4>1. Distinct(slices[r])
        BY SliceFacts
      <4> QED BY <2>2, <3>5, <3>6, <4>1 DEF Distinct
    <3> QED BY <3>2, <3>4, <3>6, <3>7
  <2>3. SelfUpdatesLast
    BY OrderKept DEF SelfUpdatesLast
  <2>4. \A x, y \in marked : Rank(y) <= Rank(x) /\ Before(Chosen, y, x) => Before(order, y, x)
    <3> SUFFICES ASSUME NEW x \in marked, NEW y \in marked, Rank(y) <= Rank(x), Before(Chosen, y, x)
                 PROVE  Before(order, y, x)
      OBVIOUS
    <3>1. Rank(x) \in 1..3 /\ Rank(y) \in 1..3
      BY SliceFacts
    <3>2. Rank(y) < Rank(x) \/ Rank(y) = Rank(x)
      BY <3>1
    <3> QED BY <3>2, OrderKept
  <2>5. ASSUME ~failed, NEW x \in marked, NEW y \in marked, Reaches(x, y) PROVE Before(Chosen, y, x)
    <3>1. PICK i \in 1..Len(sorted) : sorted[i] = x
      BY <2>5, ChosenFacts DEF Chosen
    <3>2. Before(sorted, y, x)
      BY <2>5, <3>1, PrefixClosed
    <3> QED BY <2>5, <3>2 DEF Chosen
  <2>6. ASSUME failed, NEW x \in marked, NEW y \in marked, Before(Containers, y, x)
        PROVE  Before(Chosen, y, x)
    <3>1. Chosen = candidates /\ Picked(candidates, Containers, Len(Containers) + 1, marked)
      BY <2>6 DEF Chosen, CollectInv
    <3>2. PICK i \in 1..Len(candidates) : candidates[i] = x
      BY <3>1, ChosenFacts
    <3>3. PICK j \in 1..Len(candidates) : candidates[j] = y
      BY <3>1, ChosenFacts
    <3>4. PICK k, l \in 1..Len(Containers) : k < l /\ Containers[k] = y /\ Containers[l] = x
      BY <2>6 DEF Before
    <3>5. i # j
      BY <3>2, <3>3, <3>4, ContainersAssumption
    <3>6. ~(i < j)
      <4> SUFFICES ASSUME i < j PROVE FALSE
        OBVIOUS
      <4>1. PICK m, n \in 1..Len(Containers) : m < n /\ Containers[m] = x /\ Containers[n] = y
        <5>1. \A g, h \in 1..Len(candidates) : g < h => Before(Containers, candidates[g], candidates[h])
          BY <3>1 DEF Picked
        <5>2. Before(Containers, x, y)
          BY <3>2, <3>3, <5>1
        <5> QED BY <5>2 DEF Before
      <4>2. m = l /\ n = k
        BY <3>4, <4>1, ContainersAssumption
      <4> QED BY <3>4, <4>1, <4>2
    <3>7. j < i
      BY <3>5, <3>6
    <3> QED BY <3>1, <3>2, <3>3, <3>7 DEF Before
  <2>7. DependenciesFirst
    BY <2>4, <2>5 DEF DependenciesFirst
  <2>8. DiscoveredFirst
    BY <2>4, <2>6 DEF DiscoveredFirst
  <2> QED BY <2>1, <2>2, <2>3, <2>7, <2>8 DEF OrderIsComplete
<1>2. QED BY <1>1, Invariants, PTL
=============================================================================
