------------------------ MODULE StatusReader_proofs --------------------------
(***************************************************************************)
(* StatusTracking implements AtomicStatus, what an update that is under    *)
(* way can rely on, and what a Status tells, for any number of workers and *)
(* ids.                                                                    *)
(***************************************************************************)
EXTENDS StatusReader, TLAPS

(* The helpers of AtomicStatus have the types their names say.             *)
LEMMA StepFacts ==
  /\ \A step \in Steps : ListOf[step] \in Lists /\ Atomic!After[step] \in Atomic!Stages
  /\ \A step, ids, id : ids \in SUBSET Ids /\ id \in Ids
                          => Atomic!Applied(step, ids, id) \in SUBSET Ids
BY DEF Steps, Lists, ListOf, Ids, Atomic!Steps, Atomic!Lists, Atomic!ListOf, Atomic!After,
       Atomic!Stages, Atomic!Applied

(* A step that is not about the empty id is about an id.                   *)
LEMMA IdFacts ==
  ASSUME TypeOK, NEW w \in Workers, stage[w] \in Steps, ~Unlisted(w)
  PROVE  Atomic!IdOf(w, stage[w]) \in Ids
BY DEF TypeOK, Unlisted, Ids, Atomic!Ids, Atomic!IdOf, Atomic!Work

-----------------------------------------------------------------------------
(* Every variable keeps its type.                                          *)
THEOREM TypesAndSnapshots == Spec => [](TypeOK /\ SnapshotsAreImmutable)
<1>1. Init => TypeOK
  BY BoundAssumption DEF Init, TypeOK, Lists, Snapshots, NotLoaded, Atomic!Lists, Atomic!Stages, Atomic!Work
<1>2. TypeOK /\ SnapshotsAreImmutable /\ [Next]_vars => TypeOK'
  <2> SUFFICES ASSUME TypeOK, SnapshotsAreImmutable, [Next]_vars PROVE TypeOK'
    OBVIOUS
  <2> USE DEF TypeOK, Snapshots
  <2>1. ASSUME NEW w \in Workers, Ask(w) PROVE TypeOK'
    <3>1. PICK c \in MayUpdate[w], p \in Projects \cup {NoProject} :
                 work' = [work EXCEPT ![w] = [container |-> c, project |-> p]]
      BY <2>1 DEF Ask
    <3>2. [container |-> c, project |-> p] \in Atomic!Work
      BY MayUpdateAssumption DEF Atomic!Work
    <3>3. work' \in [Workers -> Atomic!Work]
      BY <3>1, <3>2
    <3>4. stage' \in [Workers -> Atomic!Stages]
      BY <2>1 DEF Ask, Atomic!Stages, Atomic!Steps
    <3> QED BY <2>1, <3>3, <3>4, BoundAssumption DEF Ask
  <2>2. ASSUME NEW w \in Workers, Proceed(w) PROVE TypeOK'
    <3>1. NotLoaded \in Snapshots
      BY DEF NotLoaded
    <3>2. CASE SkipEmptyId(w)
      BY <3>1, <3>2, StepFacts DEF SkipEmptyId, Return
    <3>3. CASE Load(w)
      BY <3>1, <3>3, StepFacts DEF Load, Return
    <3>4. CASE CompareAndSwap(w)
      <4> DEFINE l == ListOf[stage[w]]
                 next == [ptr |-> published + 1,
                          ids |-> Atomic!Applied(stage[w], loaded[w].ids, Atomic!IdOf(w, stage[w]))]
      <4>1. CASE active[l].ptr # loaded[w].ptr
        BY <3>1, <3>4, <4>1 DEF CompareAndSwap
      <4>2. CASE active[l].ptr = loaded[w].ptr
        <5>1. stage[w] \in Steps /\ ~Unlisted(w)
          BY <3>4 DEF CompareAndSwap, SnapshotsAreImmutable
        <5>2. next \in Snapshots /\ l \in Lists
          BY <5>1, StepFacts, IdFacts
        <5>3. active' = [active EXCEPT ![l] = next] /\ Return(w)
              /\ published' = published + 1 /\ UNCHANGED <<work, asked>>
          BY <3>4, <4>2 DEF CompareAndSwap
        <5> QED BY <3>1, <5>1, <5>2, <5>3, StepFacts DEF Return
      <4> QED BY <4>1, <4>2
    <3>5. CASE Finish(w)
      BY <3>5 DEF Finish, Atomic!Stages, Atomic!Steps
    <3> QED BY <2>2, <3>2, <3>3, <3>4, <3>5 DEF Proceed
  <2>3. CASE UNCHANGED vars
    BY <2>3 DEF vars
  <2> QED BY <2>1, <2>2, <2>3 DEF Next
<1>3. Init => SnapshotsAreImmutable
  BY DEF Init, SnapshotsAreImmutable, Lists, Atomic!Lists
<1>4. TypeOK /\ SnapshotsAreImmutable /\ [Next]_vars => SnapshotsAreImmutable'
  <2> SUFFICES ASSUME TypeOK, SnapshotsAreImmutable, [Next]_vars PROVE SnapshotsAreImmutable'
    OBVIOUS
  <2> USE DEF SnapshotsAreImmutable
  <2>1. ASSUME NEW w \in Workers, Ask(w) PROVE SnapshotsAreImmutable'
    BY <2>1, StepFacts DEF Ask, TypeOK, Unlisted, Atomic!IdOf, Steps, Atomic!Steps
  <2>2. ASSUME NEW w \in Workers, Proceed(w) PROVE SnapshotsAreImmutable'
    <3>2. CASE SkipEmptyId(w)
      BY <3>2, StepFacts DEF SkipEmptyId, Return, TypeOK, Unlisted, Atomic!IdOf
    <3>3. CASE Load(w)
      BY <3>3, StepFacts DEF Load, Return, TypeOK, Unlisted, Atomic!IdOf
    <3>4. CASE CompareAndSwap(w)
      <4>1. /\ stage[w] \in Steps
            /\ loaded'[w] = NotLoaded /\ work' = work
            /\ \A v \in Workers \ {w} : loaded'[v] = loaded[v] /\ stage'[v] = stage[v]
        BY <3>4 DEF CompareAndSwap, Return, TypeOK
      <4>2. \/ active' = active /\ published' = published
            \/ /\ published' = published + 1
               /\ \A l \in Lists : \/ active'[l] = active[l]
                                  \/ active'[l].ptr = published + 1
        BY <3>4 DEF CompareAndSwap, TypeOK
      <4>3. published \in Nat
        BY DEF TypeOK
      <4>4. \A l \in Lists : active'[l].ptr \in 1..published'
        BY <4>1, <4>2, <4>3
      <4>5. ASSUME NEW v \in Workers, loaded'[v] # NotLoaded
            PROVE  /\ stage'[v] \in Steps /\ ~Unlisted(v)'
                   /\ loaded'[v].ptr \in 1..published'
                   /\ loaded'[v].ptr = active'[ListOf[stage'[v]]].ptr
                        => loaded'[v].ids = active'[ListOf[stage'[v]]].ids
        <5>1. v # w /\ loaded'[v] = loaded[v] /\ stage'[v] = stage[v]
          BY <4>1, <4>5
        <5>2. stage[v] \in Steps /\ ~Unlisted(v) /\ loaded[v].ptr \in 1..published
          BY <4>5, <5>1
        <5>3. ListOf[stage[v]] \in Lists
          BY <5>2, StepFacts
        <5>4. loaded[v].ptr # published + 1
          BY <4>3, <5>2
        <5> QED BY <4>1, <4>2, <4>3, <4>5, <5>1, <5>2, <5>3, <5>4 DEF Unlisted, Atomic!IdOf
      <4> QED BY <4>4, <4>5
    <3>5. CASE Finish(w)
      BY <3>5, StepFacts DEF Finish, TypeOK, Unlisted, Atomic!IdOf, Steps, Atomic!Steps
    <3> QED BY <2>2, <3>2, <3>3, <3>4, <3>5 DEF Proceed
  <2>3. CASE UNCHANGED vars
    BY <2>3 DEF vars, Unlisted, Atomic!IdOf
  <2> QED BY <2>1, <2>2, <2>3 DEF Next
<1>5. QED BY <1>1, <1>2, <1>3, <1>4, PTL DEF Spec

(* Every variable keeps its type.                                          *)
THEOREM TypeCorrect == Spec => []TypeOK
BY TypesAndSnapshots, PTL

(* The compare-and-swap succeeds only on the snapshot that was loaded: a   *)
(* pointer that has not moved still holds the ids it held then.            *)
LEMMA Immutability == Spec => []SnapshotsAreImmutable
BY TypesAndSnapshots, PTL

(* The begins and ends of status.go are atomic set operations: every step  *)
(* is a step of AtomicStatus on the ids the pointers hold, or changes      *)
(* nothing of it.                                                          *)
LEMMA AtomicStep ==
  ASSUME TypeOK, SnapshotsAreImmutable, [Next]_vars
  PROVE  [Atomic!Next]_<<stage, work, listedIds>>
<1>1. ASSUME NEW w \in Workers, Ask(w) PROVE Atomic!Ask(w)
  BY <1>1 DEF Ask, Atomic!Ask, listedIds
<1>2. ASSUME NEW w \in Workers, SkipEmptyId(w) PROVE Atomic!Apply(w)
  BY <1>2 DEF SkipEmptyId, Return, Unlisted, Atomic!Apply, listedIds, Steps, ListOf
<1>3. ASSUME NEW w \in Workers, Load(w)
      PROVE  Atomic!Apply(w) \/ UNCHANGED <<stage, work, listedIds>>
  <2> DEFINE l == ListOf[stage[w]]
             ids == Atomic!Applied(stage[w], active[l].ids, Atomic!IdOf(w, stage[w]))
  <2>1. UNCHANGED <<work, listedIds>> /\ stage[w] \in Steps /\ ~Unlisted(w)
    BY <1>3 DEF Load, listedIds
  <2>2. CASE ids # active[l].ids
    BY <1>3, <2>1, <2>2 DEF Load
  <2>3. CASE ids = active[l].ids
    <3>1. l \in Lists /\ listedIds[l] = ids
      BY <2>1, <2>3, StepFacts DEF listedIds, Lists, Atomic!Lists
    <3>2. [listedIds EXCEPT ![l] = ids] = listedIds
      BY <3>1 DEF listedIds
    <3>3. stage' = [stage EXCEPT ![w] = Atomic!After[stage[w]]]
      BY <1>3, <2>3 DEF Load, Return
    <3>4. ids = Atomic!Applied(stage[w], listedIds[l], Atomic!IdOf(w, stage[w]))
      BY <2>3, <3>1
    <3>5. listedIds' = [listedIds EXCEPT ![l] = ids]
      BY <2>1, <3>2
    <3> QED
      BY <2>1, <3>3, <3>4, <3>5 DEF Atomic!Apply, Unlisted, Steps, ListOf
  <2> QED BY <2>2, <2>3
<1>4. ASSUME NEW w \in Workers, CompareAndSwap(w)
      PROVE  Atomic!Apply(w) \/ UNCHANGED <<stage, work, listedIds>>
  <2> DEFINE l == ListOf[stage[w]]
             ids == Atomic!Applied(stage[w], active[l].ids, Atomic!IdOf(w, stage[w]))
  <2>1. UNCHANGED work /\ stage[w] \in Steps /\ ~Unlisted(w) /\ l \in Lists
    BY <1>4, StepFacts DEF CompareAndSwap, SnapshotsAreImmutable
  <2>2. CASE active[l].ptr # loaded[w].ptr
    BY <1>4, <2>1, <2>2 DEF CompareAndSwap, listedIds
  <2>3. CASE active[l].ptr = loaded[w].ptr
    <3>1. loaded[w].ids = active[l].ids
      BY <1>4, <2>3 DEF CompareAndSwap, SnapshotsAreImmutable
    <3>2. /\ active' = [active EXCEPT ![l] = [ptr |-> published + 1, ids |-> ids]]
          /\ stage' = [stage EXCEPT ![w] = Atomic!After[stage[w]]]
      BY <1>4, <2>3, <3>1 DEF CompareAndSwap, Return
    <3>3. listedIds' = [listedIds EXCEPT ![l] = ids]
      BY <2>1, <3>2 DEF listedIds, TypeOK, Lists, Atomic!Lists
    <3>4. listedIds[l] = active[l].ids
      BY <2>1 DEF listedIds, Lists, Atomic!Lists
    <3> QED BY <2>1, <3>2, <3>3, <3>4 DEF Atomic!Apply, Unlisted, Steps, ListOf
  <2> QED BY <2>2, <2>3
<1>5. ASSUME NEW w \in Workers, Finish(w) PROVE Atomic!Finish(w)
  BY <1>5 DEF Finish, Atomic!Finish, listedIds
<1>6. CASE UNCHANGED vars
  BY <1>6 DEF vars, listedIds
<1> QED
  BY <1>1, <1>2, <1>3, <1>4, <1>5, <1>6 DEF Next, Proceed, Atomic!Next

(* What a begin or an end makes of the ids of each list.                   *)
LEMMA IdsAfter ==
  ASSUME NEW w \in Workers, Atomic!Apply(w), NEW l \in Lists
  PROVE  active'[l].ids = IF l = ListOf[stage[w]] /\ ~Unlisted(w)
                          THEN Atomic!Applied(stage[w], active[l].ids, Atomic!IdOf(w, stage[w]))
                          ELSE active[l].ids
<1> DEFINE step == stage[w]
<1>1. listedIds[l] = active[l].ids /\ listedIds'[l] = active'[l].ids
  BY DEF listedIds, Lists, Atomic!Lists
<1>2. CASE Unlisted(w)
  BY <1>1, <1>2 DEF Atomic!Apply, Unlisted
<1>3. CASE ~Unlisted(w)
  <2>1. listedIds' = [listedIds EXCEPT ![ListOf[step]] = Atomic!Applied(step, @, Atomic!IdOf(w, step))]
    BY <1>3 DEF Atomic!Apply, Unlisted, ListOf
  <2>2. listedIds \in [Lists -> {active[m].ids : m \in Lists}]
    BY DEF listedIds, Lists, Atomic!Lists
  <2> QED BY <1>1, <1>3, <2>1, <2>2
<1> QED BY <1>2, <1>3

(* The compare-and-swap loops implement the atomic sets.                   *)
THEOREM ImplementsAtomicStatus == Spec => AtomicSpec
<1>1. Init => Atomic!Init
  BY DEF Init, Atomic!Init, listedIds, Atomic!Work, Lists, Atomic!Lists
<1>2. TypeOK /\ SnapshotsAreImmutable /\ [Next]_vars => [Atomic!Next]_<<stage, work, listedIds>>
  BY AtomicStep
<1>3. QED BY <1>1, <1>2, TypeCorrect, Immutability, PTL DEF Spec, AtomicSpec, Atomic!Spec

-----------------------------------------------------------------------------
(***************************************************************************)
(* When no two workers update the same container, Status lists every       *)
(* container that is being updated.  (With shared containers it does not:  *)
(* the list is a set and the first end deletes the id.)                    *)
(***************************************************************************)
LEMMA ListedInductive ==
  ASSUME OwnContainersOnly, TypeOK, SnapshotsAreImmutable, BegunIsListed, [Next]_vars
  PROVE  BegunIsListed'
<1> USE DEF BegunIsListed
<1>1. listedIds["containers"] = active["containers"].ids
      /\ listedIds'["containers"] = active'["containers"].ids
  BY DEF listedIds
<1>2. ASSUME NEW w \in Workers, Atomic!Ask(w) PROVE BegunIsListed'
  <2>1. /\ listedIds' = listedIds /\ stage'[w] = "beginContainer"
        /\ work'[w].container \in MayUpdate[w]
        /\ \A v \in Workers \ {w} : stage'[v] = stage[v] /\ work'[v] = work[v]
    BY <1>2 DEF Atomic!Ask, TypeOK
  <2> QED BY <1>1, <2>1
<1>3. ASSUME NEW w \in Workers, Atomic!Apply(w) PROVE BegunIsListed'
  <2> DEFINE id == Atomic!IdOf(w, stage[w])
  <2>1. /\ work' = work /\ stage[w] \in Atomic!Steps /\ stage'[w] = Atomic!After[stage[w]]
        /\ \A v \in Workers \ {w} : stage'[v] = stage[v]
    BY <1>3 DEF Atomic!Apply, TypeOK
  <2>2. work[w].container # NoProject
    BY NoProjectAssumption DEF TypeOK, Atomic!Work
  <2>3. CASE stage[w] = "beginContainer"
    <3>1. active'["containers"].ids = active["containers"].ids \cup {work[w].container}
      <4>1. ListOf[stage[w]] = "containers" /\ "containers" \in Lists
        BY <2>3 DEF Lists, Atomic!Lists, ListOf, Atomic!ListOf
      <4>2. Atomic!IdOf(w, stage[w]) = work[w].container
        BY <4>1 DEF ListOf, Atomic!IdOf
      <4>3. Atomic!Applied(stage[w], active["containers"].ids, work[w].container)
              = active["containers"].ids \cup {work[w].container}
        BY <2>3 DEF Atomic!Applied
      <4> QED BY <1>3, <2>2, <4>1, <4>2, <4>3, IdsAfter DEF Unlisted
    <3> QED BY <2>1, <3>1
  <2>4. CASE stage[w] = "endContainer"
    <3>1. active'["containers"].ids = active["containers"].ids \ {work[w].container}
      <4>1. ListOf[stage[w]] = "containers" /\ "containers" \in Lists
        BY <2>4 DEF Lists, Atomic!Lists, ListOf, Atomic!ListOf
      <4>2. Atomic!IdOf(w, stage[w]) = work[w].container
        BY <4>1 DEF ListOf, Atomic!IdOf
      <4>3. Atomic!Applied(stage[w], active["containers"].ids, work[w].container)
              = active["containers"].ids \ {work[w].container}
        BY <2>4 DEF Atomic!Applied
      <4> QED BY <1>3, <2>2, <4>1, <4>2, <4>3, IdsAfter DEF Unlisted
    <3>2. stage'[w] = "idle"
      BY <2>1, <2>4 DEF Atomic!After
    <3>3. \A v \in Workers \ {w} : work[v].container # work[w].container
      BY DEF OwnContainersOnly
    <3> QED BY <2>1, <3>1, <3>2, <3>3
  <2>5. CASE stage[w] \in {"beginProject", "endProject"}
    <3>1. active'["containers"].ids = active["containers"].ids
      BY <1>3, <2>5, IdsAfter DEF Lists, Atomic!Lists, ListOf, Atomic!ListOf
    <3> QED BY <2>1, <2>5, <3>1
  <2> QED BY <2>1, <2>3, <2>4, <2>5 DEF Atomic!Steps
<1>4. ASSUME NEW w \in Workers, Atomic!Finish(w) PROVE BegunIsListed'
  <2>1. /\ listedIds' = listedIds /\ work' = work /\ stage[w] = "updating"
        /\ \A v \in Workers \ {w} : stage'[v] = stage[v]
    BY <1>4 DEF Atomic!Finish, TypeOK
  <2> QED BY <1>1, <2>1
<1>5. CASE UNCHANGED <<stage, work, listedIds>>
  BY <1>1, <1>5
<1> QED BY <1>2, <1>3, <1>4, <1>5, AtomicStep DEF Atomic!Next

(* The containers of a worker's own are listed from its begin to its end.  *)
THEOREM UpdatingIsListedHolds ==
  ASSUME OwnContainersOnly
  PROVE  Spec => []UpdatingIsListed
<1>1. Init => BegunIsListed
  BY DEF Init, BegunIsListed
<1>2. TypeOK /\ SnapshotsAreImmutable /\ BegunIsListed /\ [Next]_vars => BegunIsListed'
  BY ListedInductive
<1>3. BegunIsListed => UpdatingIsListed
  BY DEF BegunIsListed, UpdatingIsListed
<1>4. QED BY <1>1, <1>2, <1>3, TypeCorrect, Immutability, PTL DEF Spec

-----------------------------------------------------------------------------
(* The ids of a list are those of workers between their begin and their    *)
(* end, whether they share them or not.                                    *)
LEMMA UnderWayInductive ==
  ASSUME TypeOK, SnapshotsAreImmutable, ListedIsUnderWay, [Next]_vars
  PROVE  ListedIsUnderWay'
<1> DEFINE Has(w, l) == IF l = "containers" THEN work[w].container ELSE work[w].project
<1>0. \A l \in Lists : listedIds[l] = active[l].ids /\ listedIds'[l] = active'[l].ids
  BY DEF listedIds, Lists, Atomic!Lists
<1>1. ASSUME NEW w \in Workers, Atomic!Ask(w) PROVE ListedIsUnderWay'
  <2>1. /\ stage[w] = "idle" /\ listedIds' = listedIds
        /\ \A v \in Workers \ {w} : stage'[v] = stage[v] /\ work'[v] = work[v]
    BY <1>1 DEF Atomic!Ask, TypeOK
  <2>2. ASSUME NEW l \in Lists, NEW id \in active'[l].ids
        PROVE  \E v \in Workers : stage'[v] \in Marking(l) /\ id = Has(v, l)'
    <3>1. PICK v \in Workers : stage[v] \in Marking(l) /\ id = Has(v, l)
      BY <1>0, <2>1, <2>2 DEF ListedIsUnderWay
    <3>2. v # w
      BY <2>1, <3>1 DEF Marking
    <3> QED BY <2>1, <3>1, <3>2
  <2> QED BY <2>2 DEF ListedIsUnderWay
<1>2. ASSUME NEW w \in Workers, Atomic!Apply(w) PROVE ListedIsUnderWay'
  <2> DEFINE step == stage[w]
  <2>1. /\ work' = work /\ step \in Atomic!Steps /\ stage'[w] = Atomic!After[step]
        /\ \A v \in Workers \ {w} : stage'[v] = stage[v]
    BY <1>2 DEF Atomic!Apply, TypeOK
  <2>2. work[w].container # NoProject
    BY NoProjectAssumption DEF TypeOK, Atomic!Work
  <2>3. Atomic!IdOf(w, step) = Has(w, ListOf[step])
    BY DEF ListOf, Atomic!IdOf
  <2>4. ASSUME NEW l \in Lists, NEW id \in active'[l].ids
        PROVE  \E v \in Workers : stage'[v] \in Marking(l) /\ id = Has(v, l)
    <3>1. CASE id \notin active[l].ids
      <4>1. l = ListOf[step] /\ id = Has(w, l) /\ step \in {"beginContainer", "beginProject"}
        <5>1. l = ListOf[step] /\ active'[l].ids = Atomic!Applied(step, active[l].ids, Has(w, l))
          BY <1>2, <2>3, <2>4, <3>1, IdsAfter
        <5> QED BY <2>1, <2>4, <3>1, <5>1 DEF Atomic!Applied, Atomic!Steps
      <4>2. stage'[w] \in Marking(l)
        BY <2>1, <4>1 DEF ListOf, Atomic!ListOf, Atomic!After, Marking
      <4> QED BY <4>1, <4>2
    <3>2. CASE id \in active[l].ids
      <4>1. PICK v \in Workers : stage[v] \in Marking(l) /\ id = Has(v, l)
        BY <3>2 DEF ListedIsUnderWay
      <4>2. CASE v # w
        BY <2>1, <4>1, <4>2
      <4>3. CASE v = w
        <5>1. step \in {"beginProject", "endProject", "endContainer"} \cap Marking(l)
          BY <2>1, <4>1, <4>3 DEF Marking, Atomic!Steps
        <5>2. CASE l = ListOf[step]
          <6>1. step \in {"endProject", "endContainer"}
            BY <5>1, <5>2 DEF ListOf, Atomic!ListOf, Marking
          <6>2. id # NoProject
            BY <3>2, NoProjectAssumption DEF TypeOK, Snapshots, Ids, Atomic!Ids
          <6>3. ~Unlisted(w)
            BY <2>3, <4>1, <4>3, <5>2, <6>2 DEF Unlisted
          <6>4. id \notin active'[l].ids
            BY <1>2, <2>3, <4>1, <4>3, <5>2, <6>1, <6>3, IdsAfter DEF Atomic!Applied
          <6> QED BY <2>4, <6>4
        <5>3. CASE l # ListOf[step]
          <6>1. stage'[w] \in Marking(l)
            BY <2>1, <5>1, <5>3 DEF ListOf, Atomic!ListOf, Atomic!After, Marking, Lists, Atomic!Lists
          <6> QED BY <4>1, <4>3, <6>1
        <5> QED BY <5>2, <5>3
      <4> QED BY <4>2, <4>3
    <3> QED BY <3>1, <3>2
  <2> QED BY <2>1, <2>4 DEF ListedIsUnderWay
<1>3. ASSUME NEW w \in Workers, Atomic!Finish(w) PROVE ListedIsUnderWay'
  <2>1. /\ listedIds' = listedIds /\ work' = work /\ stage[w] = "updating" /\ stage'[w] = "endProject"
        /\ \A v \in Workers \ {w} : stage'[v] = stage[v]
    BY <1>3 DEF Atomic!Finish, TypeOK
  <2>2. ASSUME NEW l \in Lists, NEW v \in Workers, stage[v] \in Marking(l) PROVE stage'[v] \in Marking(l)
    BY <2>1, <2>2 DEF Marking
  <2> QED BY <1>0, <2>1, <2>2 DEF ListedIsUnderWay
<1>4. CASE UNCHANGED <<stage, work, listedIds>>
  BY <1>0, <1>4 DEF ListedIsUnderWay
<1> QED BY <1>1, <1>2, <1>3, <1>4, AtomicStep DEF Atomic!Next

-----------------------------------------------------------------------------
(* A step of the reader is a stutter of the tracking, so that all that is  *)
(* proved of StatusTracking holds beside calls of Status.                  *)
THEOREM ReadersOnlyRead == ReaderSpec => Spec
<1>1. ReaderInit => Init
  BY DEF ReaderInit
<1>2. [ReaderNext]_allVars => [Next]_vars
  BY DEF ReaderNext, Track, ReadContainers, ReadProjects, allVars
<1> QED BY <1>1, <1>2, PTL DEF ReaderSpec, Spec

(* Every id that is listed is one of an update under way.                  *)
THEOREM NothingStaysListed == Spec => []ListedIsUnderWay
<1>1. Init => ListedIsUnderWay
  BY DEF Init, ListedIsUnderWay
<1> QED BY <1>1, UnderWayInductive, TypeCorrect, Immutability, PTL DEF Spec

LEMMA ListedIsMet ==
  ASSUME TypeOK, ListedIsUnderWay, NEW l \in Lists
  PROVE  active[l].ids \subseteq UnderWay
<1>1. ASSUME NEW id \in active[l].ids PROVE id \in UnderWay
  <2>1. PICK w \in Workers : stage[w] \in Marking(l) /\ id \in {work[w].container, work[w].project}
    BY DEF ListedIsUnderWay
  <2>2. stage[w] # "idle"
    BY <2>1 DEF Marking
  <2>3. id \in Ids
    BY <1>1 DEF TypeOK, Snapshots
  <2> QED BY <2>1, <2>2, <2>3 DEF UnderWay
<1> QED BY <1>1

(* What a call of Status that has made its first load knows already.       *)
HalfRead ==
  reader.pc = "between" =>
    /\ \A w \in throughout : stage[w] = "updating" /\ work[w].container \in reader.containers
    /\ reader.containers \subseteq meanwhile
    /\ UnderWay \subseteq meanwhile

THEOREM ReaderTypeCorrect == ReaderSpec => []ReaderTypeOK
<1>1. ReaderInit => ReaderTypeOK
  <2> SUFFICES ASSUME ReaderInit PROVE ReaderTypeOK
    OBVIOUS
  <2>1. TypeOK
    BY BoundAssumption DEF ReaderInit, Init, TypeOK, Lists, Snapshots, NotLoaded, Atomic!Lists, Atomic!Stages,
                           Atomic!Work
  <2> QED BY <2>1 DEF ReaderInit, ReaderTypeOK, Reader, NoCall
<1>2. ReaderTypeOK /\ TypeOK' /\ [ReaderNext]_allVars => ReaderTypeOK'
  <2> SUFFICES ASSUME ReaderTypeOK, TypeOK', [ReaderNext]_allVars PROVE ReaderTypeOK'
    OBVIOUS
  <2> USE DEF ReaderTypeOK, Reader
  <2>1. CASE Track
    <3>1. UnderWay' \subseteq Ids
      BY DEF UnderWay, Ids, Atomic!Ids
    <3> QED BY <2>1, <3>1 DEF Track, NoCall
  <2>2. CASE ReadContainers
    <3>1. active["containers"].ids \subseteq Ids
      BY DEF TypeOK, Lists, Atomic!Lists, Snapshots
    <3>2. UnderWay \subseteq Ids /\ Updating \subseteq Workers
      BY DEF Updating, UnderWay
    <3> QED BY <2>2, <3>1, <3>2 DEF ReadContainers
  <2>3. CASE ReadProjects
    <3>1. active["projects"].ids \subseteq Ids
      BY DEF TypeOK, Lists, Atomic!Lists, Snapshots
    <3> QED BY <2>3, <3>1 DEF ReadProjects
  <2>4. CASE UNCHANGED allVars
    BY <2>4 DEF allVars, readerVars
  <2> QED BY <2>1, <2>2, <2>3, <2>4 DEF ReaderNext
<1>3. ReaderSpec => []TypeOK
  BY ReadersOnlyRead, TypeCorrect, PTL
<1> QED BY <1>1, <1>2, <1>3, PTL DEF ReaderSpec

(* A Status has every container whose update was under way all through the *)
(* call, and none whose update was not under way in the call.              *)
THEOREM StatusIsCurrentHolds ==
  ASSUME OwnContainersOnly
  PROVE  ReaderSpec => []StatusIsCurrent
<1>1. ReaderInit => HalfRead /\ StatusIsCurrent
  BY DEF ReaderInit, HalfRead, StatusIsCurrent, NoCall
<1>2. TypeOK /\ ListedIsUnderWay /\ UpdatingIsListed /\ ReaderTypeOK /\ HalfRead /\ StatusIsCurrent
        /\ [ReaderNext]_allVars => HalfRead' /\ StatusIsCurrent'
  <2> SUFFICES ASSUME TypeOK, ListedIsUnderWay, UpdatingIsListed, ReaderTypeOK, HalfRead, StatusIsCurrent,
                      [ReaderNext]_allVars
               PROVE  HalfRead' /\ StatusIsCurrent'
    OBVIOUS
  <2>1. CASE Track
    <3>1. CASE reader.pc = "between"
      <4>1. /\ reader' = reader /\ throughout' = throughout \cap Updating'
            /\ meanwhile' = meanwhile \cup UnderWay'
        BY <2>1, <3>1 DEF Track
      <4>2. ASSUME NEW w \in throughout' PROVE stage'[w] = "updating" /\ work'[w].container \in reader'.containers
        <5>1. w \in Workers /\ stage[w] = "updating" /\ stage'[w] = "updating"
              /\ work[w].container \in reader.containers
          BY <3>1, <4>1, <4>2 DEF HalfRead, Updating
        <5>2. work'[w] = work[w]
          <6>1. CASE \E v \in Workers : Ask(v)
            BY <5>1, <6>1 DEF Ask, TypeOK
          <6>2. CASE ~\E v \in Workers : Ask(v)
            BY <2>1, <6>2 DEF Track, Next, Proceed, SkipEmptyId, Load, CompareAndSwap, Finish
          <6> QED BY <6>1, <6>2
        <5> QED BY <4>1, <5>1, <5>2
      <4> QED BY <3>1, <4>1, <4>2 DEF HalfRead, StatusIsCurrent
    <3>2. CASE reader.pc # "between"
      BY <2>1, <3>2 DEF Track, NoCall, HalfRead, StatusIsCurrent
    <3> QED BY <3>1, <3>2
  <2>2. CASE ReadContainers
    <3>1. active["containers"].ids \subseteq UnderWay
      BY ListedIsMet DEF Lists, Atomic!Lists
    <3>2. UNCHANGED vars /\ throughout' = Updating /\ meanwhile' = UnderWay
          /\ reader'.pc = "between" /\ reader'.containers = active["containers"].ids
      BY <2>2 DEF ReadContainers, ReaderTypeOK, Reader
    <3>3. UnderWay' = UnderWay
      BY <3>2 DEF vars, UnderWay
    <3> QED BY <3>1, <3>2, <3>3 DEF HalfRead, StatusIsCurrent, vars, Updating, UpdatingIsListed
  <2>3. CASE ReadProjects
    <3>1. active["projects"].ids \subseteq UnderWay
      BY ListedIsMet DEF Lists, Atomic!Lists
    <3>2. /\ UNCHANGED <<vars, throughout, meanwhile>> /\ reader.pc = "between"
          /\ reader'.pc = "returned" /\ reader'.containers = reader.containers
          /\ reader'.projects = active["projects"].ids
      BY <2>3 DEF ReadProjects, ReaderTypeOK, Reader
    <3> QED BY <3>1, <3>2 DEF HalfRead, StatusIsCurrent, vars
  <2>4. CASE UNCHANGED allVars
    <3>1. UnderWay' = UnderWay
      BY <2>4 DEF UnderWay, allVars, vars
    <3> QED BY <2>4, <3>1 DEF allVars, readerVars, vars, HalfRead, StatusIsCurrent
  <2> QED BY <2>1, <2>2, <2>3, <2>4 DEF ReaderNext
<1>3. ReaderSpec => [](TypeOK /\ ListedIsUnderWay /\ UpdatingIsListed)
  BY ReadersOnlyRead, TypeCorrect, NothingStaysListed, UpdatingIsListedHolds, PTL
<1> QED BY <1>1, <1>2, <1>3, ReaderTypeCorrect, PTL DEF ReaderSpec
=============================================================================
