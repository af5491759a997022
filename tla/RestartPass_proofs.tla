-------------------------- MODULE RestartPass_proofs --------------------------
(***************************************************************************)
(* The results of a restart pass are true, and its order is kept, for any  *)
(* candidates, projects and plans, and any faults.                         *)
(***************************************************************************)
EXTENDS RestartPass, FiniteSetTheorems, TLAPS

LEMMA OrderFacts ==
  /\ Len(Order) \in Nat /\ Order \in Seq(Names)
  /\ \A k \in 1..Len(Order) : Order[k] \in Names
  /\ \A n \in Names : \E k \in 1..Len(Order) : Order[k] = n
  /\ IsFiniteSet(Names)
<1>1. Len(Order) \in Nat /\ Order \in Seq(Names)
  BY OrderAssumption
<1>2. \A k \in 1..Len(Order) : Order[k] \in Names
  BY DEF Names
<1>3. \A n \in Names : \E k \in 1..Len(Order) : Order[k] = n
  BY DEF Names
<1>4. IsFiniteSet(Names)
  <2> DEFINE f == [k \in 1..Len(Order) |-> Order[k]]
  <2>1. f \in Surjection(1..Len(Order), Names)
    BY <1>2, <1>3 DEF Surjection
  <2>2. IsFiniteSet(1..Len(Order))
    BY <1>1, FS_Interval
  <2> QED BY <2>1, <2>2, FS_Surjection
<1> QED BY <1>1, <1>2, <1>3, <1>4

LEMMA NewImageTyped == \A n : NewImage(n) \in {"old", "new"}
BY DEF NewImage

LEMMA ComposeImagesTyped ==
  ASSUME NEW services, NEW i \in ComposeImages(services)
  PROVE  /\ i \in [Names -> {"old", "new"}]
         /\ \A m \in Names \ services : i[m] = image[m]
         /\ \A m \in Names \cap services : plan[m] = "explicit" => i[m] = "new"
BY DEF ComposeImages, FromFiles

-----------------------------------------------------------------------------
(* The inductive invariants.                                               *)

(* The queues are no longer than what has been dispatched, and the loops   *)
(* stay within them.                                                       *)
Lengths ==
  /\ phase = "group" => at = 1 /\ standalone = <<>> /\ self = <<>>
  /\ phase = "dispatch" => at \in 1..(Len(Order) + 1)
  /\ phase = "verify" => at \in 1..Len(Order)
  /\ phase \in {"dispatch", "verify"} => Len(standalone) < at /\ Len(self) < at
  /\ Len(standalone) <= Len(Order) /\ Len(self) <= Len(Order)
  /\ phase = "stop" => at \in 0..Len(standalone)
  /\ phase = "create" => at \in 1..(Len(standalone) + 1)
  /\ phase = "trigger" => at \in 1..(Len(self) + 1)

Dispatched(n) == \E k \in 1..Len(Order) : k < at /\ Order[k] = n

(* What the candidates are: fixed in a pass.                               *)
Fixed == Ordered /\ \A m, n \in Names : Hosting(m) /\ Hosting(n) => m = n

Grouped ==
  /\ \A p \in Projects : \A n \in groups[p] : project[n] = p /\ plan[n] # "none" /\ ~Labelled(n)
  /\ phase = "group" => processed = {} /\ \A p \in Projects : groups[p] = {}
  /\ phase = "verify" => /\ ~SelfUpdate(Order[at]) /\ Served(Order[at])
                         /\ project[Order[at]] \in processed
                         /\ plan[Order[at]] # "none" /\ Order[at] \in inspected

(* What is queued, once each, and in order.                                *)
Queues ==
  /\ \A i \in 1..Len(standalone) :
       ~SelfUpdate(standalone[i]) /\ ~Served(standalone[i]) /\ plan[standalone[i]] # "none"
  /\ \A i \in 1..Len(self) : SelfUpdate(self[i])
  /\ \A i, j \in 1..Len(standalone) : standalone[i] = standalone[j] => i = j
  /\ \A i, j \in 1..Len(self) : self[i] = self[j] => i = j
  /\ \A i, j \in 1..Len(self) : i < j => Rank(self[i]) <= Rank(self[j])
  /\ phase \in {"dispatch", "verify"} =>
       /\ \A i \in 1..Len(standalone) : Dispatched(standalone[i])
       /\ \A i \in 1..Len(self) : Dispatched(self[i])

Triggers ==
  /\ \A n \in recreated : ~Labelled(n)
  /\ \A n \in Names : Labelled(n) /\ result[n] = "Updated" =>
       /\ phase \in {"trigger", "done", "killed"}
       /\ phase = "trigger" => \E i \in 1..Len(self) : i < at /\ self[i] = n
  /\ phase \in {"trigger", "done"} => \A i \in 1..Len(self) :
       i < at => result[self[i]] \in {"Updated", "Failed"}
  /\ phase = "done" => at > Len(self)
  /\ \A n \in Names : phase = "killed" /\ role[n] = "server" =>
       \A i \in 1..Len(self) : result[self[i]] # "Checked"

(* Standalone containers are down from the backward loop to the forward    *)
(* one, unless something failed.                                           *)
Down(n) == state[n] = "removed" /\ result[n] = "Checked"
Up(n)   == state[n] = "running" /\ result[n] = "Checked"
Back(n) == state[n] = "running" /\ result[n] # "Checked"
Refused(n) == result[n] = "Failed"

Stands ==
  /\ phase \in {"group", "dispatch", "verify"} => \A n \in Names : ~Served(n) => state[n] = "running"
  /\ phase \in {"dispatch", "verify"} => \A i \in 1..Len(standalone) : Up(standalone[i])
  /\ phase = "stop" => \A i \in 1..Len(standalone) :
       IF i <= at THEN Up(standalone[i]) ELSE Down(standalone[i]) \/ Refused(standalone[i])
  /\ phase = "create" => \A i \in 1..Len(standalone) :
       Refused(standalone[i]) \/ IF i < at THEN Back(standalone[i]) ELSE Down(standalone[i])
  /\ phase \in {"trigger", "done"} => \A i \in 1..Len(standalone) :
       Refused(standalone[i]) \/ Back(standalone[i])

(* Who has a result, and who is queued for one.                            *)
HasResult(n) ==
  /\ phase = "group" => result[n] = "none"
  /\ phase \in {"dispatch", "verify"} => (result[n] = "none" <=> ~Dispatched(n))
  /\ phase \in {"stop", "create", "trigger", "done", "killed"} => result[n] # "none"
  /\ SelfUpdate(n) /\ result[n] = "Checked" => \E i \in 1..Len(self) : self[i] = n
  /\ ~SelfUpdate(n) /\ result[n] = "Checked" =>
       /\ phase \notin {"trigger", "done", "killed"}
       /\ \E i \in 1..Len(standalone) : standalone[i] = n

(* What a result says.                                                     *)
Honest(n) ==
  /\ phase \in {"group", "dispatch", "verify"} /\ ~(Served(n) /\ project[n] \in processed) =>
       state[n] = "running"
  /\ plan[n] = "none" => state[n] = "running"
  /\ ~SelfUpdate(n) =>
       /\ result[n] = "Skipped" => plan[n] = "none"
       /\ result[n] = "Updated" => state[n] = "running" /\ image[n] = "new"
       /\ result[n] = "Restarted" => state[n] = "running" /\ n \in recreated
       /\ result[n] \in {"Updated", "Restarted"} /\ phase \in {"dispatch", "verify"} =>
            Served(n) /\ project[n] \in processed

(* What it is when nothing fails.                                          *)
Smooth(n) ==
  faults = 0 =>
    /\ n \in inspected
    /\ phase # "group" /\ Served(n) /\ plan[n] # "none" /\ ~SelfUpdate(n) => n \in groups[project[n]]
    /\ Served(n) /\ plan[n] # "none" /\ ~SelfUpdate(n) /\ project[n] \in processed =>
         /\ state[n] = "running" /\ n \in recreated
         /\ plan[n] = "explicit" => image[n] = "new"
    /\ ~SelfUpdate(n) /\ result[n] = "Failed" =>
         Served(n) /\ project[n] \in processed /\ n \in recreated /\ image[n] = "old"
    /\ plan[n] = "explicit" => result[n] \in {"none", "Checked", "Updated"}
    /\ plan[n] = "retagged" /\ ~Served(n) /\ ~SelfUpdate(n) =>
         result[n] \in {"none", "Checked", "Updated"}
    /\ plan[n] = "implicit" /\ ~Served(n) /\ ~SelfUpdate(n) =>
         result[n] \in {"none", "Checked", "Restarted"}

True(n) == HasResult(n) /\ Honest(n) /\ Smooth(n)
AllTrue == \A n \in Names : True(n)
Standing == Stands /\ NoDependentWithoutDependency

-----------------------------------------------------------------------------
LEMMA FaultsTyped == TypeOK /\ (Faulty \/ Faultless) => faults' \in 0..MaxFaults
BY MaxFaultsAssumption DEF TypeOK, Faulty, Faultless

LEMMA TypeStep ==
  ASSUME TypeOK, Lengths, [Next]_vars
  PROVE  TypeOK' /\ Lengths'
<1>1. /\ Len(Order) \in Nat /\ at \in Nat /\ faults \in Nat /\ MaxFaults \in Nat
      /\ Len(standalone) \in Nat /\ Len(self) \in Nat
      /\ \A i \in 1..Len(standalone) : standalone[i] \in Names
      /\ \A i \in 1..Len(self) : self[i] \in Names
  BY OrderFacts, MaxFaultsAssumption DEF TypeOK
<1>2. CASE BuildGroups
  <2>1. groups' \in [Projects -> SUBSET Names]
    BY <1>2 DEF BuildGroups, TypeOK
  <2>2. faults' \in 0..MaxFaults
    BY <1>2, FaultsTyped DEF BuildGroups
  <2> QED BY <1>1, <1>2, <2>1, <2>2, OrderFacts DEF BuildGroups, TypeOK, Lengths, candidates, world, queues
<1>3. ASSUME NEW n \in Names, LateInspect(n) PROVE TypeOK' /\ Lengths'
  <2>1. result' \in [Names -> Statuses] /\ inspected' \subseteq Names
    BY <1>3 DEF LateInspect, TypeOK, SetResult, Statuses
  <2>2. faults' \in 0..MaxFaults
    BY <1>1, <1>3, FaultsTyped DEF LateInspect
  <2> QED BY <1>1, <1>3, <2>1, <2>2 DEF LateInspect, Dispatching, TypeOK, Lengths, candidates, world, compose, queues
<1>4. ASSUME NEW n \in Names, SkipUnmatched(n) PROVE TypeOK' /\ Lengths'
  BY <1>1, <1>4 DEF SkipUnmatched, Dispatching, TypeOK, Lengths, candidates, world, compose, queues,
                    SetResult, Statuses
<1>5. ASSUME NEW n \in Names, UpdateProject(n) PROVE TypeOK' /\ Lengths'
  <2>1. project[n] \in Projects /\ faults' \in 0..MaxFaults
    BY <1>1, <1>5 DEF UpdateProject, Routable, Served, TypeOK, Faulty, Faultless
  <2>2. groups[project[n]] \subseteq Names
    BY <2>1 DEF TypeOK
  <2>3. /\ state' \in [Names -> {"running", "stopped", "removed"}] /\ image' \in [Names -> {"old", "new"}]
        /\ recreated' \subseteq Names
    BY <1>5, <2>2, ComposeImagesTyped DEF UpdateProject, TypeOK, world
  <2>4. processed' \subseteq Projects /\ projectErrors' \subseteq processed'
    BY <1>5, <2>1 DEF UpdateProject, TypeOK
  <2>5. phase = "dispatch" /\ phase' = "verify" /\ UNCHANGED <<candidates, inspected, at, groups, queues, result>>
        /\ at <= Len(Order)
    BY <1>5 DEF UpdateProject, Routable, Dispatching
  <2> QED BY <1>1, <2>1, <2>3, <2>4, <2>5 DEF TypeOK, Lengths, candidates, queues
<1>6. ASSUME NEW n \in Names, VerifyService(n) PROVE TypeOK' /\ Lengths'
  <2>1. result' \in [Names -> Statuses] /\ faults' \in 0..MaxFaults
    BY <1>1, <1>6 DEF VerifyService, TypeOK, Faulty, Faultless, SetResult, Statuses
  <2> QED BY <1>1, <1>6, <2>1 DEF VerifyService, TypeOK, Lengths, candidates, world, compose, queues
<1>7. ASSUME NEW n \in Names, Defer(n) PROVE TypeOK' /\ Lengths'
  <2>1. result' \in [Names -> Statuses]
    BY <1>7 DEF Defer, TypeOK, SetResult, Statuses
  <2>2. /\ standalone' \in Seq(Names) /\ self' \in Seq(Names)
        /\ Len(standalone') <= Len(standalone) + 1 /\ Len(self') <= Len(self) + 1
        /\ Len(standalone') \in Nat /\ Len(self') \in Nat
    <3>1. standalone \in Seq(Names) /\ self \in Seq(Names)
      BY DEF TypeOK
    <3>2. CASE self' = Append(self, n) /\ standalone' = standalone
      BY <1>1, <3>1, <3>2
    <3>3. CASE standalone' = Append(standalone, n) /\ self' = self
      BY <1>1, <3>1, <3>3
    <3> QED BY <1>7, <3>2, <3>3 DEF Defer
  <2> QED BY <1>1, <1>7, <2>1, <2>2 DEF Defer, Routable, Dispatching, TypeOK, Lengths, candidates, world, compose
<1>8. CASE EndDispatch
  BY <1>1, <1>8 DEF EndDispatch, TypeOK, Lengths, candidates, world, compose, queues
<1>9. CASE Stop
  <2>1. standalone[at] \in Names
    BY <1>1, <1>9 DEF Stop, Lengths
  <2>2. state' \in [Names -> {"running", "stopped", "removed"}] /\ result' \in [Names -> Statuses]
    <3> DEFINE n == standalone[at]
    <3>1. StopRemove(n)
      BY <1>9 DEF Stop
    <3> HIDE DEF n
    <3> QED BY <3>1 DEF StopRemove, TypeOK, SetResult, Statuses
  <2>3. faults' \in 0..MaxFaults
    BY <1>9, FaultsTyped DEF Stop, StopRemove
  <2> QED BY <1>1, <1>9, <2>2, <2>3 DEF Stop, TypeOK, Lengths, candidates, compose, queues
<1>10. CASE EndStop
  BY <1>1, <1>10 DEF EndStop, TypeOK, Lengths, candidates, world, compose, queues
<1>11. CASE Create
  <2>1. standalone[at] \in Names
    BY <1>1, <1>11 DEF Create, Lengths
  <2>2. /\ state' \in [Names -> {"running", "stopped", "removed"}] /\ result' \in [Names -> Statuses]
        /\ image' \in [Names -> {"old", "new"}] /\ recreated' \subseteq Names
    <3> DEFINE n == standalone[at]
    <3>1. /\ \/ state' = state
             \/ \E st \in {"running", "stopped", "removed"} : state' = [state EXCEPT ![n] = st]
          /\ image' = image \/ \E i \in {image[n], NewImage(n)} : image' = [image EXCEPT ![n] = i]
          /\ recreated' = recreated \/ recreated' = recreated \cup {n}
          /\ result' = result \/ \E status \in {"Updated", "Restarted", "Failed"} : SetResult(n, status)
      BY <1>11 DEF Create, world
    <3>2. n \in Names
      BY <2>1
    <3> HIDE DEF n
    <3>3. state' \in [Names -> {"running", "stopped", "removed"}]
      BY <3>1, <3>2 DEF TypeOK
    <3>4. image' \in [Names -> {"old", "new"}]
      BY <3>1, <3>2, NewImageTyped DEF TypeOK
    <3>5. result' \in [Names -> Statuses]
      BY <3>1, <3>2 DEF TypeOK, SetResult, Statuses
    <3>6. recreated' \subseteq Names
      BY <3>1, <3>2 DEF TypeOK
    <3> QED BY <3>3, <3>4, <3>5, <3>6
  <2>3. faults' \in 0..MaxFaults
    <3>1. Faulty \/ UNCHANGED faults
      BY <1>11 DEF Create, Faultless
    <3> QED BY <3>1, FaultsTyped DEF Faultless
  <2> QED BY <1>1, <1>11, <2>2, <2>3 DEF Create, TypeOK, Lengths, candidates, compose, queues
<1>12. CASE EndCreate
  BY <1>1, <1>12 DEF EndCreate, TypeOK, Lengths, candidates, world, compose, queues
<1>13. CASE Trigger
  <2>1. self[at] \in Names
    BY <1>1, <1>13 DEF Trigger, Lengths
  <2>2. result' \in [Names -> Statuses] /\ faults' \in 0..MaxFaults
    BY <1>1, <1>13, <2>1 DEF Trigger, TypeOK, Faulty, Faultless, SetResult, Statuses
  <2> QED BY <1>1, <1>13, <2>2 DEF Trigger, TypeOK, Lengths, candidates, world, compose, queues
<1>14. CASE EndTrigger \/ Killed
  BY <1>1, <1>14 DEF EndTrigger, Killed, TypeOK, Lengths, candidates, world, compose, queues
<1>15. CASE UNCHANGED vars
  BY <1>15 DEF vars, TypeOK, Lengths, candidates, world, compose, queues
<1> QED BY <1>2, <1>3, <1>4, <1>5, <1>6, <1>7, <1>8, <1>9, <1>10, <1>11, <1>12, <1>13, <1>14, <1>15 DEF Next

LEMMA InitFacts ==
  ASSUME Init
  PROVE  TypeOK /\ Lengths /\ Fixed
<1>1. faults \in 0..MaxFaults
  <2>1. IsFiniteSet(Names \ inspected)
    BY OrderFacts, FS_Subset
  <2> QED BY <2>1, FS_CardinalityType, MaxFaultsAssumption DEF Init
<1>2. TypeOK
  BY <1>1, OrderFacts DEF Init, TypeOK, Statuses
<1>3. \A m, n \in Names : Hosting(m) /\ Hosting(n) => m = n
  <2> DEFINE H == {n \in Names : Hosting(n)}
  <2> SUFFICES ASSUME NEW m \in H, NEW n \in H, m # n PROVE FALSE
    OBVIOUS
  <2>1. IsFiniteSet(H) /\ Cardinality(H) \in Nat /\ Cardinality(H) <= 1
    BY OrderFacts, FS_Subset, FS_CardinalityType DEF Init
  <2>2. IsFiniteSet({m}) /\ Cardinality({m}) = 1
    BY FS_Singleton
  <2>3. Cardinality({m} \cup {n}) = 2
    BY <2>2, FS_AddElement
  <2>4. {m} \cup {n} \in SUBSET H
    OBVIOUS
  <2>5. Cardinality({m} \cup {n}) <= Cardinality(H)
    BY <2>1, <2>4, FS_Subset
  <2> QED BY <2>1, <2>3, <2>5
<1> QED BY <1>2, <1>3, OrderFacts DEF Init, Lengths, Fixed

-----------------------------------------------------------------------------
(* The candidates stay what they are, and the groups are made once.        *)
LEMMA GroupedStep ==
  ASSUME TypeOK, Lengths, Grouped, [Next]_vars
  PROVE  Grouped'
<1>1. \A n \in Names : /\ SelfUpdate(n) <=> SelfUpdate(n)'
                       /\ Labelled(n) <=> Labelled(n)'
  <2>1. UNCHANGED role
    BY DEF Next, vars, candidates, BuildGroups, LateInspect, SkipUnmatched, UpdateProject, VerifyService, Defer,
           EndDispatch, Stop, EndStop, Create, EndCreate, Trigger, EndTrigger, Killed
  <2> QED BY <2>1 DEF SelfUpdate, Labelled
<1>2. CASE BuildGroups
  <2>1. PICK known \in SUBSET Projects, missed \in SUBSET {n \in Names : Eligible(n)} :
          groups' = [p \in Projects |->
            IF p \in known THEN {n \in Names : Eligible(n) /\ project[n] = p} \ missed ELSE {}]
    BY <1>2 DEF BuildGroups
  <2>2. ASSUME NEW p \in Projects, NEW n \in groups'[p]
        PROVE  project[n] = p /\ plan[n] # "none" /\ ~Labelled(n)
    BY <2>1, <2>2 DEF Eligible
  <2>3. UNCHANGED <<plan, project, role>> /\ phase' = "dispatch"
    BY <1>2 DEF BuildGroups, candidates
  <2> QED BY <2>2, <2>3 DEF Grouped, Labelled
<1>3. ASSUME NEW n \in Names, UpdateProject(n) PROVE Grouped'
  <2>1. /\ UNCHANGED <<plan, project, role, inspected, at, groups>> /\ phase' = "verify"
        /\ n = Order[at] /\ Served(n) /\ ~SelfUpdate(n) /\ plan[n] # "none" /\ n \in inspected
        /\ project[n] \in processed'
    BY <1>3 DEF UpdateProject, Routable, Dispatching, candidates
  <2> QED BY <2>1 DEF Grouped, Labelled, SelfUpdate, Served
<1>4. CASE UNCHANGED <<plan, project, role, groups>> /\ phase # "group" /\ phase' \notin {"group", "verify"}
  BY <1>4 DEF Grouped, Labelled
<1>5. CASE UNCHANGED vars
  BY <1>5 DEF vars, candidates, compose, Grouped, Labelled, SelfUpdate, Served
<1>6. ASSUME NEW n \in Names, LateInspect(n) \/ SkipUnmatched(n) \/ VerifyService(n) \/ Defer(n)
      PROVE  Grouped'
  <2>1. UNCHANGED <<plan, project, role, groups>> /\ phase # "group" /\ phase' \notin {"group", "verify"}
    BY <1>6 DEF LateInspect, SkipUnmatched, VerifyService, Defer, Routable, Dispatching, candidates, compose
  <2> QED BY <1>4, <2>1
<1>7. CASE EndDispatch \/ Stop \/ EndStop \/ Create \/ EndCreate \/ Trigger \/ EndTrigger
  <2>1. UNCHANGED <<plan, project, role, groups>> /\ phase # "group" /\ phase' \notin {"group", "verify"}
    BY <1>7 DEF EndDispatch, Stop, EndStop, Create, EndCreate, Trigger, EndTrigger, candidates, compose
  <2> QED BY <1>4, <2>1
<1>8. CASE Killed
  BY <1>8 DEF Killed, Grouped, candidates, compose, Labelled
<1> QED BY <1>2, <1>3, <1>5, <1>6, <1>7, <1>8 DEF Next

LEMMA FixedStep ==
  ASSUME Fixed, [Next]_vars
  PROVE  Fixed' /\ UNCHANGED candidates
<1>1. UNCHANGED candidates
  BY DEF Next, vars, BuildGroups, LateInspect, SkipUnmatched, UpdateProject, VerifyService, Defer,
         EndDispatch, Stop, EndStop, Create, EndCreate, Trigger, EndTrigger, Killed
<1> QED BY <1>1 DEF Fixed, Ordered, Rank, Hosting, candidates

(* The queues change by Defer only.                                        *)
LEMMA QueuesStep ==
  ASSUME TypeOK, Lengths, Fixed, Queues, [Next]_vars
  PROVE  Queues'
<1>1. UNCHANGED <<plan, project, role>>
  BY FixedStep DEF candidates
<1>2. \A n : /\ SelfUpdate(n)' <=> SelfUpdate(n)
             /\ Rank(n)' = Rank(n)
  BY <1>1 DEF SelfUpdate, Rank
<1>3. /\ Len(Order) \in Nat /\ at \in Nat /\ Len(standalone) \in Nat /\ Len(self) \in Nat
      /\ standalone \in Seq(Names) /\ self \in Seq(Names)
  BY OrderFacts DEF TypeOK
<1>4. CASE BuildGroups
  <2>1. standalone = <<>> /\ self = <<>> /\ UNCHANGED <<standalone, self>>
    BY <1>4 DEF BuildGroups, queues, Lengths
  <2> QED BY <2>1 DEF Queues
<1>5. ASSUME UNCHANGED <<groups, standalone, self>>, phase # "group",
             phase' \in {"dispatch", "verify"} => phase \in {"dispatch", "verify"} /\ at' \in {at, at + 1}
      PROVE  Queues'
  <2>1. \A n : Served(n)' <=> Served(n)
    BY <1>1, <1>5 DEF Served
  <2>2. phase' \in {"dispatch", "verify"} => \A n : Dispatched(n) => Dispatched(n)'
    BY <1>3, <1>5 DEF Dispatched
  <2> QED BY <1>1, <1>2, <1>5, <2>1, <2>2 DEF Queues
<1>6. ASSUME NEW n \in Names, Defer(n) PROVE Queues'
  <2> DEFINE Next1(m) == \E k \in 1..Len(Order) : k < at' /\ Order[k] = m
  <2>1. /\ at' = at + 1 /\ phase' = phase /\ phase = "dispatch" /\ at \in 1..Len(Order) /\ n = Order[at]
        /\ UNCHANGED groups /\ plan[n] # "none"
    BY <1>3, <1>6 DEF Defer, Routable, Dispatching, compose, Lengths
  <2>2. \A m : Served(m)' <=> Served(m)
    BY <1>1, <2>1 DEF Served
  <2>3. ~Dispatched(n)
    BY <1>3, <2>1, OrderAssumption DEF Dispatched
  <2>4. \A m : Dispatched(m) => Rank(m) <= Rank(n)
    BY <1>3, <2>1 DEF Dispatched, Fixed, Ordered
  <2>5. Next1(n) /\ \A m : Dispatched(m) => Next1(m)
    BY <1>3, <2>1 DEF Dispatched
  <2>6. \A m : Rank(m) \in Nat /\ Rank(m) <= Rank(m)
    BY DEF Rank
  <2>7. /\ \A i \in 1..Len(standalone) : Dispatched(standalone[i])
        /\ \A i \in 1..Len(self) : Dispatched(self[i])
    BY <2>1 DEF Queues
  <2>8. ASSUME \A i \in 1..Len(standalone') : Next1(standalone'[i]),
               \A i \in 1..Len(self') : Next1(self'[i]),
               \A i \in 1..Len(standalone') :
                  /\ ~SelfUpdate(standalone'[i]) /\ ~Served(standalone'[i])
                  /\ plan[standalone'[i]] # "none",
               \A i \in 1..Len(self') : SelfUpdate(self'[i]),
               \A i, j \in 1..Len(standalone') : standalone'[i] = standalone'[j] => i = j,
               \A i, j \in 1..Len(self') : self'[i] = self'[j] => i = j,
               \A i, j \in 1..Len(self') : i < j => Rank(self'[i]) <= Rank(self'[j])
        PROVE  Queues'
    <3>1. /\ \A i \in 1..Len(standalone') : Dispatched(standalone[i])'
          /\ \A i \in 1..Len(self') : Dispatched(self[i])'
      BY <2>8 DEF Dispatched
    <3> QED BY <1>1, <1>2, <2>2, <2>8, <3>1 DEF Queues
  <2> HIDE DEF Next1
  <2>9. CASE self' = Append(self, n) /\ standalone' = standalone /\ SelfUpdate(n)
    <3>1. /\ Len(self') = Len(self) + 1 /\ self'[Len(self) + 1] = n
          /\ \A i \in 1..Len(self) : self'[i] = self[i]
      BY <1>3, <2>9
    <3>2. \A i \in 1..Len(self) : Dispatched(self[i]) /\ self[i] # n
      BY <2>3, <2>7
    <3>3. \A i \in 1..Len(self') : SelfUpdate(self'[i]) /\ Next1(self'[i])
      BY <1>3, <2>5, <2>9, <3>1, <3>2 DEF Queues
    <3>4. \A i, j \in 1..Len(self') : self'[i] = self'[j] => i = j
      BY <1>3, <3>1, <3>2 DEF Queues
    <3>5. \A i, j \in 1..Len(self') : i < j => Rank(self'[i]) <= Rank(self'[j])
      BY <1>3, <2>4, <3>1, <3>2 DEF Queues
    <3>6. \A i \in 1..Len(standalone') : Next1(standalone'[i])
      BY <2>5, <2>7, <2>9
    <3>7. \A i \in 1..Len(standalone') : /\ ~SelfUpdate(standalone'[i]) /\ ~Served(standalone'[i])
                                         /\ plan[standalone'[i]] # "none"
      BY <2>9 DEF Queues
    <3>8. \A i, j \in 1..Len(standalone') : standalone'[i] = standalone'[j] => i = j
      BY <2>9 DEF Queues
    <3> QED BY <2>8, <3>3, <3>4, <3>5, <3>6, <3>7, <3>8
  <2>10. CASE standalone' = Append(standalone, n) /\ self' = self /\ ~SelfUpdate(n) /\ ~Served(n)
    <3>1. /\ Len(standalone') = Len(standalone) + 1 /\ standalone'[Len(standalone) + 1] = n
          /\ \A i \in 1..Len(standalone) : standalone'[i] = standalone[i]
      BY <1>3, <2>10
    <3>2. \A i \in 1..Len(standalone) : Dispatched(standalone[i]) /\ standalone[i] # n
      BY <2>3, <2>7
    <3>3. \A i \in 1..Len(standalone') : /\ ~SelfUpdate(standalone'[i]) /\ ~Served(standalone'[i])
                                         /\ plan[standalone'[i]] # "none"
      BY <1>3, <2>1, <2>10, <3>1 DEF Queues
    <3>4. \A i \in 1..Len(standalone') : Next1(standalone'[i])
      BY <1>3, <2>5, <3>1, <3>2
    <3>5. \A i, j \in 1..Len(standalone') : standalone'[i] = standalone'[j] => i = j
      BY <1>3, <3>1, <3>2 DEF Queues
    <3>6. \A i \in 1..Len(self') : SelfUpdate(self'[i]) /\ Next1(self'[i])
      BY <2>5, <2>7, <2>10 DEF Queues
    <3>7. /\ \A i, j \in 1..Len(self') : self'[i] = self'[j] => i = j
          /\ \A i, j \in 1..Len(self') : i < j => Rank(self'[i]) <= Rank(self'[j])
      BY <2>10 DEF Queues
    <3> QED BY <2>8, <3>3, <3>4, <3>5, <3>6, <3>7
  <2> QED BY <1>6, <2>9, <2>10 DEF Defer
<1>7. ASSUME NEW n \in Names, LateInspect(n) \/ SkipUnmatched(n) \/ UpdateProject(n) \/ VerifyService(n)
      PROVE  Queues'
  <2>1. /\ UNCHANGED <<groups, standalone, self>> /\ phase \in {"dispatch", "verify"} /\ at' \in {at, at + 1}
    BY <1>7 DEF LateInspect, SkipUnmatched, UpdateProject, VerifyService, Routable, Dispatching, queues, compose
  <2> QED BY <1>5, <2>1
<1>8. CASE EndDispatch \/ Stop \/ EndStop \/ Create \/ EndCreate \/ Trigger \/ EndTrigger
  <2>1. UNCHANGED <<groups, standalone, self>> /\ phase # "group" /\ phase' \notin {"dispatch", "verify"}
    BY <1>8 DEF EndDispatch, Stop, EndStop, Create, EndCreate, Trigger, EndTrigger, queues, compose
  <2> QED BY <1>5, <2>1
<1>9. CASE Killed \/ UNCHANGED vars
  <2>1. UNCHANGED <<groups, standalone, self, at>> /\ (phase' = "killed" \/ phase' = phase)
    BY <1>9 DEF Killed, vars, queues, compose
  <2>2. CASE phase = "group"
    <3>1. standalone' = <<>> /\ self' = <<>>
      BY <2>1, <2>2 DEF Lengths
    <3> QED BY <3>1 DEF Queues
  <2>3. CASE phase # "group"
    BY <1>5, <2>1, <2>3
  <2> QED BY <2>2, <2>3
<1> QED BY <1>4, <1>6, <1>7, <1>8, <1>9 DEF Next

-----------------------------------------------------------------------------
(* Facts of the elements of the queues, for the steps of the loops.        *)
LEMMA QueueFacts ==
  ASSUME TypeOK, Lengths, Queues
  PROVE  /\ \A i \in 1..Len(standalone) : /\ standalone[i] \in Names /\ ~SelfUpdate(standalone[i])
                                          /\ ~Labelled(standalone[i])
         /\ \A i \in 1..Len(self) : self[i] \in Names /\ SelfUpdate(self[i])
         /\ \A i \in 1..Len(standalone), j \in 1..Len(self) : standalone[i] # self[j]
         /\ at \in Nat /\ Len(standalone) \in Nat /\ Len(self) \in Nat /\ Len(Order) \in Nat
<1>1. at \in Nat /\ Len(standalone) \in Nat /\ Len(self) \in Nat /\ Len(Order) \in Nat
  BY OrderFacts DEF TypeOK
<1>2. /\ \A i \in 1..Len(standalone) : standalone[i] \in Names
      /\ \A i \in 1..Len(self) : self[i] \in Names
  BY <1>1 DEF TypeOK
<1>3. \A n : ~SelfUpdate(n) => ~Labelled(n)
  BY DEF SelfUpdate, Labelled
<1> QED BY <1>1, <1>2, <1>3 DEF Queues

(* The hosting target is the last one to be triggered.                     *)
LEMMA HostIsLast ==
  ASSUME TypeOK, Lengths, Fixed, Queues, Triggers, NEW n \in Names, role[n] = "server", phase = "trigger",
         result[n] = "Updated"
  PROVE  \A j \in 1..Len(self) : result[self[j]] # "Checked"
<1>1. PICK i \in 1..Len(self) : i < at /\ self[i] = n
  BY DEF Triggers, Labelled
<1>2. SUFFICES ASSUME NEW j \in 1..Len(self) PROVE j < at
  BY DEF Triggers
<1>3. CASE j <= i
  BY <1>1, <1>3, QueueFacts
<1>4. CASE i < j
  <2>1. Rank(n) = 3 /\ Rank(n) <= Rank(self[j])
    BY <1>1, <1>4 DEF Queues, Rank
  <2>2. role[self[j]] = "server" /\ self[j] \in Names
    BY <2>1, QueueFacts DEF Rank
  <2>3. self[j] = n
    BY <2>2 DEF Fixed, Hosting
  <2> QED BY <1>1, <1>4, <2>3 DEF Queues
<1> QED BY <1>3, <1>4, QueueFacts

LEMMA TriggersStep ==
  ASSUME TypeOK, Lengths, Fixed, Grouped, Queues, Triggers, [Next]_vars
  PROVE  Triggers'
<1>1. UNCHANGED role /\ \A n : Labelled(n)' <=> Labelled(n)
  BY FixedStep DEF candidates, Labelled
<1>2. \A n : ~SelfUpdate(n) => ~Labelled(n)
  BY DEF SelfUpdate, Labelled
(* Steps before the triggers.                                              *)
<1>3. ASSUME phase \notin {"trigger", "done", "killed"}, phase' \notin {"trigger", "done", "killed"},
             \A n \in recreated' : ~Labelled(n),
             \A n \in Names : result'[n] = "Updated" => result[n] = "Updated" \/ ~Labelled(n)
      PROVE  Triggers'
  BY <1>1, <1>3 DEF Triggers
<1>4. CASE BuildGroups
  BY <1>3, <1>4 DEF BuildGroups, Triggers, world
<1>5. ASSUME NEW n \in Names, LateInspect(n) \/ SkipUnmatched(n) \/ Defer(n) PROVE Triggers'
  <2>1. \A m \in Names : result'[m] = "Updated" => result[m] = "Updated"
    BY <1>5 DEF LateInspect, SkipUnmatched, Defer, SetResult, TypeOK
  <2>2. phase = "dispatch" /\ phase' = phase /\ recreated' = recreated
    BY <1>5 DEF LateInspect, SkipUnmatched, Defer, Routable, Dispatching, world
  <2> QED BY <1>3, <2>1, <2>2 DEF Triggers
<1>6. ASSUME NEW n \in Names, UpdateProject(n) PROVE Triggers'
  <2>1. phase = "dispatch" /\ phase' = "verify" /\ result' = result /\ project[n] \in Projects
    BY <1>6 DEF UpdateProject, Routable, Dispatching, queues, Served, TypeOK
  <2>2. recreated' \subseteq recreated \cup groups[project[n]]
    BY <1>6 DEF UpdateProject, world
  <2> QED BY <1>3, <2>1, <2>2 DEF Triggers, Grouped
<1>7. ASSUME NEW n \in Names, VerifyService(n) PROVE Triggers'
  <2>1. phase = "verify" /\ phase' = "dispatch" /\ recreated' = recreated /\ ~Labelled(n)
    BY <1>2, <1>7 DEF VerifyService, Grouped, world
  <2>2. \A m \in Names : result'[m] = "Updated" => result[m] = "Updated" \/ ~Labelled(m)
    BY <1>7, <2>1 DEF VerifyService, SetResult, TypeOK
  <2> QED BY <1>3, <2>1, <2>2 DEF Triggers
<1>8. CASE EndDispatch \/ EndStop
  BY <1>3, <1>8 DEF EndDispatch, EndStop, Triggers, world
<1>9. CASE Stop
  <2>1. phase = "stop" /\ phase' = "stop" /\ recreated' = recreated
    BY <1>9 DEF Stop
  <2>2. \A m \in Names : result'[m] = "Updated" => result[m] = "Updated"
    <3>1. result' = result \/ result' = [result EXCEPT ![standalone[at]] = "Failed"]
      BY <1>9 DEF Stop, StopRemove, SetResult
    <3> QED BY <3>1 DEF TypeOK
  <2> QED BY <1>3, <2>1, <2>2 DEF Triggers
<1>10. CASE Create
  <2>1. phase = "create" /\ phase' = "create" /\ at \in 1..Len(standalone)
    BY <1>10 DEF Create, Lengths
  <2>2. ~Labelled(standalone[at])
    BY <2>1, QueueFacts
  <2>3. recreated' \subseteq recreated \cup {standalone[at]}
    BY <1>10 DEF Create, world
  <2>4. \A m \in Names : result'[m] = "Updated" => result[m] = "Updated" \/ m = standalone[at]
    <3>1. result' = result \/ \E status : result' = [result EXCEPT ![standalone[at]] = status]
      BY <1>10 DEF Create, SetResult
    <3> QED BY <3>1 DEF TypeOK
  <2> QED BY <1>3, <2>1, <2>2, <2>3, <2>4 DEF Triggers
<1>11. CASE EndCreate
  <2>1. phase = "create" /\ phase' = "trigger" /\ at' = 1 /\ UNCHANGED <<recreated, result, self>>
    BY <1>11 DEF EndCreate, world, queues
  <2> QED BY <1>1, <2>1, QueueFacts DEF Triggers
<1>12. CASE Trigger
  <2>1. /\ phase = "trigger" /\ phase' = "trigger" /\ at' = at + 1 /\ at \in 1..Len(self)
        /\ UNCHANGED <<recreated, self>> /\ self[at] \in Names
    BY <1>12, QueueFacts DEF Trigger, Lengths, world, queues
  <2>2. PICK status \in {"Updated", "Failed"} : result' = [result EXCEPT ![self[at]] = status]
    BY <1>12 DEF Trigger, SetResult
  <2>3. \A n \in Names : Labelled(n) /\ result'[n] = "Updated" => \E i \in 1..Len(self) : i < at + 1 /\ self[i] = n
    <3>1. SUFFICES ASSUME NEW n \in Names, Labelled(n), result'[n] = "Updated"
                   PROVE  \E i \in 1..Len(self) : i < at + 1 /\ self[i] = n
      OBVIOUS
    <3>2. CASE n = self[at]
      BY <2>1, <3>2, QueueFacts
    <3>3. CASE n # self[at]
      <4>1. result[n] = "Updated"
        BY <2>2, <3>1, <3>3 DEF TypeOK
      <4>2. PICK i \in 1..Len(self) : i < at /\ self[i] = n
        BY <2>1, <3>1, <4>1 DEF Triggers
      <4> QED BY <4>2, QueueFacts
    <3> QED BY <3>2, <3>3
  <2>4. \A i \in 1..Len(self) : i < at + 1 => result'[self[i]] \in {"Updated", "Failed"}
    <3>1. SUFFICES ASSUME NEW i \in 1..Len(self), i < at + 1 PROVE result'[self[i]] \in {"Updated", "Failed"}
      OBVIOUS
    <3>2. self[i] \in Names
      BY QueueFacts
    <3>3. CASE self[i] = self[at]
      BY <2>1, <2>2, <3>3 DEF TypeOK
    <3>4. CASE self[i] # self[at]
      <4>1. i < at
        BY <2>1, <3>1, <3>4, QueueFacts
      <4> QED BY <2>1, <2>2, <3>2, <3>4, <4>1 DEF TypeOK, Triggers
    <3> QED BY <3>3, <3>4
  <2> QED BY <1>1, <2>1, <2>3, <2>4 DEF Triggers
<1>13. CASE EndTrigger
  BY <1>1, <1>13 DEF EndTrigger, Triggers, world, queues
<1>14. CASE Killed
  <2>1. phase' = "killed" /\ UNCHANGED <<recreated, result, self>> /\ phase \notin {"done", "killed"}
    BY <1>14 DEF Killed, Over, world, queues
  <2>2. ASSUME NEW m \in Names, role[m] = "server"
        PROVE  \A i \in 1..Len(self) : result[self[i]] # "Checked"
    <3>1. PICK n \in Names : Hosting(n) /\ (n \in recreated \/ result[n] = "Updated")
      BY <1>14 DEF Killed
    <3>2. m = n /\ Labelled(m)
      BY <2>2, <3>1 DEF Fixed, Hosting, Labelled
    <3>3. result[m] = "Updated"
      BY <3>1, <3>2 DEF Triggers
    <3>4. phase = "trigger"
      BY <2>1, <3>2, <3>3 DEF Triggers
    <3> QED BY <2>2, <3>3, <3>4, HostIsLast
  <2> QED BY <1>1, <2>1, <2>2 DEF Triggers
<1>15. CASE UNCHANGED vars
  BY <1>1, <1>15 DEF vars, world, queues, Triggers
<1> QED BY <1>4, <1>5, <1>6, <1>7, <1>8, <1>9, <1>10, <1>11, <1>12, <1>13, <1>14, <1>15 DEF Next

-----------------------------------------------------------------------------
LEMMA StandsStep ==
  ASSUME TypeOK, Lengths, Fixed, Grouped, Queues, Stands, [Next]_vars
  PROVE  Stands'
<1>1. UNCHANGED <<plan, project, role>>
  BY FixedStep DEF candidates
<1> USE QueueFacts
(* Steps of the dispatch that leave the standalone containers alone.       *)
<1>2. ASSUME phase \in {"dispatch", "verify"}, phase' \in {"dispatch", "verify"}, UNCHANGED <<groups, standalone>>,
             \A n \in Names : ~Served(n) => state'[n] = state[n],
             \A i \in 1..Len(standalone) : result'[standalone[i]] = result[standalone[i]]
      PROVE  Stands'
  <2>1. \A n : Served(n)' <=> Served(n)
    BY <1>1, <1>2 DEF Served
  <2>2. \A n \in Names : ~Served(n)' => state'[n] = "running"
    BY <1>2, <2>1 DEF Stands
  <2>3. \A i \in 1..Len(standalone) : Up(standalone[i])'
    BY <1>2 DEF Stands, Queues, Up
  <2> QED BY <1>2, <2>2, <2>3 DEF Stands
<1>3. CASE BuildGroups
  <2>1. \A n \in Names : state'[n] = "running"
    BY <1>3 DEF BuildGroups, world, Stands, Grouped, Served, TypeOK
  <2>2. phase' = "dispatch" /\ standalone' = <<>>
    BY <1>3 DEF BuildGroups, queues, Lengths
  <2> QED BY <2>1, <2>2 DEF Stands
<1>4. ASSUME NEW n \in Names, LateInspect(n) \/ SkipUnmatched(n) PROVE Stands'
  <2>1. /\ phase = "dispatch" /\ phase' = phase /\ UNCHANGED <<groups, standalone, state>>
        /\ n = Order[at] /\ at \in 1..Len(Order)
        /\ result' = result \/ \E status : result' = [result EXCEPT ![n] = status]
    BY <1>4 DEF LateInspect, SkipUnmatched, Dispatching, world, compose, queues, SetResult, Lengths
  <2>2. ~Dispatched(n)
    BY <2>1, OrderAssumption DEF Dispatched
  <2>3. \A i \in 1..Len(standalone) : standalone[i] # n
    BY <2>1, <2>2 DEF Queues
  <2> QED BY <1>2, <2>1, <2>3 DEF TypeOK
<1>5. ASSUME NEW n \in Names, UpdateProject(n) PROVE Stands'
  <2>1. /\ phase = "dispatch" /\ phase' = "verify" /\ UNCHANGED <<groups, standalone, result>>
        /\ project[n] \in Projects
    BY <1>5 DEF UpdateProject, Routable, Dispatching, queues, Served, TypeOK
  <2>2. \A m \in Names : m \notin groups[project[n]] => state'[m] = state[m]
    BY <1>5 DEF UpdateProject, world
  <2>3. \A m \in Names : m \in groups[project[n]] => Served(m)
    BY <2>1, NoProjectAssumption DEF Grouped, Served
  <2> QED BY <1>2, <2>1, <2>2, <2>3
<1>6. ASSUME NEW n \in Names, VerifyService(n) PROVE Stands'
  <2>1. /\ phase = "verify" /\ phase' = "dispatch" /\ UNCHANGED <<groups, standalone, state>>
        /\ Served(n)
        /\ \E status : result' = [result EXCEPT ![n] = status]
    BY <1>6 DEF VerifyService, world, compose, queues, SetResult, Grouped
  <2>2. \A i \in 1..Len(standalone) : standalone[i] # n
    BY <2>1 DEF Queues
  <2> QED BY <1>2, <2>1, <2>2 DEF TypeOK
<1>7. ASSUME NEW n \in Names, Defer(n) PROVE Stands'
  <2>1. /\ phase = "dispatch" /\ phase' = phase /\ UNCHANGED <<groups, state>>
        /\ n = Order[at] /\ at \in 1..Len(Order)
        /\ result' = [result EXCEPT ![n] = "Checked"]
    BY <1>7 DEF Defer, Routable, Dispatching, world, compose, SetResult, Lengths
  <2>2. ~Dispatched(n)
    BY <2>1, OrderAssumption DEF Dispatched
  <2>3. \A i \in 1..Len(standalone) : standalone[i] # n /\ Up(standalone[i])
    BY <2>1, <2>2 DEF Queues, Stands
  <2>4. CASE standalone' = standalone
    BY <1>2, <2>1, <2>3, <2>4 DEF TypeOK
  <2>5. CASE standalone' = Append(standalone, n) /\ ~Served(n)
    <3>1. /\ Len(standalone') = Len(standalone) + 1 /\ standalone'[Len(standalone) + 1] = n
          /\ \A i \in 1..Len(standalone) : standalone'[i] = standalone[i]
      BY <2>5 DEF TypeOK
    <3>2. state'[n] = "running" /\ result'[n] = "Checked"
      BY <2>1, <2>5 DEF Stands, TypeOK
    <3>3. \A i \in 1..Len(standalone) : state'[standalone[i]] = "running" /\ result'[standalone[i]] = "Checked"
      BY <2>1, <2>3 DEF Up, TypeOK
    <3>4. \A i \in 1..Len(standalone') : state'[standalone'[i]] = "running" /\ result'[standalone'[i]] = "Checked"
      BY <3>1, <3>2, <3>3
    <3>5. \A m : Served(m)' <=> Served(m)
      BY <1>1, <2>1 DEF Served
    <3>6. \A i \in 1..Len(standalone') : Up(standalone[i])'
      BY <3>4 DEF Up
    <3> QED BY <2>1, <3>5, <3>6 DEF Stands
  <2> QED BY <1>7, <2>4, <2>5 DEF Defer
<1>8. CASE EndDispatch
  <2>1. phase = "dispatch" /\ phase' = "stop" /\ at' = Len(standalone) /\ UNCHANGED <<standalone, state, result>>
    BY <1>8 DEF EndDispatch, world, queues
  <2> QED BY <2>1 DEF Stands, Up
<1>9. CASE Stop
  <2> DEFINE n == standalone[at]
  <2>1. phase = "stop" /\ phase' = "stop" /\ at' = at - 1 /\ at \in 1..Len(standalone) /\ standalone' = standalone
    BY <1>9 DEF Stop, queues, Lengths
  <2>2. n \in Names /\ Up(n) /\ \A i \in 1..Len(standalone) : i # at => standalone[i] # n
    BY <2>1 DEF Stands, Queues
  <2>3. \/ state' = [state EXCEPT ![n] = "removed"] /\ result' = result
        \/ \E st : state' = [state EXCEPT ![n] = st] /\ result' = [result EXCEPT ![n] = "Failed"]
    BY <1>9 DEF Stop, StopRemove, SetResult
  <2> HIDE DEF n
  <2>4. (state'[n] = "removed" /\ result'[n] = "Checked") \/ result'[n] = "Failed"
    BY <2>2, <2>3 DEF Up, TypeOK
  <2>5. \A m \in Names : m # n => state'[m] = state[m] /\ result'[m] = result[m]
    BY <2>3 DEF TypeOK
  <2>6. ASSUME NEW i \in 1..Len(standalone)
        PROVE  IF i <= at - 1 THEN Up(standalone[i])' ELSE Down(standalone[i])' \/ Refused(standalone[i])'
    <3>1. CASE i = at
      <4>1. ~(i <= at - 1) /\ standalone'[i] = n
        BY <2>1, <3>1 DEF n
      <4> QED BY <2>4, <4>1 DEF Down, Refused
    <3>2. CASE i # at
      <4>1. standalone'[i] = standalone[i] /\ standalone[i] # n /\ (i <= at - 1 <=> i <= at)
        BY <2>1, <2>2, <3>2
      <4>2. state'[standalone[i]] = state[standalone[i]] /\ result'[standalone[i]] = result[standalone[i]]
        BY <2>5, <4>1
      <4> QED BY <2>1, <4>1, <4>2 DEF Stands, Up, Down, Refused
    <3> QED BY <3>1, <3>2
  <2> QED BY <2>1, <2>6 DEF Stands
<1>10. CASE EndStop
  <2>1. phase = "stop" /\ phase' = "create" /\ at = 0 /\ at' = 1 /\ UNCHANGED <<standalone, state, result>>
    BY <1>10 DEF EndStop, world, queues
  <2> QED BY <2>1 DEF Stands, Down, Refused
<1>11. CASE Create
  <2> DEFINE n == standalone[at]
  <2>1. phase = "create" /\ phase' = "create" /\ at' = at + 1 /\ at \in 1..Len(standalone) /\ standalone' = standalone
    BY <1>11 DEF Create, queues, Lengths
  <2>2. n \in Names /\ \A i \in 1..Len(standalone) : i # at => standalone[i] # n
    BY <2>1 DEF Queues
  <2>3. \/ result[n] = "Failed" /\ UNCHANGED <<state, result>>
        \/ /\ state' = [state EXCEPT ![n] = "running"]
           /\ \E status \in {"Updated", "Restarted"} : result' = [result EXCEPT ![n] = status]
        \/ \E st : state' = [state EXCEPT ![n] = st] /\ result' = [result EXCEPT ![n] = "Failed"]
    BY <1>11 DEF Create, SetResult, world
  <2> HIDE DEF n
  <2>4. (state'[n] = "running" /\ result'[n] # "Checked") \/ result'[n] = "Failed"
    BY <2>2, <2>3 DEF TypeOK
  <2>5. \A m \in Names : m # n => state'[m] = state[m] /\ result'[m] = result[m]
    BY <2>3 DEF TypeOK
  <2>6. ASSUME NEW i \in 1..Len(standalone)
        PROVE  Refused(standalone[i])' \/ IF i < at + 1 THEN Back(standalone[i])' ELSE Down(standalone[i])'
    <3>1. CASE i = at
      <4>1. i < at + 1 /\ standalone'[i] = n
        BY <2>1, <3>1 DEF n
      <4> QED BY <2>4, <4>1 DEF Back, Refused
    <3>2. CASE i # at
      <4>1. standalone'[i] = standalone[i] /\ standalone[i] # n /\ (i < at + 1 <=> i < at)
        BY <2>1, <2>2, <3>2
      <4>2. state'[standalone[i]] = state[standalone[i]] /\ result'[standalone[i]] = result[standalone[i]]
        BY <2>5, <4>1
      <4> QED BY <2>1, <4>1, <4>2 DEF Stands, Back, Down, Refused
    <3> QED BY <3>1, <3>2
  <2> QED BY <2>1, <2>6 DEF Stands
<1>12. CASE EndCreate
  <2>1. phase = "create" /\ phase' = "trigger" /\ at > Len(standalone) /\ UNCHANGED <<standalone, state, result>>
    BY <1>12 DEF EndCreate, world, queues
  <2> QED BY <2>1 DEF Stands, Back, Refused
<1>13. CASE Trigger
  <2>1. phase = "trigger" /\ phase' = "trigger" /\ at \in 1..Len(self) /\ UNCHANGED <<standalone, state>>
    BY <1>13 DEF Trigger, Lengths, world, queues
  <2>2. \A i \in 1..Len(standalone) : standalone[i] # self[at]
    BY <2>1
  <2>3. \A i \in 1..Len(standalone) : result'[standalone[i]] = result[standalone[i]]
    BY <1>13, <2>1, <2>2 DEF Trigger, SetResult, TypeOK
  <2> QED BY <2>1, <2>3 DEF Stands, Back, Refused
<1>14. CASE EndTrigger
  BY <1>14 DEF EndTrigger, Stands, Back, Refused, world, queues
<1>15. CASE Killed
  BY <1>15 DEF Killed, Stands
<1>16. CASE UNCHANGED vars
  BY <1>1, <1>16 DEF vars, compose, world, queues, Stands, Up, Down, Back, Refused, Served
<1> QED BY <1>3, <1>4, <1>5, <1>6, <1>7, <1>8, <1>9, <1>10, <1>11, <1>12, <1>13, <1>14, <1>15, <1>16 DEF Next

(* Where the containers stand says that no dependent runs alone.           *)
LEMMA NoneAlone ==
  ASSUME TypeOK, Lengths, Queues, Stands, phase # "killed"
  PROVE  NoDependentWithoutDependency
<1> SUFFICES ASSUME NEW i \in 1..Len(standalone), NEW j \in 1..Len(standalone), i < j,
                    state[standalone[j]] = "running", state[standalone[i]] # "running"
             PROVE  "Failed" \in {result[standalone[i]], result[standalone[j]]}
  BY DEF NoDependentWithoutDependency
<1>1. CASE phase \in {"dispatch", "verify"}
  BY <1>1 DEF Stands, Up
<1>2. CASE phase = "stop"
  BY <1>2, QueueFacts DEF Stands, Up, Down, Refused
<1>3. CASE phase = "create"
  BY <1>3, QueueFacts DEF Stands, Back, Down, Refused
<1>4. CASE phase \in {"trigger", "done"}
  BY <1>4 DEF Stands, Back, Refused
<1>5. phase # "group"
  BY DEF Lengths
<1> QED BY <1>1, <1>2, <1>3, <1>4, <1>5 DEF TypeOK

(* A pass that is cut short leaves them as they are.                       *)
LEMMA StandingStep ==
  ASSUME TypeOK, Lengths, Fixed, Grouped, Queues, Standing, [Next]_vars
  PROVE  Standing'
<1>1. Stands' /\ TypeOK' /\ Lengths' /\ Queues'
  BY StandsStep, TypeStep, QueuesStep DEF Standing
<1>2. CASE phase' = "killed"
  <2>1. UNCHANGED <<standalone, state, result>>
    BY <1>2 DEF Next, vars, BuildGroups, LateInspect, SkipUnmatched, UpdateProject, VerifyService, Defer,
                Routable, Dispatching, EndDispatch, Stop, EndStop, Create, EndCreate, Trigger, EndTrigger,
                Killed, world, queues
  <2> QED BY <1>1, <2>1 DEF Standing, NoDependentWithoutDependency
<1>3. CASE phase' # "killed"
  <2>1. (TypeOK /\ Lengths /\ Queues /\ Stands /\ phase # "killed" => NoDependentWithoutDependency)'
    BY NoneAlone, PTL
  <2> QED BY <1>1, <1>3, <2>1 DEF Standing
<1> QED BY <1>2, <1>3

-----------------------------------------------------------------------------
(* The results, where no candidate is the unlabelled container of this     *)
(* process.                                                                *)
LEMMA ResultTyped ==
  ASSUME TypeOK
  PROVE  \A n \in Names : /\ result[n] \in Statuses
                          /\ plan[n] \in {"explicit", "retagged", "implicit", "none"}
                          /\ state[n] \in {"running", "stopped", "removed"}
BY PlansAssumption DEF TypeOK

LEMMA LabelledOnly ==
  ASSUME "own" \notin Roles, TypeOK
  PROVE  \A n \in Names : SelfUpdate(n) <=> Labelled(n)
<1>1. role \in [Names -> Roles]
  BY DEF TypeOK
<1>2. \A n \in Names : role[n] \in {"normal", "agent", "server"}
  BY <1>1, RolesAssumption
<1> QED BY <1>2 DEF SelfUpdate, Labelled

(* Only a triggered self-update cuts a pass short.                         *)
LEMMA KilledByTrigger ==
  ASSUME "own" \notin Roles, TypeOK, Triggers, Killed
  PROVE  phase = "trigger"
<1>1. PICK n \in Names : Hosting(n) /\ (n \in recreated \/ result[n] = "Updated")
  BY DEF Killed
<1>2. Labelled(n)
  BY <1>1, RolesAssumption DEF TypeOK, Hosting, Labelled
<1> QED BY <1>1, <1>2 DEF Triggers, Killed, Over

Keeps(q, longer) ==
  Len(longer) \in Nat /\ Len(longer) >= Len(q) /\ \A i \in 1..Len(q) : longer[i] = q[i]
IsIn(n, q) == \E i \in 1..Len(q) : q[i] = n

LEMMA KeepsItself ==
  ASSUME TypeOK
  PROVE  Keeps(self, self) /\ Keeps(standalone, standalone)
BY DEF Keeps, TypeOK

LEMMA AppendKeeps ==
  ASSUME NEW q \in Seq(Names), NEW n \in Names
  PROVE  Keeps(q, Append(q, n)) /\ IsIn(n, Append(q, n))
<1>1. /\ Len(q) \in Nat /\ Len(Append(q, n)) = Len(q) + 1 /\ Append(q, n)[Len(q) + 1] = n
      /\ \A i \in 1..Len(q) : Append(q, n)[i] = q[i]
  OBVIOUS
<1> QED BY <1>1 DEF Keeps, IsIn

LEMMA HasResultStep ==
  ASSUME "own" \notin Roles, TypeOK, Lengths, Fixed, Queues, Grouped, Triggers, Standing, [Next]_vars,
         NEW m \in Names, HasResult(m)
  PROVE  HasResult(m)'
<1>1. UNCHANGED role /\ (SelfUpdate(m)' <=> SelfUpdate(m))
  BY FixedStep DEF candidates, SelfUpdate
<1> USE QueueFacts
<1>2. CASE BuildGroups
  <2>1. phase = "group" /\ phase' = "dispatch" /\ at' = 1 /\ result' = result
    BY <1>2 DEF BuildGroups, Lengths
  <2>2. ~Dispatched(m)'
    BY <2>1 DEF Dispatched
  <2> QED BY <2>1, <2>2 DEF HasResult
(* Steps of the dispatch: the candidate gets its result, and the others    *)
(* keep theirs.                                                            *)
<1>3. ASSUME NEW n \in Names, NEW status \in Statuses \ {"none"}, n = Order[at], at \in 1..Len(Order),
             phase \in {"dispatch", "verify"}, phase' = "dispatch", at' = at + 1,
             result' = [result EXCEPT ![n] = status],
             Keeps(self, self'), Keeps(standalone, standalone'),
             status = "Checked" => IF SelfUpdate(n) THEN IsIn(n, self') ELSE IsIn(n, standalone')
      PROVE  HasResult(m)'
  <2>1. Dispatched(m)' <=> Dispatched(m) \/ m = n
    BY <1>3 DEF Dispatched
  <2>2. CASE m = n
    <3>1. result'[m] = status
      BY <1>3, <2>2 DEF TypeOK
    <3> QED BY <1>1, <1>3, <2>1, <2>2, <3>1 DEF HasResult, Statuses, IsIn
  <2>3. CASE m # n
    <3>1. result'[m] = result[m]
      BY <1>3, <2>3 DEF TypeOK
    <3>2. (\E i \in 1..Len(self) : self[i] = m) => \E i \in 1..Len(self') : self'[i] = m
      BY <1>3 DEF Keeps
    <3>3. (\E i \in 1..Len(standalone) : standalone[i] = m) => \E i \in 1..Len(standalone') : standalone'[i] = m
      BY <1>3 DEF Keeps
    <3> QED BY <1>1, <1>3, <2>1, <2>3, <3>1, <3>2, <3>3 DEF HasResult
  <2> QED BY <2>2, <2>3
<1>4. ASSUME NEW n \in Names, LateInspect(n) PROVE HasResult(m)'
  <2>1. n = Order[at] /\ at \in 1..Len(Order) /\ phase = "dispatch" /\ phase' = phase /\ UNCHANGED queues
    BY <1>4 DEF LateInspect, Dispatching, Lengths
  <2>2. CASE UNCHANGED <<result, at>>
    BY <1>1, <2>1, <2>2 DEF HasResult, Dispatched, queues
  <2>3. CASE SetResult(n, "Failed") /\ at' = at + 1
    <3>1. "Failed" \in Statuses \ {"none"} /\ result' = [result EXCEPT ![n] = "Failed"]
      BY <2>3 DEF Statuses, SetResult
    <3>2. Keeps(self, self') /\ Keeps(standalone, standalone')
      BY <2>1, KeepsItself DEF queues
    <3> QED BY <1>3, <2>1, <2>3, <3>1, <3>2
  <2> QED BY <1>4, <2>2, <2>3 DEF LateInspect
<1>5. ASSUME NEW n \in Names, SkipUnmatched(n) PROVE HasResult(m)'
  <2>1. /\ n = Order[at] /\ at \in 1..Len(Order) /\ phase = "dispatch" /\ phase' = "dispatch" /\ at' = at + 1
        /\ UNCHANGED queues /\ result' = [result EXCEPT ![n] = "Skipped"]
    BY <1>5 DEF SkipUnmatched, Dispatching, Lengths, SetResult
  <2>2. "Skipped" \in Statuses \ {"none"}
    BY DEF Statuses
  <2>3. Keeps(self, self') /\ Keeps(standalone, standalone')
    BY <2>1, KeepsItself DEF queues
  <2> QED BY <1>3, <2>1, <2>2, <2>3
<1>6. ASSUME NEW n \in Names, UpdateProject(n) PROVE HasResult(m)'
  BY <1>1, <1>6 DEF UpdateProject, Routable, Dispatching, HasResult, Dispatched, queues
<1>7. ASSUME NEW n \in Names, VerifyService(n) PROVE HasResult(m)'
  <2>1. /\ n = Order[at] /\ at \in 1..Len(Order) /\ phase = "verify" /\ phase' = "dispatch" /\ at' = at + 1
        /\ UNCHANGED queues
    BY <1>7 DEF VerifyService, Lengths
  <2>2. PICK status \in {"Updated", "Failed"} : result' = [result EXCEPT ![n] = status]
    BY <1>7 DEF VerifyService, SetResult
  <2>3. status \in Statuses \ {"none"} /\ status # "Checked"
    BY DEF Statuses
  <2>4. Keeps(self, self') /\ Keeps(standalone, standalone')
    BY <2>1, KeepsItself DEF queues
  <2> QED BY <1>3, <2>1, <2>2, <2>3, <2>4
<1>8. ASSUME NEW n \in Names, Defer(n) PROVE HasResult(m)'
  <2>1. /\ n = Order[at] /\ at \in 1..Len(Order) /\ phase = "dispatch" /\ phase' = "dispatch" /\ at' = at + 1
        /\ result' = [result EXCEPT ![n] = "Checked"]
    BY <1>8 DEF Defer, Routable, Dispatching, Lengths, SetResult
  <2>2. "Checked" \in Statuses \ {"none"} /\ standalone \in Seq(Names) /\ self \in Seq(Names)
    BY DEF Statuses, TypeOK
  <2>3. CASE SelfUpdate(n) /\ self' = Append(self, n) /\ standalone' = standalone
    <3>1. Keeps(self, self') /\ Keeps(standalone, standalone') /\ IsIn(n, self')
      BY <2>2, <2>3, KeepsItself, AppendKeeps
    <3> QED BY <1>3, <2>1, <2>2, <2>3, <3>1
  <2>4. CASE ~SelfUpdate(n) /\ standalone' = Append(standalone, n) /\ self' = self
    <3>1. Keeps(self, self') /\ Keeps(standalone, standalone') /\ IsIn(n, standalone')
      BY <2>2, <2>4, KeepsItself, AppendKeeps
    <3> QED BY <1>3, <2>1, <2>2, <2>4, <3>1
  <2> QED BY <1>8, <2>3, <2>4 DEF Defer
<1>9. CASE EndDispatch
  <2>1. Dispatched(m)
    <3>1. PICK k \in 1..Len(Order) : Order[k] = m
      BY OrderFacts
    <3>2. k < at
      BY <1>9 DEF EndDispatch
    <3> QED BY <3>1, <3>2 DEF Dispatched
  <2> QED BY <1>1, <1>9, <2>1 DEF EndDispatch, HasResult, queues
(* Steps of the loops: a queued candidate gets another result.             *)
<1>10. ASSUME phase \in {"stop", "create", "trigger"},
              phase' \in {"stop", "create", "trigger", "done", "killed"}, UNCHANGED queues,
              result'[m] = result[m] \/ result'[m] \notin {"none", "Checked"},
              phase' \in {"trigger", "done", "killed"} =>
                phase = "trigger" \/ SelfUpdate(m) \/ result[m] # "Checked"
       PROVE  HasResult(m)'
  BY <1>1, <1>10 DEF HasResult, queues
<1>11. CASE Stop
  <2>1. result' = result \/ result' = [result EXCEPT ![standalone[at]] = "Failed"]
    BY <1>11 DEF Stop, StopRemove, SetResult
  <2> QED BY <1>10, <1>11, <2>1 DEF Stop, TypeOK
<1>12. CASE Create
  <2>1. \/ result' = result
        \/ \E status \in {"Updated", "Restarted", "Failed"} : result' = [result EXCEPT ![standalone[at]] = status]
    BY <1>12 DEF Create, SetResult
  <2> QED BY <1>10, <1>12, <2>1 DEF Create, TypeOK
<1>13. CASE Trigger
  <2>1. \E status \in {"Updated", "Failed"} : result' = [result EXCEPT ![self[at]] = status]
    BY <1>13 DEF Trigger, SetResult
  <2> QED BY <1>10, <1>13, <2>1 DEF Trigger, TypeOK
<1>14. CASE EndStop \/ EndTrigger
  BY <1>10, <1>14 DEF EndStop, EndTrigger
<1>15. CASE EndCreate
  <2>1. phase = "create" /\ phase' = "trigger" /\ at > Len(standalone) /\ UNCHANGED <<queues, result>>
    BY <1>15 DEF EndCreate
  <2>2. \A i \in 1..Len(standalone) : result[standalone[i]] # "Checked"
    BY <2>1 DEF Standing, Stands, Refused, Back
  <2>3. SelfUpdate(m) \/ result[m] # "Checked"
    BY <2>2 DEF HasResult
  <2> QED BY <1>10, <2>1, <2>3
<1>16. CASE Killed
  BY <1>10, <1>16, KilledByTrigger DEF Killed
<1>17. CASE UNCHANGED vars
  BY <1>1, <1>17 DEF vars, queues, HasResult, Dispatched
<1> QED BY <1>2, <1>4, <1>5, <1>6, <1>7, <1>8, <1>9, <1>11, <1>12, <1>13, <1>14, <1>15, <1>16, <1>17 DEF Next

(* What a result says stays so: what is updated or restarted is not touched*)
(* again.                                                                  *)
LEMMA HonestStep ==
  ASSUME "own" \notin Roles, TypeOK, Lengths, Fixed, Queues, Grouped, Standing, [Next]_vars,
         NEW m \in Names, HasResult(m), Honest(m)
  PROVE  Honest(m)'
<1>1. UNCHANGED <<plan, project, role>> /\ (SelfUpdate(m)' <=> SelfUpdate(m))
  BY FixedStep DEF candidates, SelfUpdate
<1> USE QueueFacts
<1>2. CASE BuildGroups
  <2>1. phase = "group" /\ phase' = "dispatch" /\ UNCHANGED <<result, state>>
    BY <1>2 DEF BuildGroups, world
  <2>2. state[m] = "running"
    BY <2>1, NoProjectAssumption DEF Standing, Stands, Grouped, Served, TypeOK
  <2>3. result[m] = "none"
    BY <2>1 DEF HasResult
  <2> QED BY <2>1, <2>2, <2>3 DEF Honest
(* Steps that leave the containers alone, and give m a harmless result.    *)
<1>3. ASSUME phase # "group", phase' = phase \/ phase' \notin {"group", "dispatch", "verify"},
             UNCHANGED <<world, groups, processed>>,
             \/ result'[m] = result[m]
             \/ result'[m] \in {"Failed", "Checked"}
             \/ result'[m] = "Skipped" /\ plan[m] = "none"
             \/ SelfUpdate(m)
      PROVE  Honest(m)'
  BY <1>1, <1>3 DEF Honest, world, Served
<1>4. ASSUME NEW n \in Names, LateInspect(n) \/ SkipUnmatched(n) \/ Defer(n) PROVE Honest(m)'
  <2>1. phase = "dispatch" /\ phase' = phase /\ UNCHANGED <<world, groups, processed>>
    BY <1>4 DEF LateInspect, SkipUnmatched, Defer, Routable, Dispatching, compose
  <2>2. \/ result' = result
        \/ \E status \in {"Failed", "Checked"} : result' = [result EXCEPT ![n] = status]
        \/ result' = [result EXCEPT ![n] = "Skipped"] /\ plan[n] = "none"
    BY <1>4 DEF LateInspect, SkipUnmatched, Defer, SetResult
  <2>3. \/ result'[m] = result[m]
        \/ result'[m] \in {"Failed", "Checked"}
        \/ result'[m] = "Skipped" /\ plan[m] = "none"
    BY <2>2 DEF TypeOK
  <2> QED BY <1>3, <2>1, <2>3
<1>5. ASSUME NEW n \in Names, UpdateProject(n) PROVE Honest(m)'
  <2> DEFINE p == project[n]
  <2>1. /\ phase = "dispatch" /\ phase' = "verify" /\ UNCHANGED <<result, groups>> /\ p \in Projects
        /\ p \in processed' /\ processed \subseteq processed'
    BY <1>5 DEF UpdateProject, Routable, Dispatching, Served, queues, TypeOK
  <2>2. Served(m)' <=> Served(m)
    BY <1>1, <2>1 DEF Served
  <2>3. CASE m \in groups[p] /\ p \notin processed
    <3>1. Served(m) /\ project[m] = p /\ plan[m] # "none" /\ ~Labelled(m)
      BY <2>1, <2>3, NoProjectAssumption DEF Grouped, Served
    <3>2. ~SelfUpdate(m) /\ result[m] \notin {"Updated", "Restarted", "Skipped"}
      BY <2>1, <2>3, <3>1, LabelledOnly DEF Honest
    <3> QED BY <1>1, <2>1, <2>2, <3>1, <3>2 DEF Honest
  <2>4. CASE m \notin groups[p] \/ p \in processed
    <3>1. /\ state'[m] = state[m] /\ image'[m] = image[m] /\ recreated \subseteq recreated'
      BY <1>5, <2>4, ComposeImagesTyped DEF UpdateProject, world
    <3> QED BY <1>1, <2>1, <2>2, <3>1 DEF Honest
  <2> QED BY <2>3, <2>4
<1>6. ASSUME NEW n \in Names, VerifyService(n) PROVE Honest(m)'
  <2>1. /\ phase = "verify" /\ phase' = "dispatch" /\ UNCHANGED <<state, image, recreated, groups, processed>>
        /\ ~SelfUpdate(n) /\ Served(n) /\ project[n] \in processed
    BY <1>6 DEF VerifyService, Grouped, world, compose
  <2>2. \/ result' = [result EXCEPT ![n] = "Updated"] /\ state[n] = "running" /\ image[n] = "new"
        \/ result' = [result EXCEPT ![n] = "Failed"]
    BY <1>6 DEF VerifyService, SetResult
  <2>3. Served(m)' <=> Served(m)
    BY <1>1, <2>1 DEF Served
  <2>4. CASE m = n
    BY <1>1, <2>1, <2>2, <2>3, <2>4 DEF Honest, TypeOK
  <2>5. CASE m # n
    <3>1. result'[m] = result[m]
      BY <2>2, <2>5 DEF TypeOK
    <3> QED BY <1>1, <2>1, <2>3, <3>1 DEF Honest
  <2> QED BY <2>4, <2>5
<1>7. CASE EndDispatch \/ EndStop \/ EndCreate \/ EndTrigger
  BY <1>3, <1>7 DEF EndDispatch, EndStop, EndCreate, EndTrigger, compose
<1>8. CASE Stop
  <2> DEFINE n == standalone[at]
  <2>1. phase = "stop" /\ phase' = "stop" /\ at \in 1..Len(standalone) /\ UNCHANGED <<image, recreated>>
    BY <1>8 DEF Stop, Lengths
  <2>2. n \in Names /\ ~SelfUpdate(n) /\ plan[n] # "none" /\ result[n] = "Checked"
    BY <2>1 DEF Queues, Standing, Stands, Up
  <2>3. \E st : /\ state' = [state EXCEPT ![n] = st]
                /\ result' = result \/ result' = [result EXCEPT ![n] = "Failed"]
    BY <1>8 DEF Stop, StopRemove, SetResult
  <2> HIDE DEF n
  <2>4. CASE m = n
    <3>1. result'[m] \in {"Checked", "Failed"} /\ plan[m] # "none"
      BY <2>2, <2>3, <2>4 DEF TypeOK
    <3> QED BY <1>1, <2>1, <3>1 DEF Honest
  <2>5. CASE m # n
    <3>1. state'[m] = state[m] /\ result'[m] = result[m]
      BY <2>3, <2>5 DEF TypeOK
    <3> QED BY <1>1, <2>1, <3>1 DEF Honest
  <2> QED BY <2>4, <2>5
<1>9. CASE Create
  <2> DEFINE n == standalone[at]
  <2>1. phase = "create" /\ phase' = "create" /\ at \in 1..Len(standalone)
    BY <1>9 DEF Create, Lengths
  <2>2. n \in Names /\ ~SelfUpdate(n) /\ plan[n] # "none"
    BY <2>1 DEF Queues
  <2>3. \/ UNCHANGED <<world, result>>
        \/ /\ state' = [state EXCEPT ![n] = "running"] /\ image' = [image EXCEPT ![n] = NewImage(n)]
           /\ recreated' = recreated \cup {n}
           /\ result' = [result EXCEPT ![n] = IF Explicit(n) THEN "Updated" ELSE "Restarted"]
        \/ /\ \E st : state' = [state EXCEPT ![n] = st]
           /\ recreated' = recreated \cup {n} /\ \E i : image' = [image EXCEPT ![n] = i]
           /\ result' = [result EXCEPT ![n] = "Failed"]
    BY <1>9 DEF Create, SetResult
  <2> HIDE DEF n
  <2>4. CASE m = n
    <3>1. CASE UNCHANGED <<world, result>>
      BY <1>1, <2>1, <3>1 DEF Honest, world
    <3>2. CASE result'[m] = "Failed"
      BY <1>1, <2>1, <2>2, <2>4, <3>2 DEF Honest
    <3>3. CASE /\ state'[m] = "running" /\ image'[m] = NewImage(m) /\ m \in recreated'
               /\ result'[m] = IF Explicit(m) THEN "Updated" ELSE "Restarted"
      BY <1>1, <2>1, <3>3 DEF Honest, NewImage
    <3> QED BY <2>2, <2>3, <2>4, <3>1, <3>2, <3>3 DEF TypeOK
  <2>5. CASE m # n
    <3>1. state'[m] = state[m] /\ image'[m] = image[m] /\ result'[m] = result[m] /\ recreated \subseteq recreated'
      BY <2>3, <2>5 DEF TypeOK, world
    <3> QED BY <1>1, <2>1, <3>1 DEF Honest
  <2> QED BY <2>4, <2>5
<1>10. CASE Trigger
  <2>1. phase = "trigger" /\ phase' = "trigger" /\ at \in 1..Len(self) /\ UNCHANGED <<world, groups, processed>>
    BY <1>10 DEF Trigger, Lengths, compose
  <2>2. result'[m] = result[m] \/ SelfUpdate(m)
    BY <1>10, <2>1 DEF Trigger, SetResult, TypeOK
  <2> QED BY <1>3, <2>1, <2>2
<1>11. CASE Killed
  <2>1. phase' = "killed" /\ UNCHANGED <<state, image, recreated, result>>
    BY <1>11 DEF Killed, world
  <2> QED BY <1>1, <2>1 DEF Honest
<1>12. CASE UNCHANGED vars
  BY <1>1, <1>12 DEF vars, compose, world, Honest, Served
<1> QED BY <1>2, <1>4, <1>5, <1>6, <1>7, <1>8, <1>9, <1>10, <1>11, <1>12 DEF Next

LEMMA KilledNotGrouping ==
  ASSUME "own" \notin Roles, TypeOK, Triggers, Killed
  PROVE  phase # "group"
BY KilledByTrigger

(* Without faults, a candidate gets the result it is planned for.          *)
LEMMA SmoothStep ==
  ASSUME "own" \notin Roles, TypeOK, Lengths, Fixed, Queues, Grouped, Triggers, Standing, [Next]_vars,
         NEW m \in Names, HasResult(m), Smooth(m)
  PROVE  Smooth(m)'
<1>1. UNCHANGED <<plan, project, role>> /\ (SelfUpdate(m)' <=> SelfUpdate(m))
  BY FixedStep DEF candidates, SelfUpdate
<1>2. faults \in Nat /\ (Faulty => faults' # 0)
  BY MaxFaultsAssumption DEF TypeOK, Faulty
<1> USE QueueFacts
<1>3. CASE BuildGroups
  <2>1. /\ phase = "group" /\ phase' = "dispatch" /\ UNCHANGED <<inspected, result, processed>>
        /\ processed = {} /\ result[m] = "none"
    BY <1>3 DEF BuildGroups, Grouped, HasResult
  <2>2. PICK known \in SUBSET Projects, missed \in SUBSET {n \in Names : Eligible(n)} :
          /\ IF missed = {} THEN Faultless ELSE Faulty
          /\ groups' = [p \in Projects |->
               IF p \in known THEN {n \in Names : Eligible(n) /\ project[n] = p} \ missed ELSE {}]
    BY <1>3 DEF BuildGroups
  <2>3. ASSUME Served(m)', plan[m] # "none", ~SelfUpdate(m), m \in inspected, missed = {}
        PROVE  m \in groups'[project[m]]
    <3>1. project[m] \in Projects /\ groups'[project[m]] # {}
      BY <1>1, <2>3 DEF Served, TypeOK
    <3>2. Eligible(m)
      BY <2>3, <3>1, LabelledOnly, NoProjectAssumption DEF Eligible
    <3> QED BY <2>2, <2>3, <3>1, <3>2
  <2>4. CASE missed = {}
    BY <1>1, <2>1, <2>2, <2>3, <2>4 DEF Smooth, Faultless
  <2>5. CASE missed # {}
    BY <1>2, <2>2, <2>5 DEF Smooth
  <2> QED BY <2>4, <2>5
(* Steps that leave the containers alone, and give m its result.           *)
<1>4. ASSUME phase # "group", phase' # "group", UNCHANGED <<world, groups, processed>>,
             inspected \subseteq inspected',
             faults' = 0 => /\ faults = 0
                            /\ \/ result'[m] = result[m]
                               \/ result'[m] = "Checked"
                               \/ plan[m] = "none" /\ result'[m] = "Skipped"
                               \/ SelfUpdate(m) /\ result'[m] = "Updated"
                               \/ Served(m) /\ ~SelfUpdate(m) /\ result'[m] = "Updated"
                               \/ /\ Served(m) /\ ~SelfUpdate(m) /\ result'[m] = "Failed"
                                  /\ plan[m] # "explicit" /\ project[m] \in processed
                                  /\ m \in recreated /\ image[m] = "old"
      PROVE  Smooth(m)'
  <2>1. Served(m)' <=> Served(m)
    BY <1>1, <1>4 DEF Served
  <2> QED BY <1>1, <1>4, <2>1 DEF Smooth, world
<1>5. ASSUME NEW n \in Names, LateInspect(n) PROVE Smooth(m)'
  <2>1. /\ phase = "dispatch" /\ phase' = phase /\ UNCHANGED <<world, groups, processed>>
        /\ inspected \subseteq inspected'
        /\ (faults' = faults /\ result' = result) \/ Faulty
    BY <1>5 DEF LateInspect, Dispatching, compose, Faultless
  <2> QED BY <1>2, <1>4, <2>1
<1>6. ASSUME NEW n \in Names, SkipUnmatched(n) PROVE Smooth(m)'
  <2>1. /\ phase = "dispatch" /\ phase' = phase /\ UNCHANGED <<world, groups, processed, inspected, faults>>
        /\ plan[n] = "none" /\ result' = [result EXCEPT ![n] = "Skipped"]
    BY <1>6 DEF SkipUnmatched, Dispatching, compose, SetResult
  <2>2. result'[m] = result[m] \/ (plan[m] = "none" /\ result'[m] = "Skipped")
    BY <2>1 DEF TypeOK
  <2> QED BY <1>4, <2>1, <2>2
<1>7. ASSUME NEW n \in Names, Defer(n) PROVE Smooth(m)'
  <2>1. /\ phase = "dispatch" /\ phase' = phase /\ UNCHANGED <<world, groups, processed, inspected, faults>>
        /\ result' = [result EXCEPT ![n] = "Checked"]
    BY <1>7 DEF Defer, Routable, Dispatching, compose, SetResult
  <2>2. result'[m] = result[m] \/ result'[m] = "Checked"
    BY <2>1 DEF TypeOK
  <2> QED BY <1>4, <2>1, <2>2
<1>8. ASSUME NEW n \in Names, UpdateProject(n) PROVE Smooth(m)'
  <2> DEFINE p == project[n]
  <2>1. /\ phase = "dispatch" /\ phase' = "verify" /\ UNCHANGED <<result, groups, inspected>> /\ p \in Projects
        /\ processed' \subseteq processed \cup {p} /\ processed \subseteq processed'
    BY <1>8 DEF UpdateProject, Routable, Dispatching, Served, queues, TypeOK
  <2>2. Served(m)' <=> Served(m)
    BY <1>1, <2>1 DEF Served
  <2>3. CASE UNCHANGED <<world, processed, faults>>
    BY <1>1, <2>1, <2>2, <2>3 DEF Smooth, world
  <2>4. CASE Faulty
    BY <1>2, <2>4 DEF Smooth
  <2>5. CASE /\ faults' = faults
             /\ state' = [k \in Names |-> IF k \in groups[p] THEN "running" ELSE state[k]]
             /\ image' \in ComposeImages(groups[p]) /\ recreated' = recreated \cup groups[p]
             /\ p \notin processed
    <3>1. CASE m \in groups[p]
      <4>1. state'[m] = "running" /\ m \in recreated' /\ (plan[m] = "explicit" => image'[m] = "new")
        BY <2>5, <3>1, ComposeImagesTyped
      <4>2. project[m] = p
        BY <2>1, <3>1 DEF Grouped
      <4> QED BY <1>1, <2>1, <2>2, <2>5, <4>1, <4>2 DEF Smooth
    <3>2. CASE m \notin groups[p]
      <4>1. state'[m] = state[m] /\ image'[m] = image[m] /\ recreated \subseteq recreated'
        BY <2>5, <3>2, ComposeImagesTyped
      <4>2. faults = 0 /\ Served(m) /\ plan[m] # "none" /\ ~SelfUpdate(m) => project[m] # p
        BY <2>1, <3>2 DEF Smooth
      <4> QED BY <1>1, <2>1, <2>2, <2>5, <4>1, <4>2 DEF Smooth
    <3> QED BY <3>1, <3>2
  <2> QED BY <1>8, <2>3, <2>4, <2>5 DEF UpdateProject, Faultless
<1>9. ASSUME NEW n \in Names, VerifyService(n) PROVE Smooth(m)'
  <2>1. /\ phase = "verify" /\ phase' = "dispatch" /\ UNCHANGED <<world, groups, processed, inspected>>
        /\ ~SelfUpdate(n) /\ Served(n) /\ project[n] \in processed /\ plan[n] # "none"
    BY <1>9 DEF VerifyService, Grouped, compose
  <2>2. CASE Faulty
    BY <1>2, <2>2 DEF Smooth
  <2>3. CASE /\ faults' = faults
             /\ SetResult(n, IF state[n] = "running" /\ image[n] = "new" THEN "Updated" ELSE "Failed")
    <3>1. CASE m # n
      <4>1. result'[m] = result[m]
        BY <2>3, <3>1 DEF SetResult, TypeOK
      <4> QED BY <1>4, <2>1, <2>3, <4>1
    <3>2. CASE m = n
      <4>1. faults = 0 => /\ state[n] = "running" /\ n \in recreated
                          /\ plan[n] = "explicit" => image[n] = "new"
        BY <2>1, <3>2 DEF Smooth
      <4>2. result'[m] = IF state[n] = "running" /\ image[n] = "new" THEN "Updated" ELSE "Failed"
        BY <2>3, <3>2 DEF SetResult, TypeOK
      <4>3. image[n] \in {"old", "new"}
        BY DEF TypeOK
      <4>4. faults' = 0 => \/ result'[m] = "Updated"
                           \/ /\ result'[m] = "Failed" /\ plan[m] # "explicit"
                              /\ m \in recreated /\ image[m] = "old"
        BY <2>3, <3>2, <4>1, <4>2, <4>3
      <4> QED BY <1>4, <2>1, <2>3, <3>2, <4>4
    <3> QED BY <3>1, <3>2
  <2> QED BY <1>9, <2>2, <2>3 DEF VerifyService, Faultless
<1>10. CASE EndDispatch \/ EndStop \/ EndCreate \/ EndTrigger \/ Killed
  <2>1. phase # "group" => phase' # "group"
    BY <1>10 DEF EndDispatch, EndStop, EndCreate, EndTrigger, Killed
  <2>2. phase # "group"
    BY <1>10, KilledNotGrouping DEF EndDispatch, EndStop, EndCreate, EndTrigger
  <2>3. UNCHANGED <<world, groups, processed, inspected, result, faults>>
    BY <1>10 DEF EndDispatch, EndStop, EndCreate, EndTrigger, Killed, compose
  <2> QED BY <1>4, <2>1, <2>2, <2>3
<1>11. CASE Stop
  <2> DEFINE n == standalone[at]
  <2>1. phase = "stop" /\ phase' = "stop" /\ at \in 1..Len(standalone)
        /\ UNCHANGED <<image, recreated, groups, processed, inspected>>
    BY <1>11 DEF Stop, Lengths, compose
  <2>2. n \in Names /\ ~Served(n)
    BY <2>1 DEF Queues
  <2>3. Served(m)' <=> Served(m)
    BY <1>1, <2>1 DEF Served
  <2>4. CASE Faulty
    BY <1>2, <2>4 DEF Smooth
  <2>5. CASE faults' = faults /\ state' = [state EXCEPT ![n] = "removed"] /\ result' = result
    <3>1. Served(m) => state'[m] = state[m]
      BY <2>2, <2>5 DEF TypeOK
    <3> QED BY <1>1, <2>1, <2>3, <2>5, <3>1 DEF Smooth
  <2> QED BY <1>11, <2>4, <2>5 DEF Stop, StopRemove, Faultless
<1>12. CASE Create
  <2> DEFINE n == standalone[at]
  <2>1. /\ phase = "create" /\ phase' = "create" /\ at \in 1..Len(standalone)
        /\ UNCHANGED <<groups, processed, inspected>>
    BY <1>12 DEF Create, Lengths, compose
  <2>2. n \in Names /\ ~Served(n) /\ ~SelfUpdate(n) /\ plan[n] # "none"
    BY <2>1 DEF Queues
  <2>3. Served(m)' <=> Served(m)
    BY <1>1, <2>1 DEF Served
  <2>4. CASE Faulty
    BY <1>2, <2>4 DEF Smooth
  <2>5. CASE UNCHANGED <<world, result, faults>>
    BY <1>1, <2>1, <2>3, <2>5 DEF Smooth, world
  <2>6. CASE /\ faults' = faults
             /\ state' = [state EXCEPT ![n] = "running"] /\ image' = [image EXCEPT ![n] = NewImage(n)]
             /\ recreated \subseteq recreated'
             /\ result' = [result EXCEPT ![n] = IF Explicit(n) THEN "Updated" ELSE "Restarted"]
    <3> HIDE DEF n
    <3>1. CASE m = n
      <4>1. result'[m] = IF Explicit(m) THEN "Updated" ELSE "Restarted"
        BY <2>6, <3>1 DEF TypeOK
      <4> QED BY <1>1, <2>1, <2>2, <2>3, <2>6, <3>1, <4>1 DEF Smooth, Explicit
    <3>2. CASE m # n
      <4>1. state'[m] = state[m] /\ image'[m] = image[m] /\ result'[m] = result[m]
        BY <2>6, <3>2 DEF TypeOK
      <4> QED BY <1>1, <2>1, <2>3, <2>6, <4>1 DEF Smooth
    <3> QED BY <3>1, <3>2
  <2> QED BY <1>12, <2>4, <2>5, <2>6 DEF Create, Faultless, SetResult
<1>13. CASE Trigger
  <2>1. /\ phase = "trigger" /\ phase' = "trigger" /\ at \in 1..Len(self)
        /\ UNCHANGED <<world, groups, processed, inspected>>
    BY <1>13 DEF Trigger, Lengths, compose
  <2>2. Faulty \/ (faults' = faults /\ result' = [result EXCEPT ![self[at]] = "Updated"])
    BY <1>13 DEF Trigger, Faultless, SetResult
  <2>3. CASE Faulty
    BY <1>2, <2>3 DEF Smooth
  <2>4. CASE faults' = faults /\ result' = [result EXCEPT ![self[at]] = "Updated"]
    <3>1. result'[m] = result[m] \/ (result'[m] = "Updated" /\ SelfUpdate(m))
      BY <2>1, <2>4 DEF TypeOK
    <3> QED BY <1>4, <2>1, <2>4, <3>1
  <2> QED BY <2>2, <2>3, <2>4
<1>14. CASE UNCHANGED vars
  BY <1>1, <1>14 DEF vars, compose, world, Smooth, Served
<1> QED BY <1>3, <1>5, <1>6, <1>7, <1>8, <1>9, <1>10, <1>11, <1>12, <1>13, <1>14 DEF Next

-----------------------------------------------------------------------------
Inv == TypeOK /\ Lengths /\ Fixed /\ Grouped /\ Queues /\ Triggers /\ Standing

LEMMA InvHolds == Spec => []Inv
<1>1. Init => Inv
  <2> SUFFICES ASSUME Init PROVE Inv
    OBVIOUS
  <2>1. TypeOK /\ Lengths /\ Fixed
    BY InitFacts
  <2>2. Grouped /\ Queues
    BY DEF Init, Grouped, Queues
  <2>3. Triggers /\ Standing
    BY DEF Init, Triggers, Standing, Stands, NoDependentWithoutDependency
  <2> QED BY <2>1, <2>2, <2>3 DEF Inv
<1>2. Inv /\ [Next]_vars => Inv'
  BY TypeStep, FixedStep, GroupedStep, QueuesStep, TriggersStep, StandingStep DEF Inv
<1> QED BY <1>1, <1>2, PTL DEF Spec

LEMMA AllTrueHolds ==
  ASSUME "own" \notin Roles
  PROVE  Spec => []AllTrue
<1>1. Init /\ Inv => AllTrue
  <2> SUFFICES ASSUME Init, NEW n \in Names PROVE True(n)
    BY DEF AllTrue
  <2>1. faults = 0 => n \in inspected
    <3>1. IsFiniteSet(Names \ inspected)
      BY OrderFacts, FS_Subset
    <3>2. faults = 0 => Names \ inspected = {}
      BY <3>1, FS_EmptySet DEF Init
    <3> QED BY <3>2
  <2>2. ~Served(n)
    BY DEF Init, Served
  <2> QED BY <2>1, <2>2 DEF Init, True, HasResult, Honest, Smooth
<1>2. Inv /\ AllTrue /\ [Next]_vars => AllTrue'
  <2> SUFFICES ASSUME Inv, AllTrue, [Next]_vars, NEW n \in Names PROVE True(n)'
    BY DEF AllTrue
  <2>1. HasResult(n) /\ Honest(n) /\ Smooth(n)
    BY DEF AllTrue, True
  <2> QED BY <2>1, HasResultStep, HonestStep, SmoothStep DEF Inv, True
<1> QED BY <1>1, <1>2, InvHolds, PTL DEF Spec

(* The queues, indices and results of a pass keep their types (TypeOK).    *)
THEOREM TypeCorrect == Spec => []TypeOK
BY InvHolds, PTL DEF Inv

(* Dependents go down before their dependencies and come up after them     *)
(* (NoDependentWithoutDependency).                                         *)
THEOREM NoDependentWithoutDependencyHolds == Spec => []NoDependentWithoutDependency
<1>1. Inv => NoDependentWithoutDependency
  BY DEF Inv, Standing
<1> QED BY <1>1, InvHolds, PTL

(* Labelled self-update targets are only triggered, that of this process   *)
(* last of all (SelfUpdatesComeLast).                                      *)
THEOREM SelfUpdatesComeLastHolds == Spec => []SelfUpdatesComeLast
<1>1. Inv => SelfUpdatesComeLast
  BY DEF Inv, Triggers, SelfUpdatesComeLast
<1> QED BY <1>1, InvHolds, PTL

(* Unless the process runs in an unlabelled candidate, a result tells what *)
(* became of the container, and is the planned one when nothing fails      *)
(* (ResultsAreTrue).                                                       *)
THEOREM ResultsAreTrueHolds ==
  ASSUME "own" \notin Roles
  PROVE  Spec => []ResultsAreTrue
<1>1. Inv /\ AllTrue => ResultsAreTrue
  <2> SUFFICES ASSUME Inv, AllTrue, Over, NEW n \in Names, ~SelfUpdate(n)
               PROVE  /\ result[n] = "Updated" => state[n] = "running" /\ image[n] = "new"
                      /\ result[n] = "Restarted" => state[n] = "running" /\ n \in recreated
                      /\ state[n] # "running" => result[n] = "Failed"
                      /\ faults = 0 /\ plan[n] = "explicit" => result[n] = "Updated"
                      /\ faults = 0 /\ plan[n] = "retagged" /\ ~Served(n) => result[n] = "Updated"
                      /\ faults = 0 /\ plan[n] = "implicit" /\ ~Served(n) => result[n] = "Restarted"
                      /\ faults = 0 /\ result[n] = "Failed" =>
                           Served(n) /\ n \in recreated /\ image[n] = "old"
    BY DEF ResultsAreTrue
  <2>1. HasResult(n) /\ Honest(n) /\ Smooth(n) /\ result[n] \in Statuses
    BY ResultTyped DEF AllTrue, True, Inv
  <2>2. result[n] \notin {"none", "Checked"}
    BY <2>1 DEF HasResult, Over
  <2> QED BY <2>1, <2>2 DEF Honest, Smooth, Statuses
<1> QED BY <1>1, InvHolds, AllTrueHolds, PTL

(* ... and every candidate has one when the pass is over, or cut short by  *)
(* its own self-update (NobodyIsLeftBehind).                               *)
THEOREM NobodyIsLeftBehindHolds ==
  ASSUME "own" \notin Roles
  PROVE  Spec => []NobodyIsLeftBehind
<1>1. Inv /\ AllTrue => NobodyIsLeftBehind
  <2> SUFFICES ASSUME Inv, AllTrue, Over, NEW n \in Names
               PROVE  result[n] \notin {"none", "Checked"} \/ (SelfUpdate(n) /\ phase = "killed")
    BY DEF NobodyIsLeftBehind
  <2>1. HasResult(n)
    BY DEF AllTrue, True
  <2>2. result[n] # "none"
    BY <2>1 DEF HasResult, Over
  <2>3. CASE ~SelfUpdate(n)
    BY <2>1, <2>2, <2>3 DEF HasResult, Over
  <2>4. CASE SelfUpdate(n) /\ phase = "done"
    <3>1. \A i \in 1..Len(self) : i < at
      BY <2>4, QueueFacts DEF Inv, Triggers
    <3>2. \A i \in 1..Len(self) : result[self[i]] # "Checked"
      BY <2>4, <3>1 DEF Inv, Triggers
    <3> QED BY <2>1, <2>2, <2>4, <3>2 DEF HasResult
  <2> QED BY <2>3, <2>4 DEF Over
<1> QED BY <1>1, InvHolds, AllTrueHolds, PTL
=============================================================================
