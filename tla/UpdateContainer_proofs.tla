----------------------- MODULE UpdateContainer_proofs ------------------------
(***************************************************************************)
(* What calls of UpdateContainer report is true or taken back by a call    *)
(* that reports a failure, none loses a container unreported, and what they*)
(* clear was applied, for any number of concurrent calls, containers,      *)
(* references and records.                                                 *)
(***************************************************************************)
EXTENDS UpdateContainer, TLAPS

(* What a call may hold: its type, and records to clear only while clearing.*)
Typed(c) == c \in Call /\ (c.due # {} => c.pc = "clear")

Attempting == {"create", "start", "inspect", "record", "cleanup"}
Asking     == {"pull", "compare", "route", "compose", "stop", "remove"} \cup Attempting
Pcs        == {"idle", "records", "clear", "done"} \cup Asking
Results    == {"Skipped", "Unchanged", "Failed", "Updated"}

(* A call is replaced by a typed one.                                      *)
LEMMA PutTyped ==
  ASSUME TypeOK, NEW w \in Calls, NEW c, Typed(c), call' = [call EXCEPT ![w] = c]
  PROVE  call' \in [Calls -> Call] /\ \A v \in Calls : Typed(call'[v])
BY DEF TypeOK, Typed

(* The ways a call goes on.                                                *)
LEMMA GoesOnTyped ==
  ASSUME TypeOK, NEW w \in Calls, call[w].due = {},
         \/ \E pc \in Pcs : Goto(w, pc)
         \/ \E res \in Results : Return(w, res) \/ Applied(w, res)
         \/ NextAttempt(w)
  PROVE  call' \in [Calls -> Call] /\ \A v \in Calls : Typed(call'[v])
<1>1. call[w] \in Call
  BY DEF TypeOK
<1>2. ASSUME NEW pc \in Pcs, Goto(w, pc)
      PROVE  call' \in [Calls -> Call] /\ \A v \in Calls : Typed(call'[v])
  <2> DEFINE c == [call[w] EXCEPT !.pc = pc]
  <2>1. Typed(c)
    BY <1>1 DEF Typed, Call, Pcs, Asking, Attempting
  <2>2. call' = [call EXCEPT ![w] = c]
    BY <1>2 DEF Goto
  <2> HIDE DEF c
  <2> QED BY <2>1, <2>2, PutTyped
<1>3. ASSUME NEW pc \in {"done", "records"}, NEW res \in Results,
             call' = [call EXCEPT ![w].pc = pc, ![w].result = res]
      PROVE  call' \in [Calls -> Call] /\ \A v \in Calls : Typed(call'[v])
  <2> DEFINE c == [call[w] EXCEPT !.pc = pc, !.result = res]
  <2>1. Typed(c)
    BY <1>1 DEF Typed, Call, Results
  <2>2. call' = [call EXCEPT ![w] = c]
    BY <1>1, <1>3 DEF TypeOK, Call
  <2> HIDE DEF c
  <2> QED BY <2>1, <2>2, PutTyped
<1>4. ASSUME call' = [call EXCEPT ![w].pc = "create", ![w].attempt = "rollback", ![w].own = 0]
      PROVE  call' \in [Calls -> Call] /\ \A v \in Calls : Typed(call'[v])
  <2> DEFINE c == [call[w] EXCEPT !.pc = "create", !.attempt = "rollback", !.own = 0]
  <2>1. Typed(c)
    BY <1>1 DEF Typed, Call
  <2>2. call' = [call EXCEPT ![w] = c]
    BY <1>1, <1>4 DEF TypeOK, Call
  <2> HIDE DEF c
  <2> QED BY <2>1, <2>2, PutTyped
<1>5. "Failed" \in Results
  BY DEF Results
<1> QED BY <1>2, <1>3, <1>4, <1>5 DEF Return, Applied, NextAttempt

LEMMA StepTyped ==
  ASSUME TypeOK, NEW w \in Calls, Step(w)
  PROVE  call' \in [Calls -> Call] /\ \A v \in Calls : Typed(call'[v])
<1>1. call[w] \in Call /\ (call[w].pc # "clear" => call[w].due = {}) /\ call[w].target \in Containers
  BY DEF TypeOK, Call
<1>2. Ref[call[w].target] \in Refs
  BY <1>1, RefAssumption
<1>3. CASE Begin(w)
  <2> DEFINE from == IF Target(w) \in pinned THEN "image" ELSE "reference"
  <2> DEFINE c == [call[w] EXCEPT !.pc = "pull", !.id = life[Target(w)], !.image = runs[Target(w)],
                                  !.from = from, !.since = remote[TargetRef(w)]]
  <2>1. c \in Call /\ c.due = {}
    <3>1. from \in {"reference", "image"}
      OBVIOUS
    <3> HIDE DEF from
    <3> QED BY <1>1, <1>2, <1>3, <3>1 DEF Begin, At, Call, TypeOK, Target, TargetRef
  <2>2. call' = [call EXCEPT ![w] = c]
    BY <1>3 DEF Begin
  <2> QED BY <2>1, <2>2 DEF TypeOK, Typed
<1>4. CASE \/ Skip(w) \/ Pull(w) \/ Compare(w) \/ Trigger(w) \/ ChooseRoute(w) \/ UpdateService(w)
           \/ Stop(w) \/ Remove(w) \/ Start(w) \/ Inspect(w) \/ Record(w) \/ Cleanup(w)
  <2>1. call[w].due = {}
    BY <1>1, <1>4 DEF Skip, Pull, Compare, Trigger, ChooseRoute, UpdateService, Stop, Remove, Start, Inspect,
                      Record, Cleanup, At
  <2>2. \/ \E pc \in Pcs : Goto(w, pc)
        \/ \E res \in Results : Return(w, res) \/ Applied(w, res)
        \/ NextAttempt(w)
    BY <1>4 DEF Skip, Pull, Compare, Trigger, ChooseRoute, UpdateService, Stop, Remove, Start, Inspect, Record,
                Cleanup, Pcs, Asking, Attempting, Results
  <2> QED BY <2>1, <2>2, GoesOnTyped
<1>5. CASE Create(w)
  <2>1. call[w].due = {}
    BY <1>1, <1>5 DEF Create, At
  <2>2. CASE NextAttempt(w)
    BY <2>1, <2>2, GoesOnTyped
  <2>3. CASE call' = [call EXCEPT ![w].pc = "start", ![w].own = life[Target(w)] + 1]
    <3>1. life[Target(w)] + 1 \in Nat
      BY <1>1 DEF TypeOK, Target
    <3> QED BY <1>1, <2>1, <2>3, <3>1 DEF TypeOK, Typed, Call
  <2> QED BY <1>5, <2>2, <2>3 DEF Create
<1>6. CASE ReadRecords(w)
  <2> DEFINE due == {r \in pending : NewRef[r] = TargetRef(w)}
  <2>1. CASE call' = [call EXCEPT ![w].pc = "clear", ![w].due = due]
    <3> DEFINE c == [call[w] EXCEPT !.pc = "clear", !.due = due]
    <3>1. due \subseteq Records
      BY DEF TypeOK
    <3> HIDE DEF due
    <3>2. call' = [call EXCEPT ![w] = c]
      BY <1>1, <2>1 DEF TypeOK, Call
    <3>3. c \in Call /\ c.pc = "clear"
      BY <1>1, <3>1 DEF Call
    <3> HIDE DEF c
    <3> QED BY <3>2, <3>3 DEF TypeOK, Typed
  <2>2. CASE Goto(w, "done")
    <3>1. call[w].due = {} /\ "done" \in Pcs
      BY <1>1, <1>6 DEF ReadRecords, At, Pcs
    <3> QED BY <2>2, <3>1, GoesOnTyped
  <2> QED BY <1>6, <2>1, <2>2 DEF ReadRecords
<1>7. CASE \E r \in Records : Clear(w, r)
  <2>1. PICK r \in Records : Clear(w, r)
    BY <1>7
  <2> DEFINE due == call[w].due \ {r}
  <2>2. due \subseteq Records /\ call[w].pc = "clear"
    BY <1>1, <2>1 DEF Call, Clear, At
  <2>3. call' = [call EXCEPT ![w].due = due]
    BY <2>1 DEF Clear
  <2> HIDE DEF due
  <2> QED BY <2>2, <2>3 DEF TypeOK, Typed, Call
<1>8. CASE Finish(w)
  <2>1. call[w].due = {} /\ Goto(w, "done") /\ "done" \in Pcs
    BY <1>8 DEF Finish, Pcs
  <2> QED BY <2>1, GoesOnTyped
<1> QED BY <1>3, <1>4, <1>5, <1>6, <1>7, <1>8 DEF Step

(* What a step does to the world: a pull, or a request about one container.*)
LEMMA StepEffect ==
  ASSUME NEW w \in Calls, Step(w)
  PROVE  /\ UNCHANGED <<route, remote>>
         /\ local' \in {local, [local EXCEPT ![TargetRef(w)] = remote[TargetRef(w)]]}
         /\ \/ UNCHANGED replaced
            \/ UNCHANGED local /\ FromReference(Target(w))
            \/ UNCHANGED local /\ call[w].attempt = "rollback" /\ At(w, "create")
                                /\ FromImage(Target(w), call[w].image)
            \/ UNCHANGED local /\ Take(Target(w))
         /\ faults' = faults \/ (faults < MaxFaults /\ faults' = faults + 1)
<1>1. CASE \/ Begin(w) \/ Skip(w) \/ Pull(w) \/ Compare(w) \/ Trigger(w) \/ ChooseRoute(w)
           \/ ReadRecords(w) \/ Finish(w) \/ \E r \in Records : Clear(w, r)
  BY <1>1 DEF Begin, Skip, Pull, Compare, Trigger, ChooseRoute, ReadRecords, Finish, Clear, world, daemon,
              Faulty, Faultless
<1>2. CASE UpdateService(w)
  BY <1>2 DEF UpdateService, daemon, Faulty, Faultless
<1>3. CASE Stop(w) \/ Start(w) \/ Inspect(w) \/ Record(w)
  BY <1>3 DEF Stop, Start, Inspect, Record, world, daemon, Faulty, Faultless
<1>4. CASE Remove(w) \/ Cleanup(w)
  BY <1>4 DEF Remove, Cleanup, daemon, Faulty, Faultless
<1>5. CASE Create(w)
  BY <1>5 DEF Create, PutAttempt, Faulty, Faultless
<1> QED BY <1>1, <1>2, <1>3, <1>4, <1>5 DEF Step

(* Running containers are among those there are.                           *)
LEMMA StepUp ==
  ASSUME TypeOK, NEW w \in Calls, Step(w)
  PROVE  up' \subseteq exists'
<1>1. up \subseteq exists
  BY DEF TypeOK
<1>2. CASE \/ Begin(w) \/ Skip(w) \/ Pull(w) \/ Compare(w) \/ Trigger(w) \/ ChooseRoute(w)
           \/ ReadRecords(w) \/ Finish(w) \/ Inspect(w) \/ Record(w) \/ \E r \in Records : Clear(w, r)
  BY <1>1, <1>2 DEF Begin, Skip, Pull, Compare, Trigger, ChooseRoute, ReadRecords, Finish, Inspect, Record,
                    Clear, world, daemon, replaced
<1>3. CASE UpdateService(w)
  BY <1>1, <1>3 DEF UpdateService, FromReference, Put, Take, daemon, replaced
<1>4. CASE Stop(w) \/ Start(w)
  BY <1>1, <1>4 DEF Stop, Start, Holds, replaced
<1>5. CASE Remove(w) \/ Cleanup(w)
  BY <1>1, <1>5 DEF Remove, Cleanup, Take, daemon, replaced
<1>6. CASE Create(w)
  BY <1>1, <1>6 DEF Create, PutAttempt, FromReference, FromImage, Put, replaced
<1> QED BY <1>2, <1>3, <1>4, <1>5, <1>6 DEF Step

-----------------------------------------------------------------------------
(* Versions stay within what has been published (TypeOK).                  *)
THEOREM TypeCorrect == Spec => []TypeOK
<1>1. Init => TypeOK
  <2> SUFFICES ASSUME Init PROVE TypeOK
    OBVIOUS
  <2>1. 0 \in Versions
    BY BoundsAssumption DEF Versions
  <2>2. ASSUME NEW w \in Calls PROVE call[w] \in Call /\ call[w].due = {}
    <3>1. PICK m \in Modes, c \in Containers :
            call[w] = [pc |-> "idle", mode |-> m, target |-> c, id |-> 0, image |-> 0, from |-> "reference",
                       since |-> 0, attempt |-> "update", own |-> 0, due |-> {}, result |-> "none"]
      BY DEF Init
    <3> QED BY <2>1, <3>1 DEF Call
  <2>3. call \in [Calls -> Call]
    BY <2>2 DEF Init
  <2>4. route \in [Containers -> Kinds]
    BY DEF Init
  <2> QED BY <2>1, <2>2, <2>3, <2>4, BoundsAssumption DEF Init, TypeOK
<1>2. TypeOK /\ [Next]_vars => TypeOK'
  <2> SUFFICES ASSUME TypeOK, [Next]_vars PROVE TypeOK'
    OBVIOUS
  <2>1. ASSUME NEW w \in Calls, Step(w) PROVE TypeOK'
    <3>1. /\ call' \in [Calls -> Call]
          /\ \A v \in Calls : call'[v].due # {} => call'[v].pc = "clear"
      BY <2>1, StepTyped DEF Typed
    <3>2. pending' \subseteq Records
      BY <2>1 DEF Step, Begin, Skip, Pull, Compare, Trigger, ChooseRoute, UpdateService, Stop, Remove, Create,
                  Start, Inspect, Record, Cleanup, ReadRecords, Clear, Finish, TypeOK
    <3>3. faults' \in 0..MaxFaults
      BY <2>1, StepEffect, BoundsAssumption DEF TypeOK
    <3>4. Target(w) \in Containers /\ TargetRef(w) \in Refs /\ call[w].image \in Versions
      BY RefAssumption DEF TypeOK, Call, Target, TargetRef
    <3>5. local' \in [Refs -> Versions] /\ UNCHANGED <<route, remote>>
      BY <2>1, <3>4, StepEffect DEF TypeOK
    <3>6. local[Ref[Target(w)]] \in Versions
      BY <3>4 DEF TypeOK, TargetRef
    <3>7. /\ exists' \subseteq Containers /\ pinned' \subseteq Containers
          /\ runs' \in [Containers -> Versions] /\ life' \in [Containers -> Nat]
      BY <2>1, <3>4, <3>6, StepEffect DEF TypeOK, FromReference, FromImage, Take, Put, replaced
    <3>8. up' \subseteq exists'
      BY <2>1, StepUp
    <3> QED BY <3>1, <3>2, <3>3, <3>5, <3>7, <3>8 DEF TypeOK
  <2>2. CASE Crash
    <3>1. ASSUME NEW w \in Calls PROVE Typed(call'[w])
      <4>1. call[w] \in Call /\ Typed(call[w])
        BY DEF TypeOK, Typed
      <4>2. CASE call'[w] = call[w]
        BY <4>1, <4>2
      <4>3. CASE call'[w] = [call[w] EXCEPT !.pc = "done", !.due = {}, !.result = "none"]
        BY <4>1, <4>3 DEF Typed, Call
      <4> QED BY <2>2, <4>2, <4>3 DEF Crash
    <3>2. call' \in [Calls -> Call]
      BY <2>2, <3>1 DEF Crash, Typed
    <3>3. UNCHANGED <<route, remote, local, exists, up, runs, life, pinned, pending>>
      BY <2>2 DEF Crash, world, daemon, replaced
    <3>4. faults' \in 0..MaxFaults
      <4>1. faults < MaxFaults /\ faults' = faults + 1
        BY <2>2 DEF Crash, Faulty
      <4> QED BY <4>1, BoundsAssumption DEF TypeOK
    <3> QED BY <3>1, <3>2, <3>3, <3>4 DEF TypeOK, Typed
  <2>3. ASSUME NEW x \in Refs, Publish(x) PROVE TypeOK'
    <3>1. remote' \in [Refs -> Versions]
      BY <2>3, BoundsAssumption DEF Publish, TypeOK, Versions
    <3> QED BY <2>3, <3>1 DEF Publish, daemon, replaced, TypeOK
  <2>4. ASSUME NEW r \in Records, Detect(r) PROVE TypeOK'
    BY <2>4 DEF Detect, world, daemon, replaced, TypeOK
  <2>5. CASE UNCHANGED vars
    BY <2>5 DEF vars, world, daemon, replaced, TypeOK
  <2> QED BY <2>1, <2>2, <2>3, <2>4, <2>5 DEF Next, Environment
<1> QED BY <1>1, <1>2, PTL DEF Spec

-----------------------------------------------------------------------------
(* The inductive invariant: no container runs, and no daemon has, a version*)
(* that was not published; ...                                             *)
Published ==
  /\ \A x \in Refs : local[x] <= remote[x]
  /\ \A c \in Containers : runs[c] <= local[Ref[c]]

(* ... a container created from the ID of an image was so by a rollback; ..*)
PinnedByRollback == \A c \in pinned : \E v \in Calls : RolledBackBy(v, c)

(* ... and what a call knows.  Its container is the one inspected, or one  *)
(* that runs no older image, unless it was rolled back; once the pull is   *)
(* done the daemon has what the registry served at first, and so has the   *)
(* container the call has created; and only a call that has succeeded goes *)
(* on to the records, and to those of its own reference.                   *)
Pulled(w) ==
  \/ call[w].pc \in {"compare", "route", "compose", "stop", "remove", "records", "clear"} \cup Attempting
  \/ Succeeded(w)

Brought(w) ==
  \/ Succeeded(w) /\ route[Target(w)] # "self"
  \/ call[w].attempt = "update" /\ call[w].pc \in {"start", "inspect", "record"}

KnowsItself(w) ==
  /\ call[w].pc \in {"idle"} \cup Asking => call[w].result = "none"
  /\ call[w].pc \in {"records", "clear"} => Succeeded(w)
  /\ call[w].attempt = "rollback" => ~Succeeded(w) /\ call[w].pc \in Attempting \cup {"done"}
  /\ \A r \in call[w].due : NewRef[r] = TargetRef(w)

KnowsWorld(w) ==
  call[w].pc # "idle" =>
    /\ call[w].id <= life[Target(w)]
    /\ call[w].id = life[Target(w)] => call[w].image = runs[Target(w)]
    /\ call[w].image <= local[TargetRef(w)] /\ call[w].since <= remote[TargetRef(w)]
    /\ Target(w) \notin pinned => call[w].image <= runs[Target(w)]
    /\ Pulled(w) => call[w].since <= local[TargetRef(w)]
    /\ Brought(w) /\ Target(w) \notin pinned => call[w].since <= runs[Target(w)]

Knows(w) == KnowsItself(w) /\ KnowsWorld(w)

Inv == TypeOK /\ Published /\ PinnedByRollback /\ OutageIsReported /\ \A w \in Calls : Knows(w)

(* What a step does to the world takes nothing back, but by a rollback.    *)
Grows ==
  /\ route' = route
  /\ \A x \in Refs : local[x] <= local'[x] /\ remote[x] <= remote'[x]
  /\ \A c \in Containers :
       \/ life'[c] = life[c] /\ runs'[c] = runs[c] /\ (c \in pinned' <=> c \in pinned)
       \/ life'[c] > life[c] /\ (c \notin pinned' => runs'[c] = local[Ref[c]])

LEMMA Numbers ==
  ASSUME TypeOK
  PROVE  /\ \A x \in Refs : local[x] \in Nat /\ remote[x] \in Nat
         /\ \A c \in Containers : runs[c] \in Nat /\ life[c] \in Nat /\ Ref[c] \in Refs
         /\ \A w \in Calls : /\ call[w].id \in Nat /\ call[w].image \in Nat /\ call[w].since \in Nat
                             /\ call[w] \in Call /\ Target(w) \in Containers /\ TargetRef(w) \in Refs
<1>1. Versions \subseteq Nat
  BY BoundsAssumption DEF Versions
<1> QED BY <1>1, RefAssumption DEF TypeOK, Call, Target, TargetRef

(* While the world grows, what a call knows of it stays true.              *)
LEMMA WorldStaysKnown ==
  ASSUME TypeOK, TypeOK', Grows, NEW w \in Calls, KnowsWorld(w), call[w].pc # "idle"
  PROVE  /\ call[w].id <= life'[Target(w)]
         /\ call[w].id = life'[Target(w)] => call[w].image = runs'[Target(w)]
         /\ call[w].image <= local'[TargetRef(w)] /\ call[w].since <= remote'[TargetRef(w)]
         /\ Target(w) \notin pinned' => call[w].image <= runs'[Target(w)]
         /\ Pulled(w) => call[w].since <= local'[TargetRef(w)]
         /\ Pulled(w) /\ life'[Target(w)] # life[Target(w)] /\ Target(w) \notin pinned'
              => call[w].since <= runs'[Target(w)]
         /\ Brought(w) /\ Target(w) \notin pinned' => call[w].since <= runs'[Target(w)]
<1> DEFINE t == Target(w)
<1> DEFINE x == TargetRef(w)
<1>1. /\ call[w].id \in Nat /\ call[w].image \in Nat /\ call[w].since \in Nat
      /\ t \in Containers /\ x \in Refs /\ Ref[t] = x
  BY Numbers DEF TargetRef
<1>2. /\ local[x] \in Nat /\ local'[x] \in Nat /\ remote[x] \in Nat /\ remote'[x] \in Nat
      /\ runs[t] \in Nat /\ runs'[t] \in Nat /\ life[t] \in Nat /\ life'[t] \in Nat
  <2>1. Versions \subseteq Nat
    BY BoundsAssumption DEF Versions
  <2> QED BY <1>1, <2>1 DEF TypeOK
<1>3. /\ local[x] <= local'[x] /\ remote[x] <= remote'[x]
      /\ \/ life'[t] = life[t] /\ runs'[t] = runs[t] /\ (t \in pinned' <=> t \in pinned)
         \/ life'[t] > life[t] /\ (t \notin pinned' => runs'[t] = local[x])
  BY <1>1 DEF Grows
<1>4. /\ call[w].id <= life[t]
      /\ call[w].id = life[t] => call[w].image = runs[t]
      /\ call[w].image <= local[x] /\ call[w].since <= remote[x]
      /\ t \notin pinned => call[w].image <= runs[t]
      /\ Pulled(w) => call[w].since <= local[x]
      /\ Brought(w) /\ t \notin pinned => call[w].since <= runs[t]
  BY DEF KnowsWorld
<1>5. Brought(w) => Pulled(w)
  BY DEF Brought, Pulled, Attempting
<1> HIDE DEF t, x
<1>6. CASE life'[t] = life[t] /\ runs'[t] = runs[t] /\ (t \in pinned' <=> t \in pinned)
  BY <1>1, <1>2, <1>3, <1>4, <1>6 DEF t, x
<1>7. CASE life'[t] > life[t] /\ (t \notin pinned' => runs'[t] = local[x])
  BY <1>1, <1>2, <1>3, <1>4, <1>5, <1>7 DEF t, x
<1> QED BY <1>3, <1>6, <1>7

(* What has to be shown of a call that takes a step.                       *)
LEMMA KnowsNext ==
  ASSUME TypeOK, TypeOK', Grows, NEW w \in Calls, KnowsWorld(w), call[w].pc # "idle",
         call'[w].target = call[w].target, call'[w].id = call[w].id,
         call'[w].image = call[w].image, call'[w].since = call[w].since,
         Pulled(w)' => Pulled(w) \/ call[w].since <= local'[TargetRef(w)],
         Brought(w)' /\ Target(w) \notin pinned' => Brought(w) \/ call[w].since <= runs'[Target(w)]
  PROVE  KnowsWorld(w)'
<1>1. Target(w)' = Target(w) /\ TargetRef(w)' = TargetRef(w)
  BY DEF Target, TargetRef
<1>2. /\ call[w].id <= life'[Target(w)]
      /\ call[w].id = life'[Target(w)] => call[w].image = runs'[Target(w)]
      /\ call[w].image <= local'[TargetRef(w)] /\ call[w].since <= remote'[TargetRef(w)]
      /\ Target(w) \notin pinned' => call[w].image <= runs'[Target(w)]
      /\ Pulled(w) => call[w].since <= local'[TargetRef(w)]
      /\ Brought(w) /\ Target(w) \notin pinned' => call[w].since <= runs'[Target(w)]
  BY WorldStaysKnown
<1> QED BY <1>1, <1>2 DEF KnowsWorld

(* A call that does nothing while the world grows knows what it knew.      *)
LEMMA KnowsStays ==
  ASSUME TypeOK, TypeOK', Grows, NEW w \in Calls, Knows(w), call'[w] = call[w]
  PROVE  Knows(w)'
<1>1. /\ Target(w)' = Target(w) /\ TargetRef(w)' = TargetRef(w) /\ route' = route
      /\ Succeeded(w)' <=> Succeeded(w)
  BY DEF Target, TargetRef, Succeeded, Grows
<1>2. (Pulled(w)' <=> Pulled(w)) /\ (Brought(w)' <=> Brought(w))
  BY <1>1 DEF Pulled, Brought
<1>3. KnowsItself(w)'
  BY <1>1 DEF Knows, KnowsItself
<1>4. CASE call[w].pc = "idle"
  BY <1>3, <1>4 DEF Knows, KnowsWorld
<1>5. CASE call[w].pc # "idle"
  BY <1>2, <1>3, <1>5, KnowsNext DEF Knows
<1> QED BY <1>4, <1>5

-----------------------------------------------------------------------------
(* The daemon has no version that was not published, and what there was of *)
(* a container, or is newer, or was inspected by the call that rolls back. *)
LEMMA StepGrows ==
  ASSUME TypeOK, Published, NEW w \in Calls, Step(w), Knows(w)
  PROVE  Published' /\ Grows
<1> DEFINE t == Target(w)
<1> DEFINE x == TargetRef(w)
<1>1. t \in Containers /\ x \in Refs /\ Ref[t] = x /\ call[w].image \in Nat
  BY Numbers DEF TargetRef
<1>2. UNCHANGED <<route, remote>> /\ local' \in {local, [local EXCEPT ![x] = remote[x]]}
  BY StepEffect
<1>3. CASE UNCHANGED replaced
  <2>1. UNCHANGED <<runs, life, pinned>>
    BY <1>3 DEF replaced
  <2>2. \A y \in Refs : local[y] <= local'[y] /\ local'[y] <= remote[y] /\ local'[y] \in Nat
    BY <1>1, <1>2, Numbers DEF TypeOK, Published
  <2>3. ASSUME NEW c \in Containers PROVE runs[c] <= local'[Ref[c]]
    <3>1. /\ runs[c] <= local[Ref[c]] /\ local[Ref[c]] <= local'[Ref[c]] /\ Ref[c] \in Refs
          /\ local'[Ref[c]] \in Nat /\ local[Ref[c]] \in Nat /\ runs[c] \in Nat
      BY <2>2, Numbers DEF Published
    <3> QED BY <3>1
  <2> QED BY <1>2, <2>1, <2>2, <2>3, Numbers DEF Published, Grows
<1>4. ASSUME NEW v \in Nat, UNCHANGED local, Put(t, v), v <= local[x],
             \A c \in Containers \ {t} : c \in pinned' <=> c \in pinned,
             t \notin pinned' => v = local[x]
      PROVE  Published' /\ Grows
  <2>1. /\ runs' = [runs EXCEPT ![t] = v]
        /\ life' = [life EXCEPT ![t] = @ + 1]
    BY <1>4 DEF Put
  <2>2. /\ life'[t] > life[t] /\ runs'[t] = v
        /\ \A c \in Containers \ {t} : life'[c] = life[c] /\ runs'[c] = runs[c]
    BY <1>1, <2>1, Numbers DEF TypeOK
  <2>3. Published'
    BY <1>1, <1>2, <1>4, <2>2 DEF Published
  <2>4. /\ route' = route
        /\ \A y \in Refs : local[y] <= local'[y] /\ remote[y] <= remote'[y]
    BY <1>2, <1>4, Numbers
  <2>5. ASSUME NEW c \in Containers
        PROVE  \/ life'[c] = life[c] /\ runs'[c] = runs[c] /\ (c \in pinned' <=> c \in pinned)
               \/ life'[c] > life[c] /\ (c \notin pinned' => runs'[c] = local[Ref[c]])
    BY <1>1, <1>4, <2>2
  <2> QED BY <2>3, <2>4, <2>5 DEF Grows
<1>5. local[x] \in Nat /\ local[x] <= local[x]
  BY <1>1, Numbers
<1>6. CASE UNCHANGED local /\ FromReference(t)
  <2>1. Put(t, local[x]) /\ pinned' = pinned \ {t}
    BY <1>1, <1>6 DEF FromReference
  <2> QED BY <1>4, <1>5, <1>6, <2>1
<1>7. CASE UNCHANGED local /\ At(w, "create") /\ FromImage(t, call[w].image)
  <2>1. Put(t, call[w].image) /\ pinned' = pinned \cup {t}
    BY <1>7 DEF FromImage
  <2>2. call[w].image <= local[x]
    BY <1>7 DEF Knows, KnowsWorld, At
  <2> QED BY <1>1, <1>4, <1>7, <2>1, <2>2
<1>8. CASE UNCHANGED local /\ Take(t)
  BY <1>2, <1>8, Numbers DEF Take, Published, Grows
<1> QED BY <1>3, <1>6, <1>7, <1>8, StepEffect

LEMMA EnvironmentGrows ==
  ASSUME TypeOK, Published, Environment
  PROVE  Published' /\ Grows
<1>1. UNCHANGED <<route, local, runs, life, pinned>>
  BY DEF Environment, Crash, Publish, Detect, world, daemon, replaced
<1>2. \A x \in Refs : remote[x] <= remote'[x] /\ remote'[x] \in Nat
  <2>1. CASE \E x \in Refs : Publish(x)
    BY <2>1, Numbers DEF Publish, TypeOK
  <2>2. CASE remote' = remote
    BY <2>2, Numbers
  <2> QED BY <2>1, <2>2 DEF Environment, Crash, Detect, world
<1> QED BY <1>1, <1>2, Numbers DEF Published, Grows

-----------------------------------------------------------------------------
(* What a step makes of its call, as far as a call that has begun goes.    *)
Same(w) ==
  /\ call'[w].target = call[w].target /\ call'[w].id = call[w].id
  /\ call'[w].image = call[w].image /\ call'[w].since = call[w].since

(* A call that goes on asking, or ends without success.                    *)
LEMMA KnowsGoingOn ==
  ASSUME TypeOK, TypeOK', Grows, NEW w \in Calls, Knows(w), call[w].pc \in Asking, call[w].due = {},
         \/ \E res \in {"Failed", "Skipped"} : Return(w, res)
         \/ NextAttempt(w) /\ call[w].pc \in Attempting
         \/ \E pc \in {"route", "compose", "stop", "remove", "create"} :
              Goto(w, pc) /\ Pulled(w) /\ call[w].pc \notin Attempting
         \/ \E pc \in {"inspect", "record"} : Goto(w, pc) /\ call[w].pc \in {"start", "inspect"}
         \/ Goto(w, "cleanup") /\ call[w].pc \in Attempting
  PROVE  Knows(w)'
<1>1. call[w] \in Call /\ call[w].result = "none" /\ call[w].pc # "idle"
  BY Numbers DEF Knows, KnowsItself, Asking, Attempting
<1>2. CASE \E res \in {"Failed", "Skipped"} : Return(w, res)
  <2>1. /\ call'[w].pc = "done" /\ call'[w].result \in {"Failed", "Skipped"} /\ call'[w].due = {}
        /\ Same(w)
    BY <1>1, <1>2 DEF Return, TypeOK, Call, Same
  <2>2. ~Succeeded(w)'
    BY <2>1 DEF Succeeded
  <2>3. ~Pulled(w)' /\ ~Brought(w)'
    BY <2>1, <2>2 DEF Pulled, Brought, Attempting
  <2>4. KnowsItself(w)'
    BY <2>1, <2>2 DEF KnowsItself, Asking, Attempting
  <2> QED BY <1>1, <2>1, <2>3, <2>4, KnowsNext DEF Knows, Same
<1>3. CASE call' = [call EXCEPT ![w].pc = "create", ![w].attempt = "rollback", ![w].own = 0]
           /\ call[w].pc \in Attempting
  <2>1. /\ call'[w].pc = "create" /\ call'[w].result = "none" /\ call'[w].due = {}
        /\ call'[w].attempt = "rollback" /\ Same(w)
    BY <1>1, <1>3 DEF TypeOK, Call, Same
  <2>2. ~Succeeded(w)'
    BY <2>1 DEF Succeeded
  <2>3. Pulled(w) /\ ~Brought(w)'
    BY <1>3, <2>1, <2>2 DEF Pulled, Brought
  <2>4. KnowsItself(w)'
    BY <2>1, <2>2 DEF KnowsItself, Asking, Attempting
  <2> QED BY <1>1, <2>1, <2>3, <2>4, KnowsNext DEF Knows, Same
<1>4. ASSUME NEW pc, Goto(w, pc), Pulled(w),
             \/ pc \in {"route", "compose", "stop", "remove", "create"} /\ call[w].pc \notin Attempting
             \/ pc \in {"inspect", "record"} /\ call[w].pc \in {"start", "inspect"}
             \/ pc = "cleanup" /\ call[w].pc \in Attempting
      PROVE  Knows(w)'
  <2>1. /\ call'[w].pc = pc /\ call'[w].result = "none" /\ call'[w].due = {}
        /\ call'[w].attempt = call[w].attempt /\ Same(w)
    BY <1>1, <1>4 DEF Goto, TypeOK, Call, Same
  <2>2. ~Succeeded(w)'
    BY <2>1 DEF Succeeded
  <2>3. Brought(w)' => Brought(w)
    BY <1>4, <2>1, <2>2 DEF Brought
  <2>4. pc \in Asking /\ (call[w].attempt = "rollback" => pc \in Attempting)
    BY <1>1, <1>4 DEF Asking, Attempting, Knows, KnowsItself
  <2>5. KnowsItself(w)'
    BY <2>1, <2>2, <2>4 DEF KnowsItself, Asking, Attempting
  <2>6. pc # "idle"
    BY <2>4 DEF Asking, Attempting
  <2> QED BY <1>1, <1>4, <2>1, <2>3, <2>5, <2>6, KnowsNext DEF Knows, Same
<1>5. call[w].pc \in Attempting => Pulled(w)
  BY DEF Pulled
<1>6. {"start", "inspect"} \subseteq Attempting
  BY DEF Attempting
<1> QED BY <1>2, <1>3, <1>4, <1>5, <1>6 DEF NextAttempt

(* A call that succeeds: its container has what it has to have.            *)
LEMMA KnowsSuccess ==
  ASSUME TypeOK, TypeOK', Grows, NEW w \in Calls, Knows(w), call[w].pc \in Asking, call[w].due = {},
         call[w].attempt = "update", Pulled(w),
         NEW res \in {"Unchanged", "Updated"}, Applied(w, res),
         \/ route[Target(w)] = "self"
         \/ Brought(w)
         \/ Target(w) \notin pinned' => call[w].since <= runs'[Target(w)]
  PROVE  Knows(w)'
<1>1. call[w] \in Call /\ call[w].pc # "idle"
  BY Numbers DEF Asking, Attempting
<1>2. /\ call'[w].pc = "records" /\ call'[w].result = res /\ call'[w].due = {}
      /\ call'[w].attempt = "update" /\ Same(w)
  BY <1>1 DEF Applied, TypeOK, Call, Same
<1>3. Succeeded(w)'
  BY <1>2 DEF Succeeded
<1>4. KnowsItself(w)'
  BY <1>2, <1>3 DEF KnowsItself, Asking, Attempting
<1>5. Brought(w)' => route[Target(w)] # "self"
  BY <1>2 DEF Brought, Grows, Target, Same
<1> QED BY <1>1, <1>2, <1>4, <1>5, KnowsNext DEF Knows, Same

LEMMA StepKnows ==
  ASSUME TypeOK, TypeOK', Published, Grows, NEW w \in Calls, Step(w), Knows(w)
  PROVE  Knows(w)'
<1> DEFINE t == Target(w)
<1> DEFINE x == TargetRef(w)
<1>1. /\ call[w] \in Call /\ t \in Containers /\ x \in Refs /\ Ref[t] = x
      /\ call[w].pc # "clear" => call[w].due = {}
      /\ call[w].since \in Nat /\ call[w].image \in Nat /\ local[x] \in Nat /\ runs[t] \in Nat
      /\ remote[x] \in Nat
  BY Numbers DEF TypeOK, TargetRef
<1>2. /\ call[w].attempt \in {"update", "rollback"}
      /\ call[w].pc \notin Attempting \cup {"done"} => call[w].attempt = "update"
  BY <1>1 DEF Call, Knows, KnowsItself
<1>3. CASE Begin(w)
  <2>1. /\ call'[w].pc = "pull" /\ call'[w].id = life[t] /\ call'[w].image = runs[t]
        /\ call'[w].since = remote[x] /\ call'[w].result = call[w].result
        /\ call'[w].due = call[w].due /\ call'[w].target = call[w].target
        /\ call'[w].attempt = call[w].attempt
    BY <1>1, <1>3 DEF Begin, TypeOK, Call
  <2>2. t' = t /\ x' = x
    BY <2>1 DEF Target, TargetRef
  <2>3. /\ UNCHANGED <<remote, local, runs, life, pinned>>
        /\ call[w].result = "none" /\ call[w].attempt = "update" /\ call[w].due = {}
    BY <1>1, <1>2, <1>3 DEF Begin, At, world, daemon, replaced, Knows, KnowsItself, Attempting
  <2>4. life[t] \in Nat /\ runs'[t] <= local'[x] /\ remote'[x] = remote[x]
    <3>1. runs[t] <= local[x] /\ life[t] \in Nat
      BY <1>1, Numbers DEF Published
    <3> QED BY <2>3, <3>1
  <2>5. ~Succeeded(w)' /\ ~Pulled(w)' /\ ~Brought(w)'
    BY <2>1, <2>3 DEF Succeeded, Pulled, Brought, Attempting
  <2>6. KnowsItself(w)'
    BY <2>1, <2>3, <2>5 DEF KnowsItself, Asking, Attempting
  <2>7. KnowsWorld(w)'
    BY <1>1, <2>1, <2>2, <2>3, <2>4, <2>5 DEF KnowsWorld
  <2> QED BY <2>6, <2>7 DEF Knows
<1>4. CASE Skip(w)
  <2>1. call[w].pc \in Asking /\ call[w].due = {}
    BY <1>1, <1>4 DEF Skip, At, Asking
  <2> QED BY <1>4, <2>1, KnowsGoingOn DEF Skip
<1>5. CASE Pull(w)
  <2>1. call[w].pc = "pull" /\ call[w].pc \in Asking /\ call[w].due = {} /\ call[w].result = "none"
    BY <1>1, <1>5 DEF Pull, At, Asking, Knows, KnowsItself
  <2>2. CASE Return(w, "Failed")
    BY <2>1, <2>2, KnowsGoingOn
  <2>3. CASE Goto(w, "compare") /\ local' = [local EXCEPT ![x] = remote[x]]
    <3>1. /\ call'[w].pc = "compare" /\ call'[w].result = "none" /\ call'[w].due = {}
          /\ call'[w].attempt = "update" /\ Same(w)
      BY <1>1, <1>2, <2>1, <2>3 DEF Goto, TypeOK, Call, Same, Attempting
    <3>2. ~Succeeded(w)' /\ ~Brought(w)'
      BY <3>1 DEF Succeeded, Brought
    <3>3. call[w].since <= local'[x]
      BY <1>1, <2>1, <2>3 DEF TypeOK, Knows, KnowsWorld
    <3>4. KnowsItself(w)'
      BY <3>1, <3>2 DEF KnowsItself, Asking, Attempting
    <3> QED BY <2>1, <3>1, <3>2, <3>3, <3>4, KnowsNext DEF Knows, Same
  <2> QED BY <1>5, <2>2, <2>3 DEF Pull
<1>6. CASE Compare(w)
  <2>1. /\ call[w].pc \in Asking /\ call[w].due = {} /\ call[w].attempt = "update"
        /\ call[w].pc \notin Attempting /\ call[w].pc # "idle" /\ Pulled(w)
    BY <1>1, <1>2, <1>6 DEF Compare, At, Asking, Attempting, Pulled
  <2>2. CASE Goto(w, "route")
    BY <2>1, <2>2, KnowsGoingOn
  <2>3. CASE Applied(w, "Unchanged") /\ call[w].image = local[x] /\ UNCHANGED world
    <3>1. t \notin pinned' => call[w].since <= runs'[t]
      BY <1>1, <2>1, <2>3 DEF Knows, KnowsWorld, world, daemon, replaced
    <3> QED BY <2>1, <2>3, <3>1, KnowsSuccess
  <2> QED BY <1>6, <2>2, <2>3 DEF Compare
<1>7. CASE Trigger(w) \/ ChooseRoute(w)
  <2>1. /\ call[w].pc \in Asking /\ call[w].due = {} /\ call[w].attempt = "update"
        /\ call[w].pc \notin Attempting /\ Pulled(w)
    BY <1>1, <1>2, <1>7 DEF Trigger, ChooseRoute, At, Asking, Attempting, Pulled
  <2>2. CASE Return(w, "Failed") \/ Goto(w, "compose") \/ Goto(w, "stop")
    BY <2>1, <2>2, KnowsGoingOn
  <2>3. CASE Applied(w, "Updated") /\ route[t] = "self"
    BY <2>1, <2>3, KnowsSuccess
  <2> QED BY <1>7, <2>2, <2>3 DEF Trigger, ChooseRoute
<1>8. CASE UpdateService(w)
  <2>1. /\ call[w].pc \in Asking /\ call[w].due = {} /\ call[w].attempt = "update" /\ Pulled(w)
        /\ call[w].pc # "idle"
    BY <1>1, <1>2, <1>8 DEF UpdateService, At, Asking, Attempting, Pulled
  <2>2. CASE Return(w, "Failed")
    BY <2>1, <2>2, KnowsGoingOn
  <2>3. CASE Applied(w, "Updated") /\ FromReference(t)
    <3>1. runs'[t] = local[x]
      BY <1>1, <2>3 DEF FromReference, Put, TypeOK
    <3>2. call[w].since <= runs'[t]
      BY <2>1, <3>1 DEF Knows, KnowsWorld
    <3> QED BY <2>1, <2>3, <3>2, KnowsSuccess
  <2> QED BY <1>8, <2>2, <2>3 DEF UpdateService
<1>9. CASE Stop(w) \/ Remove(w)
  <2>1. /\ call[w].pc \in Asking /\ call[w].due = {} /\ call[w].pc \notin Attempting /\ Pulled(w)
    BY <1>1, <1>9 DEF Stop, Remove, At, Asking, Attempting, Pulled
  <2>2. Return(w, "Failed") \/ Goto(w, "remove") \/ Goto(w, "create")
    BY <1>9 DEF Stop, Remove
  <2> QED BY <2>1, <2>2, KnowsGoingOn
<1>10. CASE Create(w)
  <2>1. /\ call[w].pc = "create" /\ call[w].pc \in Asking /\ call[w].pc \in Attempting
        /\ call[w].due = {} /\ Pulled(w) /\ call[w].result = "none"
    BY <1>1, <1>10 DEF Create, At, Asking, Attempting, Pulled, Knows, KnowsItself
  <2>2. CASE NextAttempt(w)
    BY <2>1, <2>2, KnowsGoingOn
  <2>3. CASE PutAttempt(w) /\ call' = [call EXCEPT ![w].pc = "start", ![w].own = life[t] + 1]
    <3>1. /\ call'[w].pc = "start" /\ call'[w].result = "none" /\ call'[w].due = {}
          /\ call'[w].attempt = call[w].attempt /\ Same(w)
      BY <1>1, <2>1, <2>3 DEF TypeOK, Call, Same
    <3>2. ~Succeeded(w)'
      BY <3>1 DEF Succeeded
    <3>3. call[w].attempt = "update" => call[w].since <= runs'[t]
      <4>1. call[w].attempt = "update" => runs'[t] = local[x]
        BY <1>1, <2>3 DEF PutAttempt, FromReference, Put, TypeOK
      <4>2. call[w].since <= local[x]
        BY <2>1 DEF Knows, KnowsWorld
      <4> QED BY <4>1, <4>2
    <3>4. Brought(w)' => call[w].attempt = "update"
      BY <3>1, <3>2 DEF Brought
    <3>5. KnowsItself(w)'
      BY <3>1, <3>2 DEF KnowsItself, Asking, Attempting
    <3> QED BY <2>1, <3>1, <3>3, <3>4, <3>5, KnowsNext DEF Knows, Same
  <2> QED BY <1>10, <2>2, <2>3 DEF Create
<1>11. CASE Start(w) \/ Inspect(w)
  <2>1. /\ call[w].pc \in {"start", "inspect"} /\ call[w].pc \in Asking /\ call[w].pc \in Attempting
        /\ call[w].due = {}
    BY <1>1, <1>11 DEF Start, Inspect, At, Asking, Attempting
  <2>2. Goto(w, "record") \/ Goto(w, "inspect") \/ Goto(w, "cleanup")
    BY <1>11 DEF Start, Inspect
  <2> QED BY <2>1, <2>2, KnowsGoingOn
<1>12. CASE Record(w)
  <2>1. /\ call[w].pc = "record" /\ call[w].pc \in Asking /\ call[w].pc \in Attempting
        /\ call[w].due = {} /\ Pulled(w)
    BY <1>1, <1>12 DEF Record, At, Asking, Attempting, Pulled
  <2>2. CASE Return(w, "Failed") \/ Goto(w, "cleanup")
    BY <2>1, <2>2, KnowsGoingOn
  <2>3. CASE Applied(w, "Updated") /\ call[w].attempt = "update"
    <3>1. Brought(w)
      BY <2>1, <2>3 DEF Brought
    <3> QED BY <2>1, <2>3, <3>1, KnowsSuccess
  <2> QED BY <1>12, <2>2, <2>3 DEF Record
<1>13. CASE Cleanup(w)
  <2>1. call[w].pc \in Asking /\ call[w].pc \in Attempting /\ call[w].due = {}
    BY <1>1, <1>13 DEF Cleanup, At, Asking, Attempting
  <2> QED BY <1>13, <2>1, KnowsGoingOn DEF Cleanup
<1>14. CASE ReadRecords(w) \/ Finish(w) \/ \E r \in Records : Clear(w, r)
  <2>1. call[w].pc \in {"records", "clear"} /\ call[w].pc # "idle" /\ Succeeded(w) /\ call[w].attempt = "update"
    BY <1>2, <1>14 DEF ReadRecords, Finish, Clear, At, Knows, KnowsItself, Attempting
  <2>2. /\ call'[w].pc \in {"clear", "done"} /\ \A r \in call'[w].due : NewRef[r] = x
        /\ call'[w].result = call[w].result /\ call'[w].attempt = "update" /\ Same(w)
    BY <1>1, <1>14, <2>1 DEF ReadRecords, Finish, Clear, Goto, At, TypeOK, Call, Knows, KnowsItself, Same
  <2>3. t' = t /\ x' = x /\ Succeeded(w)'
    BY <2>1, <2>2 DEF Target, TargetRef, Succeeded, Same
  <2>4. KnowsItself(w)'
    BY <2>2, <2>3 DEF KnowsItself, Asking, Attempting
  <2>5. Pulled(w) /\ (Brought(w)' => Brought(w))
    BY <2>1, <2>2, <2>3 DEF Pulled, Brought, Grows
  <2> QED BY <2>1, <2>2, <2>4, <2>5, KnowsNext DEF Knows, Same
<1> QED BY <1>3, <1>4, <1>5, <1>6, <1>7, <1>8, <1>9, <1>10, <1>11, <1>12, <1>13, <1>14 DEF Step

(* A step is of one call.                                                  *)
LEMMA StepOfOne ==
  ASSUME TypeOK, NEW w \in Calls, Step(w), NEW v \in Calls \ {w}
  PROVE  call'[v] = call[v]
BY DEF TypeOK, Step, Begin, Skip, Pull, Compare, Trigger, ChooseRoute, UpdateService, Stop, Remove, Create,
       Start, Inspect, Record, Cleanup, NextAttempt, ReadRecords, Clear, Finish, Goto, Return, Applied

(* A call stays the one that rolled back, and for its own container.       *)
LEMMA RollbackStays ==
  ASSUME TypeOK, NEW w \in Calls, Step(w), Knows(w)'
  PROVE  /\ call'[w].target = call[w].target
         /\ call[w].attempt = "rollback" =>
              /\ call'[w].attempt = "rollback" /\ call'[w].image = call[w].image
              /\ ~Succeeded(w)'
<1>1. call[w] \in Call
  BY DEF TypeOK
<1> DEFINE Stays == /\ call'[w].target = call[w].target
                    /\ call[w].attempt = "rollback" => call'[w].attempt = "rollback"
<1>2. ASSUME Begin(w) PROVE Stays
  BY <1>1, <1>2 DEF TypeOK, Call, Begin
<1>3. ASSUME ~Begin(w) PROVE Stays /\ call'[w].image = call[w].image
  <2>1. CASE \/ Skip(w) \/ Pull(w) \/ Compare(w) \/ Trigger(w) \/ ChooseRoute(w) \/ UpdateService(w)
             \/ Stop(w) \/ Remove(w) \/ Start(w) \/ Inspect(w) \/ Record(w)
    BY <1>1, <2>1 DEF TypeOK, Call, Skip, Pull, Compare, Trigger, ChooseRoute, UpdateService, Stop, Remove,
                      Start, Inspect, Record, Goto, Return, Applied
  <2>2. CASE Create(w) \/ Cleanup(w)
    BY <1>1, <2>2 DEF TypeOK, Call, Create, Cleanup, NextAttempt, Return
  <2>3. CASE ReadRecords(w) \/ Finish(w) \/ \E r \in Records : Clear(w, r)
    BY <1>1, <2>3 DEF TypeOK, Call, ReadRecords, Finish, Clear, Goto
  <2> QED BY <1>3, <2>1, <2>2, <2>3 DEF Step
<1>4. Begin(w) => call'[w].pc = "pull"
  BY <1>1 DEF Begin, TypeOK, Call
<1>5. call'[w].pc = "pull" => call'[w].attempt # "rollback"
  BY DEF Knows, KnowsItself, Attempting
<1>6. call'[w].attempt = "rollback" => ~Succeeded(w)'
  BY DEF Knows, KnowsItself
<1> QED BY <1>2, <1>3, <1>4, <1>5, <1>6

LEMMA StepPinned ==
  ASSUME TypeOK, PinnedByRollback, Grows, NEW w \in Calls, Step(w), \A v \in Calls : Knows(v)'
  PROVE  PinnedByRollback'
<1> DEFINE t == Target(w)
<1>1. t \in Containers /\ call[w].image \in Nat
  BY Numbers
<1>2. SUFFICES ASSUME NEW c \in pinned' PROVE \E v \in Calls : RolledBackBy(v, c)'
  BY DEF PinnedByRollback
<1>3. ASSUME c \in pinned, runs'[c] = runs[c] PROVE \E v \in Calls : RolledBackBy(v, c)'
  <2>1. PICK v \in Calls : RolledBackBy(v, c)
    BY <1>3 DEF PinnedByRollback
  <2>2. CASE v = w
    BY <1>2, <1>3, <2>1, <2>2, RollbackStays DEF RolledBackBy, Target
  <2>3. CASE v # w
    <3>1. call'[v] = call[v]
      BY <2>3, StepOfOne
    <3> QED BY <1>2, <1>3, <2>1, <3>1 DEF RolledBackBy, Target, Succeeded
  <2> QED BY <2>2, <2>3
<1>4. CASE UNCHANGED replaced \/ Take(t)
  BY <1>2, <1>3, <1>4 DEF replaced, Take
<1>5. CASE FromReference(t)
  BY <1>1, <1>2, <1>3, <1>5 DEF FromReference, Put, TypeOK
<1>6. CASE call[w].attempt = "rollback" /\ FromImage(t, call[w].image)
  <2>1. runs' = [runs EXCEPT ![t] = call[w].image] /\ pinned' = pinned \cup {t}
    BY <1>6 DEF FromImage, Put
  <2>2. CASE c = t
    <3>1. runs'[t] = call[w].image
      BY <1>1, <2>1 DEF TypeOK
    <3> QED BY <1>2, <1>6, <2>2, <3>1, RollbackStays DEF RolledBackBy, Target
  <2>3. CASE c # t
    BY <1>1, <1>2, <1>3, <2>1, <2>3 DEF TypeOK
  <2> QED BY <2>2, <2>3
<1> QED BY <1>4, <1>5, <1>6, StepEffect

-----------------------------------------------------------------------------
(* A call that takes its container down, or leaves it down, goes on        *)
(* replacing it or has ended badly; the one that brings it up lets go.     *)
Accounts(w) == Replacing(w) \/ EndedBadly(w)

LEMMA StepAccounts ==
  ASSUME TypeOK, NEW w \in Calls, Step(w), NEW c \in Containers, c \notin up'
  PROVE  Target(w) = c /\ (c \in up \/ Accounts(w)) => Accounts(w)'
<1> SUFFICES ASSUME Target(w) = c, c \in up \/ Accounts(w) PROVE Accounts(w)'
  OBVIOUS
<1>1. call[w] \in Call
  BY DEF TypeOK
<1>2. ASSUME Return(w, "Failed") PROVE Accounts(w)'
  BY <1>1, <1>2 DEF Return, TypeOK, Call, Accounts, EndedBadly, At
<1>3. ASSUME NEW pc \in {"remove", "create", "start", "inspect", "cleanup"}, Goto(w, pc) PROVE Accounts(w)'
  BY <1>1, <1>3 DEF Goto, TypeOK, Call, Accounts, Replacing
<1>4. ASSUME NextAttempt(w) PROVE Accounts(w)'
  <2>1. CASE call' = [call EXCEPT ![w].pc = "create", ![w].attempt = "rollback", ![w].own = 0]
    BY <1>1, <2>1 DEF TypeOK, Call, Accounts, Replacing
  <2> QED BY <1>2, <1>4, <2>1 DEF NextAttempt
<1>5. CASE \/ Begin(w) \/ Skip(w) \/ Pull(w) \/ Compare(w) \/ Trigger(w) \/ ChooseRoute(w)
           \/ ReadRecords(w) \/ Finish(w) \/ \E r \in Records : Clear(w, r)
  <2>1. up' = up
    BY <1>5 DEF Begin, Skip, Pull, Compare, Trigger, ChooseRoute, ReadRecords, Finish, Clear, world, daemon
  <2>2. ~Accounts(w)
    BY <1>5 DEF Begin, Skip, Pull, Compare, Trigger, ChooseRoute, ReadRecords, Finish, Clear, At, Accounts,
                Replacing, EndedBadly
  <2> QED BY <2>1, <2>2
<1>6. CASE UpdateService(w)
  BY <1>2, <1>6 DEF UpdateService, daemon, At, Accounts, Replacing, EndedBadly
<1>7. CASE Stop(w) \/ Remove(w)
  BY <1>2, <1>3, <1>7 DEF Stop, Remove
<1>8. CASE Create(w)
  <2>1. CASE call' = [call EXCEPT ![w].pc = "start", ![w].own = life[Target(w)] + 1]
    BY <1>1, <2>1 DEF TypeOK, Call, Accounts, Replacing
  <2> QED BY <1>4, <1>8, <2>1 DEF Create
<1>9. CASE Start(w)
  BY <1>3, <1>9 DEF Start
<1>10. CASE Inspect(w)
  BY <1>3, <1>10 DEF Inspect, world, daemon
<1>11. CASE Record(w)
  <2>1. up' = up /\ ~Accounts(w)
    BY <1>11 DEF Record, world, daemon, At, Accounts, Replacing, EndedBadly
  <2> QED BY <2>1
<1>12. CASE Cleanup(w)
  BY <1>4, <1>12 DEF Cleanup
<1> QED BY <1>5, <1>6, <1>7, <1>8, <1>9, <1>10, <1>11, <1>12 DEF Step

(* Only a step for a container takes it down.                              *)
LEMMA StepDown ==
  ASSUME NEW w \in Calls, Step(w), NEW c \in Containers, c \in up, c \notin up'
  PROVE  Target(w) = c
BY DEF Step, Begin, Skip, Pull, Compare, Trigger, ChooseRoute, UpdateService, Stop, Remove, Create, Start,
       Inspect, Record, Cleanup, ReadRecords, Clear, Finish, world, daemon

LEMMA StepOutage ==
  ASSUME TypeOK, OutageIsReported, NEW w \in Calls, Step(w), \A v \in Calls : Knows(v)'
  PROVE  OutageIsReported'
<1>1. SUFFICES ASSUME NEW c \in Containers, c \notin up'
               PROVE  \E v \in Calls : (Target(v) = c /\ Accounts(v))'
  BY DEF OutageIsReported, Accounts
<1>2. Target(w)' = Target(w)
  BY RollbackStays DEF Target
<1>3. CASE c \in up
  BY <1>1, <1>2, <1>3, StepDown, StepAccounts
<1>4. CASE c \notin up
  <2>1. PICK v \in Calls : Target(v) = c /\ Accounts(v)
    BY <1>4 DEF OutageIsReported, Accounts
  <2>2. CASE v = w
    BY <1>1, <1>2, <2>1, <2>2, StepAccounts
  <2>3. CASE v # w
    <3>1. call'[v] = call[v]
      BY <2>3, StepOfOne
    <3> QED BY <2>1, <3>1 DEF Target, Accounts, Replacing, EndedBadly, At
  <2> QED BY <2>2, <2>3
<1> QED BY <1>3, <1>4

-----------------------------------------------------------------------------
(* What is left of a call by a crash is nothing to be known, and no success.*)
LEMMA CrashKnows ==
  ASSUME TypeOK, TypeOK', Grows, Crash, NEW w \in Calls, Knows(w)
  PROVE  /\ Knows(w)'
         /\ \A c \in Containers : /\ RolledBackBy(w, c) => RolledBackBy(w, c)'
                                  /\ Target(w) = c /\ Accounts(w) => (Target(w) = c /\ Accounts(w))'
<1>1. UNCHANGED <<up, runs, pinned>>
  BY DEF Crash, world, daemon, replaced
<1>2. CASE At(w, "idle") \/ At(w, "done")
  <2>1. call'[w] = call[w]
    BY <1>2 DEF Crash
  <2>2. Knows(w)'
    BY <2>1, KnowsStays
  <2> QED BY <1>1, <2>1, <2>2 DEF RolledBackBy, Target, Succeeded, Accounts, Replacing, EndedBadly, At
<1>3. CASE ~(At(w, "idle") \/ At(w, "done"))
  <2>1. call'[w] = [call[w] EXCEPT !.pc = "done", !.due = {}, !.result = "none"]
    BY <1>3 DEF Crash
  <2>2. /\ call'[w].pc = "done" /\ call'[w].due = {} /\ call'[w].result = "none"
        /\ call'[w].attempt = call[w].attempt /\ Same(w) /\ call[w].pc # "idle"
    BY <1>3, <2>1, Numbers DEF Call, Same, At
  <2>3. ~Succeeded(w)'
    BY <2>2 DEF Succeeded
  <2>4. ~Pulled(w)' /\ ~Brought(w)'
    BY <2>2, <2>3 DEF Pulled, Brought, Attempting
  <2>5. KnowsItself(w)'
    BY <2>2, <2>3 DEF KnowsItself, Asking, Attempting
  <2>6. Knows(w)'
    BY <2>2, <2>4, <2>5, KnowsNext DEF Knows, Same
  <2> QED BY <1>1, <2>2, <2>3, <2>6 DEF RolledBackBy, Target, Accounts, EndedBadly, At, Same
<1> QED BY <1>2, <1>3

LEMMA Inductive == Inv /\ TypeOK' /\ [Next]_vars => Inv'
<1> SUFFICES ASSUME Inv, TypeOK', [Next]_vars PROVE Inv'
  OBVIOUS
<1>1. TypeOK /\ Published /\ PinnedByRollback /\ OutageIsReported /\ \A w \in Calls : Knows(w)
  BY DEF Inv
<1>2. ASSUME NEW w \in Calls, Step(w) PROVE Inv'
  <2>1. Published' /\ Grows
    BY <1>1, <1>2, StepGrows
  <2>2. Knows(w)'
    BY <1>1, <1>2, <2>1, StepKnows
  <2>3. ASSUME NEW v \in Calls \ {w} PROVE Knows(v)'
    BY <1>1, <1>2, <2>1, StepOfOne, KnowsStays
  <2>4. \A v \in Calls : Knows(v)'
    BY <2>2, <2>3
  <2>5. PinnedByRollback' /\ OutageIsReported'
    BY <1>1, <1>2, <2>1, <2>4, StepPinned, StepOutage
  <2> QED BY <2>1, <2>4, <2>5 DEF Inv
<1>3. CASE Environment
  <2>1. Published' /\ Grows
    BY <1>1, <1>3, EnvironmentGrows
  <2>2. UNCHANGED <<up, runs, pinned>>
    BY <1>3 DEF Environment, Crash, Publish, Detect, world, daemon, replaced
  <2>3. ASSUME NEW v \in Calls
        PROVE  /\ Knows(v)'
               /\ \A c \in Containers : /\ RolledBackBy(v, c) => RolledBackBy(v, c)'
                                        /\ Target(v) = c /\ Accounts(v) => (Target(v) = c /\ Accounts(v))'
    <3>1. CASE Crash
      BY <1>1, <2>1, <3>1, CrashKnows
    <3>2. CASE call' = call
      <4>1. Knows(v)'
        BY <1>1, <2>1, <3>2, KnowsStays
      <4> QED BY <2>2, <3>2, <4>1 DEF RolledBackBy, Target, Succeeded, Accounts, Replacing, EndedBadly, At
    <3> QED BY <1>3, <3>1, <3>2 DEF Environment, Publish, Detect
  <2>4. PinnedByRollback'
    <3>1. pinned \subseteq Containers
      BY <1>1 DEF TypeOK
    <3> QED BY <1>1, <2>2, <2>3, <3>1 DEF PinnedByRollback
  <2>5. OutageIsReported'
    <3> SUFFICES ASSUME NEW c \in Containers, c \notin up'
                 PROVE  \E v \in Calls : (Target(v) = c /\ Accounts(v))'
      BY DEF OutageIsReported, Accounts
    <3>1. PICK v \in Calls : Target(v) = c /\ Accounts(v)
      BY <1>1, <2>2 DEF OutageIsReported, Accounts
    <3> QED BY <2>3, <3>1
  <2> QED BY <2>1, <2>3, <2>4, <2>5 DEF Inv
<1>4. CASE UNCHANGED vars
  <2>1. UNCHANGED <<route, remote, local, exists, up, runs, life, pinned, call>>
    BY <1>4 DEF vars, world, daemon, replaced
  <2>2. Published' /\ Grows
    BY <1>1, <2>1, Numbers DEF Published, Grows
  <2>3. ASSUME NEW v \in Calls PROVE Knows(v)'
    BY <1>1, <2>1, <2>2, KnowsStays
  <2>4. PinnedByRollback' /\ OutageIsReported'
    BY <1>1, <2>1 DEF PinnedByRollback, OutageIsReported, RolledBackBy, Target, Succeeded, Replacing,
                      EndedBadly, At
  <2> QED BY <2>2, <2>3, <2>4 DEF Inv
<1> QED BY <1>2, <1>3, <1>4 DEF Next

LEMMA InvHolds == Spec => []Inv
<1>1. Init /\ TypeOK => Inv
  <2> SUFFICES ASSUME Init, TypeOK
               PROVE  Published /\ PinnedByRollback /\ OutageIsReported /\ \A w \in Calls : Knows(w)
    BY DEF Inv
  <2>1. Published
    BY RefAssumption DEF Init, Published
  <2>2. PinnedByRollback /\ OutageIsReported
    BY DEF Init, PinnedByRollback, OutageIsReported
  <2>3. ASSUME NEW w \in Calls PROVE Knows(w)
    <3>1. call[w].pc = "idle" /\ call[w].due = {} /\ call[w].result = "none" /\ call[w].attempt = "update"
      <4>1. PICK m \in Modes, c \in Containers :
              call[w] = [pc |-> "idle", mode |-> m, target |-> c, id |-> 0, image |-> 0, from |-> "reference",
                         since |-> 0, attempt |-> "update", own |-> 0, due |-> {}, result |-> "none"]
        BY DEF Init
      <4> QED BY <4>1
    <3> QED BY <3>1 DEF Knows, KnowsItself, KnowsWorld
  <2> QED BY <2>1, <2>2, <2>3
<1>2. Inv /\ TypeOK' /\ [Next]_vars => Inv'
  BY Inductive
<1> QED BY <1>1, <1>2, TypeCorrect, PTL DEF Spec

(* A call that reports success has brought its container to what the       *)
(* registry served when it began; what takes it back is the rollback of a  *)
(* call that does not report success (ReportIsTrue).                       *)
THEOREM ReportIsTrueHolds == Spec => []ReportIsTrue
<1>1. Inv => ReportIsTrue
  <2> SUFFICES ASSUME Inv, NEW w \in Calls, Succeeded(w), route[Target(w)] # "self"
               PROVE  \/ runs[Target(w)] >= call[w].since
                      \/ \E v \in Calls : RolledBackBy(v, Target(w))
    BY DEF ReportIsTrue
  <2>1. CASE Target(w) \in pinned
    BY <2>1 DEF Inv, PinnedByRollback
  <2>2. CASE Target(w) \notin pinned
    <3>1. Knows(w) /\ Brought(w) /\ call[w].pc # "idle"
      BY DEF Inv, Brought, Knows, KnowsItself, Succeeded
    <3>2. call[w].since <= runs[Target(w)]
      BY <2>2, <3>1 DEF Knows, KnowsWorld
    <3> QED BY <3>2
  <2> QED BY <2>1, <2>2
<1> QED BY <1>1, InvHolds, PTL

(* Calls that meet in the middle of a replacement do not lose the container*)
(* between them: a container is down only while one of them replaces it, or*)
(* after one that did not report success (OutageIsReported).               *)
THEOREM OutageIsReportedHolds == Spec => []OutageIsReported
<1>1. Inv => OutageIsReported
  BY DEF Inv
<1> QED BY <1>1, InvHolds, PTL

(* A record goes only with a call that applied its new reference           *)
(* (ClearedWasApplied).                                                    *)
THEOREM ClearedWasAppliedHolds == Spec => ClearedWasApplied
<1>1. Inv /\ [Next]_vars =>
        [\A r \in pending \ pending' : \E w \in Calls : Succeeded(w) /\ TargetRef(w) = NewRef[r]]_pending
  <2> SUFFICES ASSUME Inv, [Next]_vars, NEW r \in pending \ pending'
               PROVE  \E w \in Calls : Succeeded(w) /\ TargetRef(w) = NewRef[r]
    OBVIOUS
  <2>1. PICK w \in Calls, s \in Records : Clear(w, s) /\ pending' = pending \ {s}
    BY DEF Next, vars, Environment, Crash, Publish, Detect, Step, Begin, Skip, Pull, Compare, Trigger,
           ChooseRoute, UpdateService, Stop, Remove, Create, Start, Inspect, Record, Cleanup, ReadRecords,
           Clear, Finish
  <2>2. r = s /\ r \in call[w].due /\ Knows(w) /\ call[w].pc = "clear"
    BY <2>1 DEF Clear, At, Inv
  <2> QED BY <2>2 DEF Knows, KnowsItself
<1> QED BY <1>1, InvHolds, PTL DEF Spec, ClearedWasApplied
=============================================================================
