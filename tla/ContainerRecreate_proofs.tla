---------------------- MODULE ContainerRecreate_proofs -----------------------
(***************************************************************************)
(* Proofs about ContainerRecreate, for any number of calls: its types, that*)
(* one call replaces a container and what a call reports, whatever goes    *)
(* wrong; that the service survives and a running replacement is kept,     *)
(* where little enough does; and that ContainerRecreate implements         *)
(* NameSuccession.                                                         *)
(***************************************************************************)
EXTENDS ContainerRecreate, TLAPS

ContainerStates == {"absent", "created", "running", "stopped"}

(* What the assumptions on the constants say of the ids.                   *)
LEMMA IdFacts ==
  /\ Original \in Ids
  /\ \A r \in Runs, a \in Attempts : Created(r, a) \in Ids /\ Created(r, a) # Original
  /\ \A r, s \in Runs, a, b \in Attempts : Created(r, a) = Created(s, b) => r = s /\ a = b
BY OriginalAssumption DEF Ids, Created, Attempts

(* The building blocks of the actions, in any well-typed state.            *)
LEMMA BlockTypes ==
  ASSUME TypeOK, NEW r \in Runs
  PROVE  /\ Current(r) \in Ids /\ run[r].target \in Ids
         /\ \A id \in Ids, st \in ContainerStates : SetTo(id, st) \in [Ids -> ContainerStates]
         /\ \A step \in Working : Goto(r, step) \in RunState
         /\ \A how \in Results : Finish(r, how) \in RunState
         /\ AfterCleanup(r) \in RunState
         /\ \A step \in Working : [run[r] EXCEPT !.pc = step, !.created = TRUE] \in RunState
<1>1. run[r] \in RunState /\ container \in [Ids -> ContainerStates]
  BY DEF TypeOK, ContainerStates
<1>2. Current(r) \in Ids /\ run[r].target \in Ids
  BY <1>1, IdFacts DEF RunState, Current
<1>3. \A id \in Ids, st \in ContainerStates : SetTo(id, st) \in [Ids -> ContainerStates]
  BY <1>1 DEF SetTo
<1>4. \A step \in Working : Goto(r, step) \in RunState
  BY <1>1 DEF RunState, Goto
<1>5. \A how \in Results : Finish(r, how) \in RunState
  BY <1>1 DEF RunState, Finish
<1>6. AfterCleanup(r) \in RunState
  <2>1. [run[r] EXCEPT !.pc = "prepare", !.attempt = "rollback", !.created = FALSE] \in RunState
    BY <1>1 DEF RunState, Working, Attempts
  <2> QED BY <2>1, <1>5 DEF AfterCleanup, Results
<1>7. \A step \in Working : [run[r] EXCEPT !.pc = step, !.created = TRUE] \in RunState
  BY <1>1 DEF RunState
<1> QED BY <1>2, <1>3, <1>4, <1>5, <1>6, <1>7

(* A request keeps the types when its effect and its continuations do.     *)
LEMMA RequestTypes ==
  ASSUME TypeOK, NEW r \in Runs, NEW call, NEW can, NEW effect, NEW good, NEW bad,
         Request(r, call, can, effect, good, bad),
         effect \in [Ids -> ContainerStates], good \in RunState, bad \in RunState
  PROVE  TypeOK'
BY MaxFaultsAssumption DEF Request, Outcomes, Kinds, TypeOK, ContainerStates

-----------------------------------------------------------------------------
(* Every variable keeps its type, and the faults stay within their bound.  *)
THEOREM TypeCorrect == Spec => []TypeOK
<1>1. Init => TypeOK
  BY IdFacts, DeployedAssumption, MaxFaultsAssumption
  DEF Init, TypeOK, RunState, Results, Attempts
<1>2. TypeOK /\ [Next]_vars => TypeOK'
  <2> SUFFICES ASSUME TypeOK, [Next]_vars PROVE TypeOK'
    OBVIOUS
  <2>1. ASSUME NEW r \in Runs, Begin(r) PROVE TypeOK'
    <3> PICK id \in Ids : run' = [run EXCEPT ![r] = [run[r] EXCEPT !.pc = "stop", !.target = id]]
      BY <2>1 DEF Begin
    <3>1. [run[r] EXCEPT !.pc = "stop", !.target = id] \in RunState
      BY DEF TypeOK, RunState, Working
    <3>2. faults' \in 0..MaxFaults
      BY <2>1, MaxFaultsAssumption DEF Begin, TypeOK
    <3> QED BY <2>1, <3>1, <3>2 DEF Begin, TypeOK
  <2>2. ASSUME NEW r \in Runs, Step(r) PROVE TypeOK'
    <3> USE BlockTypes, RequestTypes DEF Working, Results, ContainerStates
    <3>a. container \in [Ids -> ContainerStates]
      BY DEF TypeOK
    <3>1. CASE Stop(r)
      BY <3>1, <3>a DEF Stop
    <3>2. CASE Remove(r)
      BY <3>2 DEF Remove
    <3>3. CASE Prepare(r)
      BY <3>3, <3>a DEF Prepare
    <3>4. CASE Create(r)
      <4>1. CASE ExtraNetworks
        BY <3>4, <4>1 DEF Create
      <4>2. CASE ~ExtraNetworks
        BY <3>4, <4>2 DEF Create
      <4> QED BY <4>1, <4>2
    <3>5. CASE Connect(r)
      BY <3>5, <3>a DEF Connect
    <3>6. CASE Start(r)
      BY <3>6 DEF Start
    <3>7. CASE Inspect(r)
      BY <3>7, <3>a DEF Inspect
    <3>8. CASE Record(r)
      BY <3>8, <3>a DEF Record
    <3>9. CASE Cleanup(r)
      <4>1. CASE run[r].created
        BY <3>9, <4>1 DEF Cleanup
      <4>2. CASE ~run[r].created
        BY <3>9, <4>2 DEF Cleanup, TypeOK
      <4> QED BY <4>1, <4>2
    <3> QED
      BY <2>2, <3>1, <3>2, <3>3, <3>4, <3>5, <3>6, <3>7, <3>8, <3>9 DEF Step
  <2>3. ASSUME NEW r \in Runs, CancelContext(r) PROVE TypeOK'
    <3>1. [run[r] EXCEPT !.cancelled = TRUE] \in RunState
      BY DEF TypeOK, RunState
    <3> QED BY <2>3, <3>1, MaxFaultsAssumption DEF CancelContext, TypeOK
  <2>4. ASSUME NEW id \in Ids, DaemonAutoRemove(id) PROVE TypeOK'
    BY <2>4 DEF DaemonAutoRemove, TypeOK, SetTo
  <2>5. CASE Crash
    <3>1. \A r \in Runs : Finish(r, "crashed") \in RunState
      BY BlockTypes DEF Results
    <3> QED BY <2>5, <3>1, MaxFaultsAssumption DEF Crash, TypeOK
  <2>6. CASE UNCHANGED vars
    BY <2>6 DEF vars, TypeOK
  <2> QED
    BY <2>1, <2>2, <2>3, <2>4, <2>5, <2>6 DEF Next
<1>3. QED
  BY <1>1, <1>2, PTL DEF Spec
-----------------------------------------------------------------------------
(***************************************************************************)
(* The remove call elects the one run that replaces a container.  The      *)
(* argument: a replaced container is absent (ReplacedIsGone), it stays so  *)
(* because no id is created twice (FreshIds), and the daemon removes only  *)
(* what exists.                                                            *)
(***************************************************************************)
LEMMA ReplacementInductive ==
  ASSUME TypeOK, ReplacementInv, [Next]_vars
  PROVE  ReplacementInv'
<1>1. ASSUME NEW r \in Runs, Begin(r) PROVE ReplacementInv'
  <2>1. PICK id \in Ids :
          /\ container[id] # "absent"
          /\ run' = [run EXCEPT ![r] = [run[r] EXCEPT !.pc = "stop", !.target = id]]
    BY <1>1 DEF Begin, Exists
  <2>2. /\ run[r].pc = "idle" /\ run'[r].pc = "stop" /\ run'[r].target = id
        /\ run'[r].result = run[r].result
        /\ \A s \in Runs \ {r} : run'[s] = run[s]
        /\ container' = container
    <3>1. run[r] \in RunState
      BY DEF TypeOK
    <3>2. [run[r] EXCEPT !.pc = "stop", !.target = id].pc = "stop"
          /\ [run[r] EXCEPT !.pc = "stop", !.target = id].target = id
          /\ [run[r] EXCEPT !.pc = "stop", !.target = id].result = run[r].result
      BY <3>1 DEF RunState
    <3> QED BY <1>1, <2>1, <3>2 DEF Begin, TypeOK
  <2>3. FreshIds' /\ ReportsAtEnd'
    BY <2>1, <2>2, IdFacts DEF ReplacementInv, FreshIds, ReportsAtEnd, Unborn
  <2>4. \A s \in Runs : Replacing(s)' => Replacing(s) /\ s # r
    BY <2>2, <1>1 DEF ReplacementInv, ReportsAtEnd, Replacing, Working
  <2>5. ReplacedIsGone' /\ ExclusiveReplacement'
    BY <2>2, <2>4 DEF ReplacementInv, ReplacedIsGone, ExclusiveReplacement
  <2> QED BY <2>3, <2>5 DEF ReplacementInv
<1>2. ASSUME NEW r \in Runs, Step(r) PROVE ReplacementInv'
  <2> USE IdFacts DEF ReplacementInv, ReportsAtEnd, FreshIds, ReplacedIsGone, ExclusiveReplacement,
                      Replacing, Unborn, TypeOK, RunState, Working, Results, Attempts,
                      Request, Goto, Finish, SetTo, Exists, Current
  <2>1. CASE Stop(r)
    BY <2>1 DEF Stop
  <2>2. CASE Remove(r)
    BY <2>2 DEF Remove
  <2>3. CASE Prepare(r)
    BY <2>3 DEF Prepare
  <2>4. CASE Create(r)
    BY <2>4 DEF Create
  <2>5. CASE Connect(r)
    BY <2>5 DEF Connect
  <2>6. CASE Start(r)
    BY <2>6 DEF Start
  <2>7. CASE Inspect(r)
    BY <2>7 DEF Inspect
  <2>8. CASE Record(r)
    BY <2>8 DEF Record
  <2>9. CASE Cleanup(r)
    <3>1. /\ run[r].pc = "cleanup"
          /\ run' = [run EXCEPT ![r] = AfterCleanup(r)]
          /\ container' = container \/ container' = SetTo(Current(r), "absent")
      BY <2>9 DEF Cleanup
    <3>2. \A id \in Ids : container[id] = "absent" => container'[id] = "absent"
      BY <3>1
    <3>3. CASE run[r].attempt = "update"
      BY <3>1, <3>2, <3>3 DEF AfterCleanup
    <3>4. CASE run[r].attempt = "rollback"
      BY <3>1, <3>2, <3>4 DEF AfterCleanup
    <3> QED BY <3>3, <3>4
  <2> QED
    BY <1>2, <2>1, <2>2, <2>3, <2>4, <2>5, <2>6, <2>7, <2>8, <2>9 DEF Step
<1>3. ASSUME NEW r \in Runs, CancelContext(r) PROVE ReplacementInv'
  BY <1>3 DEF CancelContext, ReplacementInv, ReportsAtEnd, FreshIds, ReplacedIsGone,
     ExclusiveReplacement, Replacing, Unborn, TypeOK, RunState, Working
<1>4. ASSUME NEW id \in Ids, DaemonAutoRemove(id) PROVE ReplacementInv'
  BY <1>4, IdFacts DEF DaemonAutoRemove, SetTo, ReplacementInv, ReportsAtEnd, FreshIds, ReplacedIsGone,
     ExclusiveReplacement, Replacing, Unborn, TypeOK, RunState
<1>5. CASE Crash
  <2>1. /\ container' = container
        /\ \A r \in Runs : /\ run'[r].target = run[r].target
                           /\ run'[r] = run[r] \/ (run'[r].pc = "done" /\ run'[r].result = "crashed")
    <3>1. \A r \in Runs : run[r] \in RunState
      BY DEF TypeOK
    <3>2. \A r \in Runs : /\ Finish(r, "crashed").target = run[r].target
                          /\ Finish(r, "crashed").pc = "done"
                          /\ Finish(r, "crashed").result = "crashed"
      BY <3>1 DEF Finish, RunState
    <3> QED BY <1>5, <3>2 DEF Crash
  <2>2. FreshIds' /\ ReportsAtEnd'
    BY <2>1 DEF ReplacementInv, FreshIds, ReportsAtEnd, Unborn, Working
  <2>3. \A r \in Runs : Replacing(r)' => Replacing(r)
    BY <2>1 DEF Replacing, Working
  <2>4. ReplacedIsGone' /\ ExclusiveReplacement'
    BY <2>1, <2>3 DEF ReplacementInv, ReplacedIsGone, ExclusiveReplacement
  <2> QED BY <2>2, <2>4 DEF ReplacementInv
<1>6. CASE UNCHANGED vars
  BY <1>6 DEF vars, ReplacementInv, ReportsAtEnd, FreshIds, ReplacedIsGone, ExclusiveReplacement,
     Replacing, Unborn
<1> QED
  BY <1>1, <1>2, <1>3, <1>4, <1>5, <1>6 DEF Next

LEMMA ReplacementHolds == Spec => []ReplacementInv
<1>1. Init => ReplacementInv
  BY IdFacts DEF Init, ReplacementInv, ReportsAtEnd, FreshIds, ReplacedIsGone, ExclusiveReplacement,
                 Replacing, Working
<1>2. TypeOK /\ ReplacementInv /\ [Next]_vars => ReplacementInv'
  BY ReplacementInductive
<1>3. QED
  BY <1>1, <1>2, TypeCorrect, PTL DEF Spec

(* Two runs never both replace one container.                              *)
THEOREM ExclusiveReplacementHolds == Spec => []ExclusiveReplacement
<1>1. ReplacementInv => ExclusiveReplacement
  BY DEF ReplacementInv
<1>2. QED
  BY <1>1, ReplacementHolds, PTL
-----------------------------------------------------------------------------
(***************************************************************************)
(* What a call reports is true of the daemon.  The argument: a run reports *)
(* from pc "record" only, which it reaches with its container running; the *)
(* one step that stops a running container stops the target of a run, the  *)
(* one step that removes one uncalled for removes the run's own.           *)
(***************************************************************************)

(* Container id serves: it runs, or another run has taken it as target.    *)
Serves(id) == container[id] = "running" \/ TakenOver(id)

(* A step moves its own run only, which keeps its target.                  *)
LEMMA StepMoves ==
  ASSUME TypeOK, NEW r \in Runs, Step(r)
  PROVE  /\ run[r].pc \in Working
         /\ run'[r].pc # "idle" /\ run'[r].target = run[r].target
         /\ \A s \in Runs \ {r} : run'[s] = run[s]
<1>1. run[r].pc \in Working
  BY DEF Step, Stop, Remove, Prepare, Create, Connect, Start, Inspect, Record, Cleanup, Working
<1>2. \A s \in Runs \ {r} : run'[s] = run[s]
  BY DEF Step, Stop, Remove, Prepare, Create, Connect, Start, Inspect, Record, Cleanup,
         Request, TypeOK
<1>3. run'[r].pc # "idle" /\ run'[r].target = run[r].target
  <2> USE DEF Request, Goto, Finish, TypeOK, RunState
  <2>1. CASE Stop(r)
    BY <2>1 DEF Stop
  <2>2. CASE Remove(r)
    BY <2>2 DEF Remove
  <2>3. CASE Prepare(r)
    BY <2>3 DEF Prepare
  <2>4. CASE Create(r)
    BY <2>4 DEF Create
  <2>5. CASE Connect(r)
    BY <2>5 DEF Connect
  <2>6. CASE Start(r)
    BY <2>6 DEF Start
  <2>7. CASE Inspect(r)
    BY <2>7 DEF Inspect
  <2>8. CASE Record(r)
    BY <2>8 DEF Record
  <2>9. CASE Cleanup(r)
    BY <2>9 DEF Cleanup, AfterCleanup
  <2> QED
    BY <2>1, <2>2, <2>3, <2>4, <2>5, <2>6, <2>7, <2>8, <2>9 DEF Step
<1> QED BY <1>1, <1>2, <1>3

(* A step of r leaves serving containers serving, but for the one r itself *)
(* created and now cleans up.                                              *)
LEMMA StepKeepsServing ==
  ASSUME TypeOK, NEW r \in Runs, Step(r), NEW id \in Ids, Serves(id),
         run[r].pc = "cleanup" => id # Current(r)
  PROVE  Serves(id)'
<1>1. CASE TakenOver(id)
  <2>1. TakenOver(id)'
    BY <1>1, StepMoves DEF TakenOver, Working
  <2> QED BY <2>1 DEF Serves
<1>2. CASE container[id] = "running" /\ ~TakenOver(id)
  <2>1. id # run[r].target
    BY <1>2, StepMoves DEF TakenOver, Working
  <2>2. container'[id] = "running"
    <3> USE <1>2, <2>1, BlockTypes DEF Request, SetTo, Exists, TypeOK
    <3>1. CASE Stop(r) \/ Remove(r)
      BY <3>1 DEF Stop, Remove
    <3>2. CASE Prepare(r) \/ Connect(r) \/ Inspect(r) \/ Record(r)
      BY <3>2 DEF Prepare, Connect, Inspect, Record
    <3>3. CASE Create(r) \/ Start(r)
      BY <3>3 DEF Create, Start, NameFree
    <3>4. CASE Cleanup(r)
      BY <3>4 DEF Cleanup
    <3> QED BY <3>1, <3>2, <3>3, <3>4 DEF Step
  <2> QED BY <2>2 DEF Serves
<1> QED BY <1>1, <1>2 DEF Serves

(* How a step leaves its run: at pc "record" with its container running,   *)
(* done and reporting what the attempt was, or reporting no success.       *)
Recording(r) == /\ run'[r].pc = "record" /\ run'[r].result = "none"
                /\ run'[r].attempt = run[r].attempt
                /\ container'[Current(r)] = "running"

Reporting(r) == /\ run[r].pc = "record" /\ run'[r].pc = "done"
                /\ run'[r].result = IF run[r].attempt = "update" THEN "updated" ELSE "rolledBack"

Unreported(r) == /\ run'[r].pc # "record"
                 /\ run'[r].result \notin {"updated", "rolledBack"}

LEMMA StepOutcome ==
  ASSUME TypeOK, ReportsAtEnd, NEW r \in Runs, Step(r)
  PROVE  Recording(r) \/ Reporting(r) \/ Unreported(r)
<1> USE DEF Request, Goto, Finish, TypeOK, RunState, Recording, Reporting, Unreported
<1>1. run[r].result = "none"
  BY StepMoves DEF ReportsAtEnd, Working
<1>2. Current(r) \in Ids
  BY BlockTypes
<1>3. CASE Stop(r)
  BY <1>1, <1>3 DEF Stop
<1>4. CASE Remove(r)
  BY <1>1, <1>4 DEF Remove
<1>5. CASE Prepare(r)
  BY <1>1, <1>5 DEF Prepare
<1>6. CASE Create(r)
  BY <1>1, <1>6 DEF Create
<1>7. CASE Connect(r)
  BY <1>1, <1>7 DEF Connect
<1>8. CASE Start(r)
  BY <1>1, <1>2, <1>8 DEF Start, SetTo
<1>9. CASE Inspect(r)
  BY <1>1, <1>9 DEF Inspect
<1>10. CASE Record(r)
  BY <1>1, <1>10 DEF Record
<1>11. CASE Cleanup(r)
  BY <1>1, <1>11 DEF Cleanup, AfterCleanup
<1> QED
  BY <1>3, <1>4, <1>5, <1>6, <1>7, <1>8, <1>9, <1>10, <1>11 DEF Step

LEMMA ServingInductive ==
  ASSUME TypeOK, ReportsAtEnd, ServingInv, [Next]_vars
  PROVE  ServingInv'
<1>1. ASSUME NEW r \in Runs, Begin(r) PROVE ServingInv'
  <2>1. /\ container' = container /\ run[r].pc = "idle" /\ run'[r].pc = "stop"
        /\ run'[r].result = run[r].result
        /\ \A s \in Runs \ {r} : run'[s] = run[s]
    <3> PICK id \in Ids : run' = [run EXCEPT ![r] = [run[r] EXCEPT !.pc = "stop", !.target = id]]
      BY <1>1 DEF Begin
    <3> QED BY <1>1 DEF Begin, TypeOK, RunState
  <2>2. \A id \in Ids : Serves(id) => Serves(id)'
    BY <2>1 DEF Serves, TakenOver
  <2>3. \A s \in Runs : run'[s].pc = "record" => s # r
    BY <2>1
  <2>4. \A s \in Runs : run'[s].result \in {"updated", "rolledBack"} => s # r
    BY <2>1 DEF ReportsAtEnd
  <2> QED
    BY <2>1, <2>2, <2>3, <2>4, IdFacts
    DEF ServingInv, StartedServes, ReportedContainerServes, Serves, Current, TypeOK, RunState, Attempts
<1>2. ASSUME NEW r \in Runs, Step(r) PROVE ServingInv'
  <2>1. ASSUME NEW s \in Runs \ {r} PROVE
          /\ run'[s].pc = "record" => Serves(Current(s))'
          /\ run'[s].result = "updated" => Serves(Created(s, "update"))'
          /\ run'[s].result = "rolledBack" => Serves(Created(s, "rollback"))'
    <3>1. run'[s] = run[s]
      BY <1>2, StepMoves
    <3>2. ASSUME NEW a \in Attempts, Serves(Created(s, a)) PROVE Serves(Created(s, a))'
      <4>1. Created(s, a) \in Ids /\ Created(s, a) # Current(r)
        BY IdFacts DEF Current, TypeOK, RunState
      <4> QED BY <1>2, <3>2, <4>1, StepKeepsServing
    <3> QED
      BY <3>1, <3>2 DEF ServingInv, StartedServes, ReportedContainerServes, Serves, Current,
                        TypeOK, RunState, Attempts
  <2>2. /\ run'[r].pc = "record" => Serves(Current(r))'
        /\ run'[r].result = "updated" => Serves(Created(r, "update"))'
        /\ run'[r].result = "rolledBack" => Serves(Created(r, "rollback"))'
    <3>1. CASE Recording(r)
      BY <3>1 DEF Recording, Serves, Current
    <3>2. CASE Reporting(r)
      <4>1. Serves(Current(r)) /\ Current(r) \in Ids
        BY <3>2, BlockTypes DEF Reporting, ServingInv, StartedServes, Serves
      <4>2. \A id \in Ids : Serves(id) => Serves(id)'
        BY <1>2, <3>2, StepKeepsServing DEF Reporting
      <4>3. CASE run[r].attempt = "update"
        <5>1. Serves(Created(r, "update"))'
          BY <4>1, <4>2, <4>3 DEF Current
        <5> QED BY <3>2, <4>3, <5>1 DEF Reporting
      <4>4. CASE run[r].attempt = "rollback"
        <5>1. Serves(Created(r, "rollback"))'
          BY <4>1, <4>2, <4>4 DEF Current
        <5> QED BY <3>2, <4>4, <5>1 DEF Reporting
      <4> QED BY <4>3, <4>4 DEF TypeOK, RunState, Attempts
    <3>3. CASE Unreported(r)
      BY <3>3 DEF Unreported
    <3> QED BY <1>2, <3>1, <3>2, <3>3, StepOutcome
  <2> QED
    BY <2>1, <2>2 DEF ServingInv, StartedServes, ReportedContainerServes, Serves
<1>3. ASSUME NEW r \in Runs, CancelContext(r) PROVE ServingInv'
  <2>1. /\ container' = container
        /\ \A s \in Runs : /\ run'[s].pc = run[s].pc /\ run'[s].target = run[s].target
                           /\ run'[s].result = run[s].result /\ run'[s].attempt = run[s].attempt
    BY <1>3 DEF CancelContext, TypeOK, RunState
  <2> QED BY <2>1 DEF ServingInv, StartedServes, ReportedContainerServes, TakenOver, Current
<1>4. ASSUME NEW id \in Ids, DaemonAutoRemove(id) PROVE ServingInv'
  BY <1>4, BlockTypes, IdFacts
  DEF DaemonAutoRemove, SetTo, ServingInv, StartedServes, ReportedContainerServes, TakenOver,
      Current, TypeOK, Attempts
<1>5. CASE Crash
  <2>1. /\ container' = container
        /\ \A s \in Runs : /\ run'[s].target = run[s].target
                           /\ run[s].pc # "idle" => run'[s].pc # "idle"
                           /\ run'[s].pc # "record"
                           /\ run'[s].result = run[s].result \/ run'[s].result = "crashed"
    BY <1>5 DEF Crash, Finish, TypeOK, RunState, Working
  <2> QED BY <2>1 DEF ServingInv, StartedServes, ReportedContainerServes, TakenOver
<1>6. CASE UNCHANGED vars
  BY <1>6 DEF vars, ServingInv, StartedServes, ReportedContainerServes, Current, TakenOver
<1> QED
  BY <1>1, <1>2, <1>3, <1>4, <1>5, <1>6 DEF Next

LEMMA ServingHolds == Spec => []ServingInv
<1>1. Init => ServingInv
  BY DEF Init, ServingInv, StartedServes, ReportedContainerServes
<1>2. TypeOK /\ ReplacementInv /\ ServingInv /\ [Next]_vars => ServingInv'
  BY ServingInductive DEF ReplacementInv
<1>3. QED
  BY <1>1, <1>2, TypeCorrect, ReplacementHolds, PTL DEF Spec

(* A call that reports Updated, or a rollback that succeeded, left its     *)
(* container running, or another call has taken it over.                   *)
THEOREM ReportedContainerServesHolds == Spec => []ReportedContainerServes
<1>1. ServingInv => ReportedContainerServes
  BY DEF ServingInv
<1>2. QED
  BY <1>1, ServingHolds, PTL
-----------------------------------------------------------------------------
(***************************************************************************)
(* The service survives.  The argument: until something has gone wrong     *)
(* the one call under way finds everything as it left it (FaultsComeFirst),*)
(* so the one fault hits that call, whose rollback is then answered; from  *)
(* there on requests are refused by what the daemon holds only, and a name *)
(* that is free, stopped or created has a call that takes it further.      *)
(***************************************************************************)

(* What becomes of a request when little enough goes wrong.                *)
Answered(can, effect, good, r) ==
  can /\ container' = effect /\ run' = [run EXCEPT ![r] = good] /\ faults' = faults

Unable(can, bad, r) ==
  /\ ~can /\ container' = container /\ run' = [run EXCEPT ![r] = bad]
  /\ faults' = MaxFaults \/ faults' = faults

Refused(call, can, bad, r) ==
  /\ can /\ container' = container /\ run' = [run EXCEPT ![r] = bad]
  /\ call \notin {"remove", "record"} /\ faults < MaxFaults /\ faults' = MaxFaults

AnswerLost(call, can, effect, bad, r) ==
  /\ can /\ container' = effect /\ run' = [run EXCEPT ![r] = bad]
  /\ call = "start" /\ faults < MaxFaults /\ faults' = MaxFaults

LEMMA LittleCanHappen ==
  ASSUME LittleTrouble, TypeOK, LocalsTell, NEW r \in Runs, NEW call, NEW can \in BOOLEAN,
         NEW effect, NEW good, NEW bad, Request(r, call, can, effect, good, bad)
  PROVE  \/ Answered(can, effect, good, r)
         \/ Unable(can, bad, r)
         \/ Refused(call, can, bad, r)
         \/ AnswerLost(call, can, effect, bad, r)
<1>1. PICK outcome \in Outcomes(r, call) :
        /\ container' = IF can /\ outcome # "fail" THEN effect ELSE container
        /\ run' = [run EXCEPT ![r] = IF can /\ outcome = "ok" THEN good ELSE bad]
        /\ faults' = IF outcome # "ok" /\ ~run[r].cancelled THEN faults + 1 ELSE faults
  BY DEF Request
<1>2. ~run[r].cancelled
  BY DEF LocalsTell, LocalsFit
<1>3. \/ outcome = "ok"
      \/ outcome \in {"fail", "lost"} /\ <<call, outcome>> \in Faults /\ faults < MaxFaults
  BY <1>1, <1>2 DEF Outcomes, Kinds
<1>4. CASE outcome = "ok"
  BY <1>1, <1>4 DEF Answered, Unable
<1>5. CASE outcome \in {"fail", "lost"} /\ <<call, outcome>> \in Faults /\ faults < MaxFaults
  <2>1. faults' = MaxFaults
    BY <1>1, <1>2, <1>5, MaxFaultsAssumption DEF LittleTrouble, TypeOK
  <2>2. /\ outcome = "fail" => call \notin {"remove", "record"}
        /\ outcome = "lost" => call = "start"
    BY <1>5 DEF LittleTrouble, ReplacementTrouble
  <2> QED BY <1>1, <1>5, <2>1, <2>2 DEF Unable, Refused, AnswerLost
<1> QED BY <1>3, <1>4, <1>5

LEMMA IdCases ==
  \A id \in Ids : id = Original \/ \E r \in Runs, a \in Attempts : id = Created(r, a)
BY DEF Ids, Created

(* Run r moves on, and no other does.                                      *)
Moves(r, step, attempt, created) ==
  /\ run'[r].pc = step /\ run'[r].attempt = attempt /\ run'[r].created = created
  /\ run'[r].cancelled = run[r].cancelled /\ run'[r].target = run[r].target
  /\ \A s \in Runs \ {r} : run'[s] = run[s]

LEMMA MovesTo ==
  ASSUME TypeOK, NEW r \in Runs
  PROVE  /\ \A step \in Working : run' = [run EXCEPT ![r] = Goto(r, step)] =>
                                   Moves(r, step, run[r].attempt, run[r].created)
         /\ \A how \in Results : run' = [run EXCEPT ![r] = Finish(r, how)] =>
                                 Moves(r, "done", run[r].attempt, run[r].created)
<1>1. run[r] \in RunState /\ run \in [Runs -> RunState]
  BY DEF TypeOK
<1>2. ASSUME NEW step \in Working, run' = [run EXCEPT ![r] = Goto(r, step)]
      PROVE  Moves(r, step, run[r].attempt, run[r].created)
  BY <1>1, <1>2 DEF RunState, Moves, Goto
<1>3. ASSUME NEW how \in Results, run' = [run EXCEPT ![r] = Finish(r, how)]
      PROVE  Moves(r, "done", run[r].attempt, run[r].created)
  BY <1>1, <1>3 DEF RunState, Moves, Finish
<1> QED BY <1>2, <1>3

(* A call stays undisturbed, or the fault has happened.                    *)
LEMMA FaultsStayFirst ==
  ASSUME FaultsComeFirst, NEW r \in Runs, run[r].pc \in Working,
         \A s \in Runs \ {r} : run'[s] = run[s],
         faults' < MaxFaults => faults < MaxFaults,
         faults' < MaxFaults /\ Undisturbed(r) /\ run'[r].pc \in Working => Undisturbed(r)'
  PROVE  FaultsComeFirst'
<1> SUFFICES ASSUME faults' < MaxFaults, NEW s \in Runs, run'[s].pc \in Working
             PROVE  Undisturbed(s)' /\ \A t \in Runs \ {s} : run'[t].pc \notin Working
  BY DEF FaultsComeFirst
<1>1. Undisturbed(r) /\ \A t \in Runs \ {r} : run[t].pc \notin Working
  BY DEF FaultsComeFirst
<1>2. s = r /\ \A t \in Runs \ {r} : run'[t].pc \notin Working
  BY <1>1
<1> QED BY <1>1, <1>2

(* The locals of the other calls fit as long as the daemon only stops what *)
(* runs, removes, or changes containers they did not create.               *)
LEMMA OthersFit ==
  ASSUME LocalsTell, NEW r \in Runs, \A s \in Runs \ {r} : run'[s] = run[s],
         \A s \in Runs \ {r} : \/ container'[Current(s)] \in {container[Current(s)], "absent"}
                              \/ /\ container[Current(s)] = "running"
                                 /\ container'[Current(s)] = "stopped",
         LocalsFit(r)'
  PROVE  LocalsTell'
<1>1. ASSUME NEW s \in Runs \ {r} PROVE LocalsFit(s)'
  <2>1. LocalsFit(s) /\ run'[s] = run[s]
    BY DEF LocalsTell
  <2> QED BY <2>1 DEF LocalsFit, Current, Starting
<1> QED BY <1>1 DEF LocalsTell

LEMMA SurvivalBegin ==
  ASSUME LittleTrouble, TypeOK, SurvivalInv, NEW r \in Runs, Begin(r)
  PROVE  SurvivalInv'
<1>1. PICK id \in Ids :
        /\ Exists(id)
        /\ run' = [run EXCEPT ![r] = [run[r] EXCEPT !.pc = "stop", !.target = id]]
  BY DEF Begin
<1>2. /\ run[r].pc = "idle" /\ run'[r].pc = "stop" /\ run'[r].target = id
      /\ run'[r].attempt = run[r].attempt /\ run'[r].created = run[r].created
      /\ run'[r].cancelled = run[r].cancelled
      /\ \A s \in Runs \ {r} : run'[s] = run[s]
      /\ container' = container
  BY <1>1 DEF Begin, TypeOK, RunState
<1>3. /\ faults' = MaxFaults \/ faults' = faults
      /\ faults' < MaxFaults => ~Overlaps
  BY MaxFaultsAssumption DEF Begin, LittleTrouble, TypeOK
<1>4. AtMostOne' /\ LocalsTell'
  BY <1>2 DEF SurvivalInv, AtMostOne, LocalsTell, LocalsFit, Exists, Current, Starting
<1>5. StoppedIsClaimed'
  BY <1>2 DEF SurvivalInv, StoppedIsClaimed
<1>6. CreatedIsAttended' /\ GapIsFilled'
  BY <1>1, <1>2 DEF SurvivalInv, CreatedIsAttended, GapIsFilled, NameFree, Exists, Starting
<1>7. FaultsComeFirst'
  <2> SUFFICES ASSUME faults' < MaxFaults
               PROVE  /\ Undisturbed(r)'
                      /\ \A s \in Runs \ {r} : run'[s].pc \notin Working
    BY <1>2 DEF FaultsComeFirst
  <2>1. \A s \in Runs : run[s].pc \notin Working
    BY <1>3 DEF Overlaps
  <2>2. container[id] # "stopped"
    BY <2>1 DEF SurvivalInv, StoppedIsClaimed, Working
  <2>3. container[id] # "created"
    BY <2>1, IdCases DEF SurvivalInv, CreatedIsAttended, Working, Starting
  <2>4. container[id] = "running"
    BY <1>1, <2>2, <2>3 DEF TypeOK, Exists
  <2>5. Undisturbed(r)'
    BY <1>2, <2>4 DEF Undisturbed, SurvivalInv, LocalsTell, LocalsFit, Starting
  <2> QED BY <1>2, <2>1, <2>5
<1> QED BY <1>4, <1>5, <1>6, <1>7 DEF SurvivalInv

LEMMA OwnIds ==
  ASSUME TypeOK
  PROVE  \A r, s \in Runs : Current(r) \in Ids /\ (s # r => Current(s) # Current(r))
<1>1. \A r \in Runs : run[r].attempt \in Attempts
  BY DEF TypeOK, RunState
<1> QED BY <1>1, IdFacts DEF Current

(* Each part of the invariant, for the ways one step changes the daemon.   *)
LEMMA SurvivalStep ==
  ASSUME LittleTrouble, TypeOK, SurvivalInv, NEW r \in Runs, Step(r)
  PROVE  SurvivalInv'
<1>a. LocalsTell /\ MaxFaults \in Nat /\ ~(MaxFaults < MaxFaults)
  BY MaxFaultsAssumption DEF SurvivalInv
<1>b. /\ Current(r) \in Ids /\ run[r].target \in Ids
      /\ \A s \in Runs \ {r} : Current(s) \in Ids /\ Current(s) # Current(r)
  BY BlockTypes, OwnIds
<1>c. container \in [Ids -> ContainerStates]
  BY DEF TypeOK, ContainerStates
<1>1. CASE Stop(r)
  <2> DEFINE id == run[r].target
             effect == IF container[id] = "running" THEN SetTo(id, "stopped") ELSE container
  <2>1. /\ run[r].pc = "stop"
        /\ \/ Answered(Exists(id), effect, Goto(r, "remove"), r)
           \/ Unable(Exists(id), Finish(r, "stopFailed"), r)
           \/ Refused("stop", Exists(id), Finish(r, "stopFailed"), r)
    BY <1>a, <1>1, LittleCanHappen DEF Stop, AnswerLost, Exists
  <2>2. \/ /\ Moves(r, "remove", run[r].attempt, run[r].created) /\ faults' = faults
           /\ Exists(id) /\ container' = effect
        \/ /\ Moves(r, "done", run[r].attempt, run[r].created) /\ faults' = faults
           /\ ~Exists(id) /\ container' = container
        \/ /\ Moves(r, "done", run[r].attempt, run[r].created) /\ faults' = MaxFaults
           /\ container' = container
    BY <2>1, MovesTo DEF Answered, Unable, Refused, Working, Results
  <2> HIDE DEF effect
  <2>3. /\ \A i \in Ids \ {id} : container'[i] = container[i]
        /\ container'[id] # container[id] =>
             /\ container[id] = "running" /\ container'[id] = "stopped"
             /\ Moves(r, "remove", run[r].attempt, run[r].created)
        /\ Moves(r, "remove", run[r].attempt, run[r].created) /\ container[id] = "running" =>
             container'[id] = "stopped"
    BY <1>b, <1>c, <2>2 DEF effect, SetTo, Exists, Moves
  <2> USE <1>a, <1>b, <2>1, <2>2, <2>3 DEF Moves
  <2>4. AtMostOne'
    BY DEF SurvivalInv, AtMostOne, Exists
  <2>5. FaultsComeFirst'
    <3>1. faults' < MaxFaults /\ Undisturbed(r) /\ run'[r].pc \in Working => Undisturbed(r)'
      BY DEF Undisturbed, Starting, Working
    <3> QED BY <3>1, FaultsStayFirst DEF SurvivalInv, Working
  <2>6. LocalsTell'
    <3>1. LocalsFit(r)'
      BY DEF LocalsTell, LocalsFit, Starting
    <3> QED BY <3>1, OthersFit
  <2>7. StoppedIsClaimed'
    BY DEF SurvivalInv, StoppedIsClaimed
  <2>8. CreatedIsAttended'
    BY IdFacts DEF SurvivalInv, CreatedIsAttended, Starting
  <2>9. GapIsFilled'
    BY DEF SurvivalInv, GapIsFilled, WillCreate, Starting, NameFree, Exists
  <2> QED BY <2>4, <2>5, <2>6, <2>7, <2>8, <2>9 DEF SurvivalInv
<1>2. CASE Remove(r)
  <2> DEFINE id == run[r].target
  <2>1. /\ run[r].pc = "remove"
        /\ \/ Answered(Exists(id) /\ container[id] # "running", SetTo(id, "absent"), Goto(r, "prepare"), r)
           \/ Unable(Exists(id) /\ container[id] # "running", Finish(r, "removeFailed"), r)
    BY <1>a, <1>2, LittleCanHappen DEF Remove, AnswerLost, Refused, Exists
  <2>2. \/ /\ Moves(r, "prepare", run[r].attempt, run[r].created) /\ faults' = faults
           /\ container' = SetTo(id, "absent")
        \/ /\ Moves(r, "done", run[r].attempt, run[r].created)
           /\ faults' = faults \/ faults' = MaxFaults
           /\ container[id] \in {"absent", "running"} /\ container' = container
    BY <2>1, MovesTo DEF Answered, Unable, Working, Results, Exists
  <2>3. /\ \A i \in Ids \ {id} : container'[i] = container[i]
        /\ container'[id] # container[id] => container'[id] = "absent"
        /\ run'[r].pc = "prepare" => container'[id] = "absent"
    BY <1>b, <1>c, <2>2 DEF SetTo, Moves
  <2> USE <1>a, <1>b, <2>1, <2>2, <2>3 DEF Moves
  <2>4. AtMostOne'
    BY DEF SurvivalInv, AtMostOne, Exists
  <2>5. FaultsComeFirst'
    <3>1. faults' < MaxFaults /\ Undisturbed(r) /\ run'[r].pc \in Working => Undisturbed(r)'
      BY DEF Undisturbed, Starting, Working, SurvivalInv, AtMostOne, NameFree, Exists
    <3> QED BY <3>1, FaultsStayFirst DEF SurvivalInv, Working
  <2>6. LocalsTell'
    <3>1. LocalsFit(r)'
      BY DEF LocalsTell, LocalsFit, Starting
    <3> QED BY <3>1, OthersFit
  <2>7. StoppedIsClaimed'
    BY DEF SurvivalInv, StoppedIsClaimed
  <2>8. CreatedIsAttended'
    BY IdFacts DEF SurvivalInv, CreatedIsAttended, Starting
  <2>9. GapIsFilled'
    BY DEF SurvivalInv, GapIsFilled, WillCreate, Starting, NameFree, Exists
  <2> QED BY <2>4, <2>5, <2>6, <2>7, <2>8, <2>9 DEF SurvivalInv
<1>d. faults < MaxFaults /\ run[r].pc \in Working => Undisturbed(r)
  BY DEF SurvivalInv, FaultsComeFirst
<1>3. CASE Prepare(r)
  <2>1. /\ run[r].pc = "prepare"
        /\ \/ Answered(TRUE, container, Goto(r, "create"), r)
           \/ Refused("prepare", TRUE, Goto(r, "cleanup"), r)
    BY <1>a, <1>3, LittleCanHappen DEF Prepare, AnswerLost, Unable
  <2>2. /\ \/ Moves(r, "create", run[r].attempt, run[r].created) /\ faults' = faults
           \/ /\ Moves(r, "cleanup", run[r].attempt, run[r].created)
              /\ faults' = MaxFaults /\ Undisturbed(r)
        /\ container' = container
    BY <1>d, <2>1, MovesTo DEF Answered, Refused, Working
  <2> USE <1>a, <1>b, <2>1, <2>2 DEF Moves
  <2>4. AtMostOne'
    BY DEF SurvivalInv, AtMostOne, Exists
  <2>5. FaultsComeFirst'
    <3>1. faults' < MaxFaults /\ Undisturbed(r) /\ run'[r].pc \in Working => Undisturbed(r)'
      BY DEF Undisturbed, Starting, Working, NameFree, Exists
    <3> QED BY <3>1, FaultsStayFirst DEF SurvivalInv, Working
  <2>6. LocalsTell'
    <3>1. LocalsFit(r)'
      BY DEF LocalsTell, LocalsFit, Starting
    <3> QED BY <3>1, OthersFit
  <2>7. StoppedIsClaimed'
    BY DEF SurvivalInv, StoppedIsClaimed
  <2>8. CreatedIsAttended'
    BY IdFacts DEF SurvivalInv, CreatedIsAttended, Starting
  <2>9. GapIsFilled'
    BY DEF SurvivalInv, GapIsFilled, WillCreate, Starting, NameFree, Exists, Undisturbed
  <2> QED BY <2>4, <2>5, <2>6, <2>7, <2>8, <2>9 DEF SurvivalInv
<1>4. CASE Create(r)
  <2> DEFINE id == Current(r)
             next == IF ExtraNetworks THEN "connect" ELSE "start"
             good == [run[r] EXCEPT !.pc = next, !.created = TRUE]
  <2>1. /\ run[r].pc = "create"
        /\ \/ Answered(NameFree, SetTo(id, "created"), good, r)
           \/ Unable(NameFree, Goto(r, "cleanup"), r)
           \/ Refused("create", NameFree, Goto(r, "cleanup"), r)
    BY <1>a, <1>4, LittleCanHappen DEF Create, AnswerLost, NameFree
  <2>2. run' = [run EXCEPT ![r] = good] => Moves(r, next, run[r].attempt, TRUE)
    BY DEF Moves, TypeOK, RunState
  <2>3. next \in Starting
    BY DEF Starting
  <2> HIDE DEF next, good
  <2>4. \/ /\ Moves(r, next, run[r].attempt, TRUE) /\ faults' = faults
           /\ NameFree /\ container' = SetTo(id, "created")
        \/ /\ Moves(r, "cleanup", run[r].attempt, run[r].created)
           /\ container' = container
           /\ \/ ~NameFree /\ faults' \in {faults, MaxFaults}
              \/ faults' = MaxFaults /\ Undisturbed(r)
    BY <1>d, <2>1, <2>2, MovesTo DEF Answered, Refused, Unable, Working
  <2>5. /\ \A i \in Ids \ {id} : container'[i] = container[i]
        /\ \/ container'[id] = container[id]
           \/ /\ container'[id] = "created" /\ NameFree
              /\ Moves(r, next, run[r].attempt, TRUE)
    BY <1>b, <1>c, <2>4 DEF SetTo
  <2>6. Moves(r, next, run[r].attempt, TRUE) => container'[id] = "created"
    BY <1>b, <1>c, <2>3, <2>4 DEF SetTo, Moves, Starting
  <2> USE <1>a, <1>b, <2>1, <2>3, <2>4, <2>5, <2>6 DEF Moves
  <2>7. AtMostOne'
    BY DEF SurvivalInv, AtMostOne, Exists, NameFree
  <2>8. FaultsComeFirst'
    <3>1. faults' < MaxFaults /\ Undisturbed(r) /\ run'[r].pc \in Working => Undisturbed(r)'
      BY DEF Undisturbed, Starting, Working, Current, Exists
    <3> QED BY <3>1, FaultsStayFirst DEF SurvivalInv, Working
  <2>9. LocalsTell'
    <3>1. LocalsFit(r)'
      BY DEF LocalsTell, LocalsFit, Starting, Current
    <3> QED BY <3>1, OthersFit
  <2>10. StoppedIsClaimed'
    BY DEF SurvivalInv, StoppedIsClaimed
  <2>11. CreatedIsAttended'
    <3>1. run[r].attempt \in Attempts
      BY DEF TypeOK, RunState
    <3>2. container'[Original] # "created"
      BY <3>1, IdFacts DEF SurvivalInv, CreatedIsAttended, Current
    <3>3. ASSUME NEW a \in Attempts, container'[Created(r, a)] = "created"
          PROVE  Created(r, a) = id /\ Moves(r, next, run[r].attempt, TRUE)
      <4>1. container[Created(r, a)] # "created"
        BY <2>1 DEF SurvivalInv, CreatedIsAttended, LocalsTell, LocalsFit
      <4> QED BY <3>3, <4>1, IdFacts
    <3>4. ASSUME NEW s \in Runs \ {r}, NEW a \in Attempts
          PROVE  container'[Created(s, a)] = container[Created(s, a)]
      BY <3>1, IdFacts DEF Current
    <3> QED BY <3>1, <3>2, <3>3, <3>4, IdFacts DEF SurvivalInv, CreatedIsAttended, Starting, Current
  <2>12. GapIsFilled'
    BY DEF SurvivalInv, GapIsFilled, WillCreate, Starting, NameFree, Exists, Undisturbed
  <2> QED BY <2>7, <2>8, <2>9, <2>10, <2>11, <2>12 DEF SurvivalInv
<1>5. CASE Connect(r)
  <2> DEFINE id == Current(r)
  <2>1. /\ run[r].pc = "connect"
        /\ \/ Answered(Exists(id), container, Goto(r, "start"), r)
           \/ Unable(Exists(id), Goto(r, "cleanup"), r)
           \/ Refused("connect", Exists(id), Goto(r, "cleanup"), r)
    BY <1>a, <1>5, LittleCanHappen DEF Connect, AnswerLost, Exists
  <2>2. /\ \/ Moves(r, "start", run[r].attempt, run[r].created) /\ faults' = faults
           \/ /\ Moves(r, "cleanup", run[r].attempt, run[r].created)
              /\ \/ ~Exists(id) /\ faults' \in {faults, MaxFaults}
                 \/ faults' = MaxFaults /\ Undisturbed(r)
        /\ container' = container
    BY <1>d, <2>1, MovesTo DEF Answered, Refused, Unable, Working
  <2> USE <1>a, <1>b, <2>1, <2>2 DEF Moves
  <2>4. AtMostOne'
    BY DEF SurvivalInv, AtMostOne, Exists
  <2>5. FaultsComeFirst'
    <3>1. faults' < MaxFaults /\ Undisturbed(r) /\ run'[r].pc \in Working => Undisturbed(r)'
      BY DEF Undisturbed, Starting, Working, Current, Exists
    <3> QED BY <3>1, FaultsStayFirst DEF SurvivalInv, Working
  <2>6. LocalsTell'
    <3>1. LocalsFit(r)'
      BY DEF LocalsTell, LocalsFit, Starting, Current, Exists, Undisturbed
    <3> QED BY <3>1, OthersFit
  <2>7. StoppedIsClaimed'
    BY DEF SurvivalInv, StoppedIsClaimed
  <2>8. CreatedIsAttended'
    BY IdFacts DEF SurvivalInv, CreatedIsAttended, LocalsTell, LocalsFit, Starting, Current, Exists, Undisturbed
  <2>9. GapIsFilled'
    BY DEF SurvivalInv, GapIsFilled, WillCreate, Starting, NameFree, Exists, Undisturbed
  <2> QED BY <2>4, <2>5, <2>6, <2>7, <2>8, <2>9 DEF SurvivalInv
<1>6. CASE Start(r)
  <2> DEFINE id == Current(r)
  <2>1. /\ run[r].pc = "start"
        /\ \/ Answered(Exists(id), SetTo(id, "running"), Goto(r, "record"), r)
           \/ Unable(Exists(id), Goto(r, "inspect"), r)
           \/ Refused("start", Exists(id), Goto(r, "inspect"), r)
           \/ AnswerLost("start", Exists(id), SetTo(id, "running"), Goto(r, "inspect"), r)
    BY <1>a, <1>6, LittleCanHappen DEF Start, Exists
  <2>2. \/ /\ Moves(r, "record", run[r].attempt, run[r].created) /\ faults' = faults
           /\ Exists(id) /\ container' = SetTo(id, "running")
        \/ /\ Moves(r, "inspect", run[r].attempt, run[r].created)
           /\ \/ ~Exists(id) /\ faults' \in {faults, MaxFaults} /\ container' = container
              \/ /\ faults' = MaxFaults /\ Undisturbed(r)
                 /\ container' = container \/ (Exists(id) /\ container' = SetTo(id, "running"))
    <3>1. Answered(Exists(id), SetTo(id, "running"), Goto(r, "record"), r) =>
            /\ Moves(r, "record", run[r].attempt, run[r].created) /\ faults' = faults
            /\ Exists(id) /\ container' = SetTo(id, "running")
      BY MovesTo DEF Answered, Working
    <3>2. Unable(Exists(id), Goto(r, "inspect"), r) =>
            /\ Moves(r, "inspect", run[r].attempt, run[r].created)
            /\ ~Exists(id) /\ faults' \in {faults, MaxFaults} /\ container' = container
      BY MovesTo DEF Unable, Working
    <3>3. Refused("start", Exists(id), Goto(r, "inspect"), r)
          \/ AnswerLost("start", Exists(id), SetTo(id, "running"), Goto(r, "inspect"), r) =>
            /\ Moves(r, "inspect", run[r].attempt, run[r].created)
            /\ faults' = MaxFaults /\ faults < MaxFaults
            /\ container' = container \/ (Exists(id) /\ container' = SetTo(id, "running"))
      BY MovesTo DEF Refused, AnswerLost, Working
    <3> QED BY <1>d, <2>1, <3>1, <3>2, <3>3 DEF Working
  <2>3. /\ \A i \in Ids \ {id} : container'[i] = container[i]
        /\ container'[id] = container[id] \/ (Exists(id) /\ container'[id] = "running")
        /\ run'[r].pc = "record" => container'[id] = "running"
        /\ container[id] \in {"absent", "created"}
    BY <1>a, <1>b, <1>c, <2>1, <2>2 DEF SetTo, Moves, LocalsTell, LocalsFit, Starting
  <2> USE <1>a, <1>b, <2>1, <2>2, <2>3 DEF Moves
  <2>4. AtMostOne'
    BY DEF SurvivalInv, AtMostOne, Exists
  <2>5. FaultsComeFirst'
    <3>1. ASSUME faults' < MaxFaults, Undisturbed(r) PROVE Undisturbed(r)'
      <4>1. container[id] = "created"
        BY <3>1 DEF Undisturbed, Starting
      <4>2. run'[r].pc = "record" /\ run'[r].attempt = "update"
        BY <3>1, <4>1 DEF Undisturbed, Exists
      <4> QED BY <4>2 DEF Undisturbed, Starting, Current
    <3> QED BY <3>1, FaultsStayFirst DEF SurvivalInv, Working
  <2>6. LocalsTell'
    <3>1. LocalsFit(r)'
      BY DEF LocalsTell, LocalsFit, Starting, Current, Exists, Undisturbed
    <3> QED BY <3>1, OthersFit
  <2>7. StoppedIsClaimed'
    BY DEF SurvivalInv, StoppedIsClaimed
  <2>8. CreatedIsAttended'
    BY IdFacts DEF SurvivalInv, CreatedIsAttended, LocalsTell, LocalsFit, Starting, Current, Exists, Undisturbed
  <2>9. GapIsFilled'
    BY DEF SurvivalInv, GapIsFilled, WillCreate, Starting, NameFree, Exists, Undisturbed
  <2> QED BY <2>4, <2>5, <2>6, <2>7, <2>8, <2>9 DEF SurvivalInv
<1>7. CASE Inspect(r)
  <2> DEFINE id == Current(r)
  <2>1. /\ run[r].pc = "inspect"
        /\ \/ Answered(container[id] = "running", container, Goto(r, "record"), r)
           \/ Unable(container[id] = "running", Goto(r, "cleanup"), r)
           \/ Refused("inspect", container[id] = "running", Goto(r, "cleanup"), r)
    BY <1>a, <1>7, LittleCanHappen DEF Inspect, AnswerLost
  <2>2. /\ \/ /\ Moves(r, "record", run[r].attempt, run[r].created) /\ faults' = faults
              /\ container[id] = "running"
           \/ /\ Moves(r, "cleanup", run[r].attempt, run[r].created)
              /\ container[id] # "running" /\ faults' \in {faults, MaxFaults}
        /\ container' = container
    BY <1>d, <2>1, MovesTo DEF Answered, Refused, Unable, Working, Undisturbed
  <2> USE <1>a, <1>b, <2>1, <2>2 DEF Moves
  <2>4. AtMostOne'
    BY DEF SurvivalInv, AtMostOne, Exists
  <2>5. FaultsComeFirst'
    <3>1. faults' < MaxFaults /\ Undisturbed(r) /\ run'[r].pc \in Working => Undisturbed(r)'
      BY DEF Undisturbed, Starting, Working, Current, Exists
    <3> QED BY <3>1, FaultsStayFirst DEF SurvivalInv, Working
  <2>6. LocalsTell'
    <3>1. LocalsFit(r)'
      BY DEF LocalsTell, LocalsFit, Starting, Current, Exists, Undisturbed
    <3> QED BY <3>1, OthersFit
  <2>7. StoppedIsClaimed'
    BY DEF SurvivalInv, StoppedIsClaimed
  <2>8. CreatedIsAttended'
    BY IdFacts DEF SurvivalInv, CreatedIsAttended, LocalsTell, LocalsFit, Starting, Current, Exists, Undisturbed
  <2>9. GapIsFilled'
    BY DEF SurvivalInv, GapIsFilled, WillCreate, Starting, NameFree, Exists, Undisturbed
  <2> QED BY <2>4, <2>5, <2>6, <2>7, <2>8, <2>9 DEF SurvivalInv
<1>8. CASE Record(r)
  <2> DEFINE how == IF run[r].attempt = "update" THEN "updated" ELSE "rolledBack"
  <2>1. run[r].pc = "record" /\ Answered(TRUE, container, Finish(r, how), r)
    BY <1>a, <1>8, LittleCanHappen DEF Record, AnswerLost, Refused, Unable
  <2>2. /\ Moves(r, "done", run[r].attempt, run[r].created) /\ faults' = faults
        /\ container' = container
    BY <2>1, MovesTo DEF Answered, Results
  <2> USE <1>a, <1>b, <2>1, <2>2 DEF Moves
  <2>4. AtMostOne'
    BY DEF SurvivalInv, AtMostOne, Exists
  <2>5. FaultsComeFirst'
    <3>1. faults' < MaxFaults /\ Undisturbed(r) /\ run'[r].pc \in Working => Undisturbed(r)'
      BY DEF Undisturbed, Starting, Working, Current, Exists
    <3> QED BY <3>1, FaultsStayFirst DEF SurvivalInv, Working
  <2>6. LocalsTell'
    <3>1. LocalsFit(r)'
      BY DEF LocalsTell, LocalsFit, Starting, Current, Exists, Undisturbed
    <3> QED BY <3>1, OthersFit
  <2>7. StoppedIsClaimed'
    BY DEF SurvivalInv, StoppedIsClaimed
  <2>8. CreatedIsAttended'
    BY IdFacts DEF SurvivalInv, CreatedIsAttended, LocalsTell, LocalsFit, Starting, Current, Exists, Undisturbed
  <2>9. GapIsFilled'
    BY DEF SurvivalInv, GapIsFilled, WillCreate, Starting, NameFree, Exists, Undisturbed
  <2> QED BY <2>4, <2>5, <2>6, <2>7, <2>8, <2>9 DEF SurvivalInv
<1>9. CASE Cleanup(r)
  <2> DEFINE id == Current(r)
  <2>1. /\ run[r].pc = "cleanup" /\ run' = [run EXCEPT ![r] = AfterCleanup(r)]
        /\ faults' = faults \/ faults' = MaxFaults
        /\ \/ container' = SetTo(id, "absent") /\ run[r].created
           \/ container' = container /\ (run[r].created => container[id] = "absent")
    <3>1. CASE run[r].created
      <4>1. /\ run[r].pc = "cleanup"
            /\ \/ Answered(Exists(id), SetTo(id, "absent"), AfterCleanup(r), r)
               \/ Unable(Exists(id), AfterCleanup(r), r)
               \/ Refused("cleanup", Exists(id), AfterCleanup(r), r)
        BY <1>a, <1>9, <3>1, LittleCanHappen DEF Cleanup, AnswerLost, Exists
      <4>2. ~Refused("cleanup", Exists(id), AfterCleanup(r), r)
        BY <1>d, <4>1 DEF Refused, Undisturbed, Working
      <4> QED BY <3>1, <4>1, <4>2 DEF Answered, Unable, Exists
    <3>2. CASE ~run[r].created
      BY <1>9, <3>2 DEF Cleanup
    <3> QED BY <3>1, <3>2
  <2>2. faults = MaxFaults /\ faults' = MaxFaults
    BY <1>a, <1>d, <2>1 DEF Undisturbed, Working, TypeOK
  <2>3. \/ run[r].attempt = "update" /\ Moves(r, "prepare", "rollback", FALSE)
        \/ run[r].attempt = "rollback" /\ Moves(r, "done", "rollback", run[r].created)
    <3>1. run[r].attempt \in Attempts
      BY DEF TypeOK, RunState
    <3>2. CASE run[r].attempt = "update"
      BY <2>1, <3>2 DEF AfterCleanup, Moves, TypeOK, RunState
    <3>3. CASE run[r].attempt = "rollback"
      BY <2>1, <3>3, MovesTo DEF AfterCleanup, Results
    <3> QED BY <3>1, <3>2, <3>3 DEF Attempts
  <2>4. /\ \A i \in Ids \ {id} : container'[i] = container[i]
        /\ container'[id] \in {container[id], "absent"}
        /\ run[r].created => container'[id] = "absent"
        /\ run[r].attempt = "rollback" => container'[id] = container[id]
    BY <1>a, <1>b, <1>c, <2>1 DEF SetTo, LocalsTell, LocalsFit
  <2> USE <1>a, <1>b, <2>1, <2>2, <2>3, <2>4 DEF Moves
  <2>5. AtMostOne'
    BY DEF SurvivalInv, AtMostOne, Exists
  <2>6. FaultsComeFirst'
    <3>1. faults' < MaxFaults /\ Undisturbed(r) /\ run'[r].pc \in Working => Undisturbed(r)'
      BY DEF Undisturbed, Starting, Working, Current, Exists
    <3> QED BY <3>1, FaultsStayFirst DEF SurvivalInv, Working
  <2>7. LocalsTell'
    <3>1. LocalsFit(r)'
      BY DEF LocalsTell, LocalsFit, Starting, Current, Exists, Undisturbed
    <3> QED BY <3>1, OthersFit
  <2>8. StoppedIsClaimed'
    BY DEF SurvivalInv, StoppedIsClaimed
  <2>9. CreatedIsAttended'
    BY IdFacts DEF SurvivalInv, CreatedIsAttended, LocalsTell, LocalsFit, Starting, Current, Exists, Undisturbed
  <2>10. GapIsFilled'
    BY DEF SurvivalInv, GapIsFilled, WillCreate, Starting, NameFree, Exists, Undisturbed
  <2> QED BY <2>5, <2>6, <2>7, <2>8, <2>9, <2>10 DEF SurvivalInv
<1> QED
  BY <1>1, <1>2, <1>3, <1>4, <1>5, <1>6, <1>7, <1>8, <1>9 DEF Step

LEMMA SurvivalInductive ==
  ASSUME LittleTrouble, TypeOK, SurvivalInv, [Next]_vars
  PROVE  SurvivalInv'
<1>1. ASSUME NEW r \in Runs, CancelContext(r) PROVE FALSE
  BY <1>1 DEF CancelContext, LittleTrouble, ReplacementTrouble
<1>2. ASSUME NEW id \in Ids, DaemonAutoRemove(id) PROVE FALSE
  BY <1>2 DEF DaemonAutoRemove, LittleTrouble
<1>3. CASE Crash
  BY <1>3 DEF Crash, LittleTrouble, ReplacementTrouble
<1>4. CASE UNCHANGED vars
  BY <1>4 DEF vars, SurvivalInv, AtMostOne, FaultsComeFirst, Undisturbed, LocalsTell, LocalsFit,
     StoppedIsClaimed, CreatedIsAttended, GapIsFilled, WillCreate, NameFree, Exists, Current
<1> QED
  BY <1>1, <1>2, <1>3, <1>4, SurvivalBegin, SurvivalStep DEF Next

LEMMA SurvivalHolds ==
  ASSUME LittleTrouble
  PROVE  Spec => []SurvivalInv
<1>1. Init => SurvivalInv
  <2> SUFFICES ASSUME Init PROVE SurvivalInv
    OBVIOUS
  <2>1. /\ container = [id \in Ids |-> IF id = Original THEN "running" ELSE "absent"]
        /\ \A r \in Runs : /\ run[r].pc = "idle" /\ run[r].attempt = "update"
                           /\ ~run[r].created /\ ~run[r].cancelled
    BY DEF Init, LittleTrouble
  <2>2. /\ container[Original] = "running" /\ Original \in Ids
        /\ \A r \in Runs, a \in Attempts : container[Created(r, a)] = "absent"
    BY <2>1, IdFacts
  <2>3. AtMostOne
    BY <2>1 DEF AtMostOne, Exists
  <2>4. FaultsComeFirst /\ StoppedIsClaimed /\ LocalsTell
    BY <2>1 DEF FaultsComeFirst, StoppedIsClaimed, LocalsTell, LocalsFit, Working, Starting
  <2>5. CreatedIsAttended /\ GapIsFilled
    BY <2>2 DEF CreatedIsAttended, GapIsFilled, NameFree, Exists
  <2> QED BY <2>3, <2>4, <2>5 DEF SurvivalInv
<1>2. TypeOK /\ SurvivalInv /\ [Next]_vars => SurvivalInv'
  BY SurvivalInductive
<1>3. QED
  BY <1>1, <1>2, TypeCorrect, PTL DEF Spec

(* When no call is under way a container of the name is running, for any   *)
(* number of calls.                                                        *)
THEOREM ServiceSurvivesHolds ==
  ASSUME LittleTrouble
  PROVE  Spec => []ServiceSurvives
<1>1. TypeOK /\ SurvivalInv => ServiceSurvives
  <2> SUFFICES ASSUME TypeOK, SurvivalInv, Settled PROVE SomeRunning
    BY DEF ServiceSurvives
  <2>1. PICK id \in Ids : container[id] # "absent"
    BY DEF SurvivalInv, GapIsFilled, Settled, WillCreate, Starting, NameFree, Exists
  <2>2. container[id] # "stopped"
    BY DEF SurvivalInv, StoppedIsClaimed, Settled
  <2>3. container[id] # "created"
    BY IdCases DEF SurvivalInv, CreatedIsAttended, Settled, Starting
  <2>4. container[id] = "running"
    BY <2>1, <2>2, <2>3 DEF TypeOK
  <2> QED BY <2>4 DEF SomeRunning
<1>2. QED
  BY <1>1, TypeCorrect, SurvivalHolds, PTL

-----------------------------------------------------------------------------
(***************************************************************************)
(* A running container is not taken off the daemon.  The argument: remove  *)
(* refuses one that runs, and an attempt comes to its clean-up because its *)
(* container was never started, or was seen not to run, or because the     *)
(* caller gave up, and then the clean-up is refused as well.               *)
(***************************************************************************)
LEMMA KeptByStep ==
  ASSUME TypeOK, CleansUpWhatIsDown, [Next]_vars
  PROVE  \A id \in Ids : container[id] = "running" => container'[id] # "absent"
<1> SUFFICES ASSUME NEW id \in Ids, container[id] = "running", container'[id] = "absent"
             PROVE  FALSE
  OBVIOUS
<1>1. CASE \E r \in Runs : Step(r)
  <2> PICK r \in Runs : Step(r)
    BY <1>1
  <2> USE BlockTypes DEF Request, SetTo, TypeOK
  <2>1. CASE Stop(r) \/ Remove(r)
    BY <2>1 DEF Stop, Remove
  <2>2. CASE Prepare(r) \/ Connect(r) \/ Inspect(r) \/ Record(r)
    BY <2>2 DEF Prepare, Connect, Inspect, Record
  <2>3. CASE Create(r) \/ Start(r)
    BY <2>3 DEF Create, Start
  <2>4. CASE Cleanup(r)
    <3>1. run[r].pc = "cleanup" /\ run[r].created /\ id = Current(r) /\ ~run[r].cancelled
      BY <2>4 DEF Cleanup, Outcomes
    <3> QED BY <3>1 DEF CleansUpWhatIsDown
  <2> QED BY <2>1, <2>2, <2>3, <2>4 DEF Step
<1>2. CASE \E r \in Runs : Begin(r) \/ CancelContext(r)
  BY <1>2 DEF Begin, CancelContext
<1>3. CASE \E i \in Ids : DaemonAutoRemove(i)
  BY <1>3 DEF DaemonAutoRemove, SetTo, TypeOK
<1>4. CASE Crash \/ UNCHANGED vars
  BY <1>4 DEF Crash, vars
<1> QED BY <1>1, <1>2, <1>3, <1>4 DEF Next

LEMMA CleanUpInductive ==
  ASSUME NoFalseAlarm, TypeOK, CleansUpWhatIsDown, [Next]_vars
  PROVE  CleansUpWhatIsDown'
<1> DEFINE Fits(r) == /\ run[r].pc \in {"idle", "stop", "remove", "prepare", "create"} => ~run[r].created
                      /\ run[r].pc \in Starting => container[Current(r)] \in {"absent", "created"}
                      /\ run[r].pc = "inspect" /\ container[Current(r)] = "running" =>
                           <<"start", "lost">> \in Faults /\ faults >= 1
                      /\ run[r].pc = "cleanup" /\ run[r].created =>
                           run[r].cancelled \/ container[Current(r)] # "running"
<1> SUFFICES \A r \in Runs : Fits(r)'
  BY DEF CleansUpWhatIsDown
<1>a. \A r \in Runs : Fits(r)
  BY DEF CleansUpWhatIsDown
<1>b. container \in [Ids -> ContainerStates]
  BY DEF TypeOK, ContainerStates
<1>0. /\ \A kind \in Kinds : <<"record", kind>> \notin Faults
      /\ \/ \A kind \in Kinds : <<"inspect", kind>> \notin Faults
         \/ <<"start", "lost">> \notin Faults
         \/ MaxFaults <= 1
  <2>1. \A kind \in Kinds : <<"inspect", kind>> \in {"inspect"} \X Kinds
                            /\ <<"record", kind>> \in {"record"} \X Kinds
    OBVIOUS
  <2> QED BY <2>1 DEF NoFalseAlarm
<1>c. MaxFaults \in Nat /\ faults \in 0..MaxFaults
  BY MaxFaultsAssumption DEF TypeOK
<1>1. ASSUME NEW r \in Runs, Step(r) PROVE \A s \in Runs : Fits(s)'
  <2>a. /\ Current(r) \in Ids /\ run[r].target \in Ids
        /\ \A s \in Runs \ {r} : Current(s) \in Ids /\ Current(s) # Current(r)
    BY BlockTypes, OwnIds
  <2> USE <1>a, <1>b, <2>a
  <2>1. ASSUME NEW s \in Runs \ {r} PROVE Fits(s)'
    <3>1. run'[s] = run[s]
      BY <1>1, StepMoves
    <3>2. \/ container'[Current(s)] \in {container[Current(s)], "absent"}
          \/ container[Current(s)] = "running" /\ container'[Current(s)] = "stopped"
      <4> USE DEF Request, SetTo
      <4>1. CASE Stop(r) \/ Remove(r)
        BY <4>1 DEF Stop, Remove
      <4>2. CASE Prepare(r) \/ Connect(r) \/ Inspect(r) \/ Record(r)
        BY <4>2 DEF Prepare, Connect, Inspect, Record
      <4>3. CASE Create(r) \/ Start(r)
        BY <4>3 DEF Create, Start
      <4>4. CASE Cleanup(r)
        BY <4>4 DEF Cleanup
      <4> QED BY <1>1, <4>1, <4>2, <4>3, <4>4 DEF Step
    <3>3. faults' \in {faults, faults + 1}
      BY <1>1 DEF Step, Stop, Remove, Prepare, Create, Connect, Start, Inspect, Record, Cleanup, Request
    <3> QED BY <3>1, <3>2, <3>3, <1>c DEF Current, Starting
  <2>2. Fits(r)'
    <3> USE DEF Request, Goto, Finish, TypeOK, RunState, Current, Starting, SetTo
    <3>1. CASE Stop(r)
      BY <3>1 DEF Stop
    <3>2. CASE Remove(r)
      BY <3>2 DEF Remove
    <3>3. CASE Prepare(r)
      BY <3>3 DEF Prepare
    <3>4. CASE Create(r)
      <4>1. /\ run[r].pc = "create" /\ ~run[r].created /\ run[r].attempt \in Attempts
            /\ \/ container' = SetTo(Current(r), "created")
               \/ run' = [run EXCEPT ![r] = Goto(r, "cleanup")]
        BY <3>4 DEF Create
      <4>2. CASE run' = [run EXCEPT ![r] = Goto(r, "cleanup")]
        <5>1. run'[r].pc = "cleanup" /\ ~run'[r].created
          BY <4>1, <4>2
        <5> QED BY <5>1
      <4>3. CASE run' # [run EXCEPT ![r] = Goto(r, "cleanup")]
        <5> DEFINE next == IF ExtraNetworks THEN "connect" ELSE "start"
        <5>1. next \in Starting
          OBVIOUS
        <5>2. run' = [run EXCEPT ![r] = [run[r] EXCEPT !.pc = next, !.created = TRUE]]
          BY <3>4, <4>3 DEF Create
        <5> HIDE DEF next
        <5>3. run'[r].pc = next /\ run'[r].attempt = run[r].attempt
          BY <5>2
        <5>4. container'[Current(r)] = "created"
          BY <4>1, <4>3
        <5> QED BY <5>1, <5>3, <5>4
      <4> QED BY <4>2, <4>3
    <3>5. CASE Connect(r)
      BY <3>5 DEF Connect
    <3>6. CASE Start(r)
      <4>1. PICK outcome \in Outcomes(r, "start") :
              /\ container' = IF Exists(Current(r)) /\ outcome # "fail"
                              THEN SetTo(Current(r), "running") ELSE container
              /\ run' = [run EXCEPT ![r] = IF Exists(Current(r)) /\ outcome = "ok"
                                           THEN Goto(r, "record") ELSE Goto(r, "inspect")]
              /\ faults' = IF outcome # "ok" /\ ~run[r].cancelled THEN faults + 1 ELSE faults
        BY <3>6 DEF Start
      <4>2. container[Current(r)] \in {"absent", "created"}
        BY <3>6 DEF Start
      <4>3. outcome \in {"ok", "fail"} \/ (outcome = "lost" /\ <<"start", "lost">> \in Faults
                                          /\ ~run[r].cancelled)
        BY DEF Outcomes, Kinds
      <4> QED BY <4>1, <4>2, <4>3, <1>c DEF Exists
    <3>7. CASE Inspect(r)
      <4>1. container[Current(r)] = "running" =>
              \A outcome \in Outcomes(r, "inspect") : outcome = "ok" \/ run[r].cancelled
        BY <1>0, <1>c, <3>7 DEF Outcomes, Inspect
      <4> QED BY <3>7, <4>1 DEF Inspect
    <3>8. CASE Record(r)
      <4>1. \A outcome \in Outcomes(r, "record") : outcome = "ok"
        BY <1>0 DEF Outcomes
      <4> QED BY <3>8, <4>1 DEF Record
    <3>9. CASE Cleanup(r)
      <4>1. run'[r] = AfterCleanup(r)
        BY <3>9 DEF Cleanup
      <4> QED BY <4>1 DEF AfterCleanup
    <3> QED BY <1>1, <3>1, <3>2, <3>3, <3>4, <3>5, <3>6, <3>7, <3>8, <3>9 DEF Step
  <2> QED BY <2>1, <2>2
<1>2. ASSUME NEW r \in Runs, Begin(r) PROVE \A s \in Runs : Fits(s)'
  BY <1>a, <1>c, <1>2 DEF Begin, TypeOK, RunState, Current, Starting
<1>3. ASSUME NEW r \in Runs, CancelContext(r) PROVE \A s \in Runs : Fits(s)'
  BY <1>a, <1>c, <1>3 DEF CancelContext, TypeOK, RunState, Current, Starting
<1>4. ASSUME NEW id \in Ids, DaemonAutoRemove(id) PROVE \A s \in Runs : Fits(s)'
  <2>1. \A s \in Runs : container'[Current(s)] \in {container[Current(s)], "absent"} /\ run'[s] = run[s]
    BY <1>4, OwnIds, <1>b DEF DaemonAutoRemove, SetTo
  <2> QED BY <1>a, <1>4, <2>1 DEF Current, Starting, DaemonAutoRemove
<1>5. CASE Crash
  BY <1>a, <1>c, <1>5 DEF Crash, Finish, TypeOK, RunState, Current, Starting, Working
<1>6. CASE UNCHANGED vars
  BY <1>a, <1>6 DEF vars, Current, Starting
<1> QED
  BY <1>1, <1>2, <1>3, <1>4, <1>5, <1>6 DEF Next

(* A replacement that runs is not forced off the daemon, whatever fails,   *)
(* is lost, is cancelled or crashes, unless the host cannot record it, or  *)
(* its state cannot be read either after the lost answer of its start.     *)
THEOREM RunningReplacementKeptHolds ==
  ASSUME NoFalseAlarm
  PROVE  Spec => RunningReplacementKept
<1>1. Init => CleansUpWhatIsDown
  BY DEF Init, CleansUpWhatIsDown, Starting
<1>2. TypeOK /\ CleansUpWhatIsDown /\ [Next]_vars => CleansUpWhatIsDown'
  BY CleanUpInductive
<1>3. TypeOK /\ CleansUpWhatIsDown /\ [Next]_vars =>
        [\A id \in Ids : container[id] = "running" => container'[id] # "absent"]_vars
  BY KeptByStep
<1>4. QED
  BY <1>1, <1>2, <1>3, TypeCorrect, PTL DEF Spec, RunningReplacementKept

-----------------------------------------------------------------------------
(***************************************************************************)
(* The name passes on as NameSuccession says.  The argument: a request is  *)
(* one abstract step when it is carried out, and one without an effect on  *)
(* the name, or none, when it is not; what the abstract steps ask for is   *)
(* what the daemon asks for (a free name, a stopped container) and what    *)
(* the program counter tells, and only a report needs an invariant.        *)
(***************************************************************************)

LEMMA UpdateFirstHolds == Spec => []UpdateFirst
<1>1. Init => UpdateFirst
  BY DEF Init, UpdateFirst
<1>2. TypeOK /\ UpdateFirst /\ [Next]_vars => UpdateFirst'
  <2> SUFFICES ASSUME TypeOK, UpdateFirst, [Next]_vars PROVE UpdateFirst'
    OBVIOUS
  <2>1. ASSUME NEW r \in Runs, Begin(r) PROVE UpdateFirst'
    <3>1. PICK id \in Ids : run' = [run EXCEPT ![r] = [run[r] EXCEPT !.pc = "stop", !.target = id]]
      BY <2>1 DEF Begin
    <3> QED BY <2>1, <3>1 DEF Begin, UpdateFirst, TypeOK, RunState
  <2>2. ASSUME NEW r \in Runs, Step(r) PROVE UpdateFirst'
    <3>1. run[r].pc \in Working /\ \A s \in Runs \ {r} : run'[s] = run[s]
      BY <2>2, StepMoves
    <3>2. run'[r].pc \in {"idle", "stop", "remove"} => run'[r].attempt = "update"
      <4> USE DEF Request, Goto, Finish, TypeOK, RunState
      <4>1. CASE Stop(r)
        BY <4>1 DEF Stop, UpdateFirst
      <4>2. CASE Remove(r)
        BY <4>2 DEF Remove
      <4>3. CASE Prepare(r)
        BY <4>3 DEF Prepare
      <4>7. CASE Connect(r) \/ Inspect(r)
        BY <4>7 DEF Connect, Inspect
      <4>8. CASE Record(r)
        BY <4>8 DEF Record
      <4>4. CASE Create(r)
        BY <4>4 DEF Create
      <4>5. CASE Start(r)
        BY <4>5 DEF Start
      <4>6. CASE Cleanup(r)
        BY <4>6 DEF Cleanup, AfterCleanup
      <4> QED BY <2>2, <4>1, <4>2, <4>3, <4>4, <4>5, <4>6, <4>7, <4>8 DEF Step
    <3> QED BY <3>1, <3>2 DEF UpdateFirst
  <2>3. ASSUME NEW r \in Runs, CancelContext(r) PROVE UpdateFirst'
    BY <2>3 DEF CancelContext, UpdateFirst, TypeOK, RunState
  <2>4. ASSUME NEW id \in Ids, DaemonAutoRemove(id) PROVE UpdateFirst'
    BY <2>4 DEF DaemonAutoRemove, UpdateFirst
  <2>5. CASE Crash
    BY <2>5 DEF Crash, Finish, UpdateFirst, TypeOK, RunState
  <2>6. CASE UNCHANGED vars
    BY <2>6 DEF vars, UpdateFirst
  <2> QED
    BY <2>1, <2>2, <2>3, <2>4, <2>5, <2>6 DEF Next
<1>3. QED
  BY <1>1, <1>2, TypeCorrect, PTL DEF Spec

(* What the program counter tells of the abstract state.                   *)
StageTells(r) ==
  /\ run[r].pc = "idle" => stage[r] = "idle" /\ unborn[r] = Attempts
  /\ run[r].pc \in {"stop", "remove"} => stage[r] = "aimed" /\ unborn[r] = Attempts
  /\ run[r].pc \in {"prepare", "create"} =>
       /\ stage[r] = "heir" /\ run[r].attempt \in unborn[r]
       /\ unborn[r] = IF run[r].attempt = "update" THEN Attempts ELSE {"rollback"}
  /\ run[r].pc \in {"connect", "start", "inspect", "record", "cleanup"} =>
       /\ stage[r] = "heir" /\ run[r].attempt \notin unborn[r]
       /\ unborn[r] = IF run[r].attempt = "update" THEN {"rollback"} ELSE {}
  /\ run[r].pc = "done" =>
       /\ unborn[r] = {}
       /\ stage[r] = IF run[r].result \in {"stopFailed", "removeFailed"} THEN "refused" ELSE run[r].result

LEMMA StageNow == ASSUME TypeOK, NEW r \in Runs PROVE StageTells(r)
<1>1. run[r].attempt \in {"update", "rollback"}
  BY DEF TypeOK, RunState, Attempts
<1>2. stage[r] = Stage(r) /\ unborn[r] = {a \in Attempts : Unborn(r, a)}
  BY DEF stage, unborn
<1> QED BY <1>1, <1>2 DEF StageTells, Stage, Unborn, Attempts, Working

LEMMA StageThen == ASSUME TypeOK', NEW r \in Runs PROVE StageTells(r)'
<1>1. run'[r].attempt \in {"update", "rollback"}
  BY DEF TypeOK, RunState, Attempts
<1>2. stage'[r] = Stage(r)' /\ unborn'[r] = {a \in Attempts : Unborn(r, a)'}
  BY DEF stage, unborn
<1> QED BY <1>1, <1>2 DEF StageTells, Stage, Unborn, Attempts, Working

(* What one call does changes its own entries.                             *)
LEMMA OwnEntries ==
  ASSUME NEW r \in Runs, \A s \in Runs \ {r} : run'[s] = run[s]
  PROVE  /\ stage' = [stage EXCEPT ![r] = stage'[r]]
         /\ unborn' = [unborn EXCEPT ![r] = unborn'[r]]
         /\ aim' = [aim EXCEPT ![r] = run'[r].target]
<1>1. \A s \in Runs \ {r} : Stage(s)' = Stage(s) /\ \A a : Unborn(s, a)' <=> Unborn(s, a)
  BY DEF Stage, Unborn
<1>2. \A s \in Runs \ {r} : stage'[s] = stage[s]
  BY <1>1 DEF stage
<1>3. \A s \in Runs \ {r} : unborn'[s] = unborn[s]
  BY <1>1 DEF unborn
<1>4. stage' = [stage EXCEPT ![r] = stage'[r]]
  BY <1>2 DEF stage
<1>5. unborn' = [unborn EXCEPT ![r] = unborn'[r]]
  BY <1>3 DEF unborn
<1>6. aim' = [aim EXCEPT ![r] = run'[r].target]
  BY DEF aim
<1> QED BY <1>4, <1>5, <1>6

LEMMA StepEntries ==
  ASSUME TypeOK, NEW r \in Runs, Step(r)
  PROVE  /\ stage' = [stage EXCEPT ![r] = stage'[r]]
         /\ unborn' = [unborn EXCEPT ![r] = unborn'[r]]
         /\ aim' = aim
<1>1. run'[r].target = run[r].target /\ \A s \in Runs \ {r} : run'[s] = run[s]
  BY StepMoves
<1>2. aim' = aim
  BY <1>1 DEF aim
<1> QED BY <1>1, <1>2, OwnEntries

(* What becomes of a request.                                              *)
LEMMA RequestCases ==
  ASSUME TypeOK, NEW r \in Runs, NEW call, NEW can, NEW effect, NEW good, NEW bad,
         Request(r, call, can, effect, good, bad)
  PROVE  \/ can /\ container' = effect /\ (run'[r] = good \/ run'[r] = bad)
         \/ container' = container /\ run'[r] = bad
BY DEF Request, TypeOK

LEMMA SameHolders == ASSUME container' = container PROVE holders' = holders /\ serving' = serving
BY DEF holders, serving, Exists

LEMMA HoldersAfter ==
  ASSUME TypeOK, NEW id \in Ids, NEW st \in ContainerStates, container' = SetTo(id, st)
  PROVE  /\ holders' = IF st = "absent" THEN holders \ {id} ELSE holders \cup {id}
         /\ serving' = IF st = "running" THEN serving \cup {id} ELSE serving \ {id}
<1>1. \A i \in Ids : container'[i] = IF i = id THEN st ELSE container[i]
  BY DEF SetTo, TypeOK
<1> QED BY <1>1 DEF holders, serving, Exists

LEMMA HeldIsThere ==
  /\ \A id \in Ids : id \in holders <=> Exists(id)
  /\ \A id \in Ids : id \in serving <=> container[id] = "running"
BY DEF holders, serving

LEMMA OwnIsCreated == \A r \in Runs : Current(r) = Succession!Own(r, run[r].attempt)
BY DEF Current, Created, Succession!Own

-----------------------------------------------------------------------------
LEMMA StopSucceeds == ASSUME TypeOK, TypeOK', NEW r \in Runs, Stop(r) PROVE Succession!Halt(r)
<1>1. run[r].pc = "stop" /\ Step(r)
  BY DEF Stop, Step
<1>2. stage[r] = "aimed" /\ unborn[r] = Attempts /\ aim[r] = run[r].target /\ run[r].target \in Ids
  BY <1>1, StageNow, BlockTypes DEF StageTells, aim
<1>3. \/ /\ container' = IF container[run[r].target] = "running" THEN SetTo(run[r].target, "stopped") ELSE container
         /\ Exists(run[r].target)
         /\ run'[r] = Goto(r, "remove") \/ run'[r] = Finish(r, "stopFailed")
      \/ container' = container /\ run'[r] = Finish(r, "stopFailed")
  BY RequestCases DEF Stop
<1>4. holders' = holders /\ (serving' = serving \/ serving' = serving \ {aim[r]})
  <2>1. CASE container' = SetTo(run[r].target, "stopped") /\ Exists(run[r].target)
    BY <1>2, <2>1, HoldersAfter, HeldIsThere DEF ContainerStates
  <2>2. CASE container' = container
    BY <2>2, SameHolders
  <2> QED BY <1>3, <2>1, <2>2
<1>5. \/ run'[r].pc = "remove"
      \/ run'[r].pc = "done" /\ run'[r].result = "stopFailed"
  BY <1>3 DEF Goto, Finish, TypeOK, RunState
<1>6. \/ stage'[r] = stage[r] /\ unborn'[r] = unborn[r]
      \/ stage'[r] = "refused" /\ unborn'[r] = {}
  BY <1>2, <1>5, StageThen DEF StageTells
<1>7. (stage' = stage /\ unborn' = unborn) \/ Succession!EndAs(r, "refused")
  BY <1>1, <1>6, StepEntries DEF Succession!EndAs, stage, unborn
<1> QED BY <1>1, <1>2, <1>4, <1>7, StepEntries DEF Succession!Halt, Succession!Stay

LEMMA RemoveSucceeds ==
  ASSUME TypeOK, TypeOK', UpdateFirst, NEW r \in Runs, Remove(r) PROVE Succession!Halt(r) \/ Succession!TakeOver(r)
<1>1. run[r].pc = "remove" /\ Step(r)
  BY DEF Remove, Step
<1>2. stage[r] = "aimed" /\ unborn[r] = Attempts /\ aim[r] = run[r].target /\ run[r].target \in Ids
  BY <1>1, StageNow, BlockTypes DEF StageTells, aim
<1>3. \/ /\ container' = SetTo(run[r].target, "absent")
         /\ Exists(run[r].target) /\ container[run[r].target] # "running"
         /\ run'[r] = Goto(r, "prepare") \/ run'[r] = Finish(r, "removeFailed")
      \/ container' = container /\ run'[r] = Finish(r, "removeFailed")
  BY DEF Remove, Request, TypeOK
<1>4. /\ run'[r] = Goto(r, "prepare") => run'[r].pc = "prepare" /\ run'[r].attempt = run[r].attempt
      /\ run'[r] = Finish(r, "removeFailed") => run'[r].pc = "done" /\ run'[r].result = "removeFailed"
  BY DEF Goto, Finish, TypeOK, RunState
<1>5. run'[r] = Finish(r, "removeFailed") => Succession!EndAs(r, "refused")
  <2>1. run'[r] = Finish(r, "removeFailed") => stage'[r] = "refused" /\ unborn'[r] = {}
    BY <1>4, StageThen DEF StageTells
  <2> QED BY <1>1, <2>1, StepEntries DEF Succession!EndAs
<1>6. CASE container' = container /\ run'[r] = Finish(r, "removeFailed")
  BY <1>1, <1>2, <1>5, <1>6, SameHolders, StepEntries DEF Succession!Halt
<1>7. CASE /\ container' = SetTo(run[r].target, "absent")
           /\ Exists(run[r].target) /\ container[run[r].target] # "running"
  <2>1. /\ aim[r] \in holders \ serving
        /\ holders' = holders \ {aim[r]} /\ serving' = serving
    BY <1>2, <1>7, HoldersAfter, HeldIsThere DEF ContainerStates
  <2>2. CASE run'[r] = Goto(r, "prepare")
    <3>1. run[r].attempt = "update"
      BY <1>1 DEF UpdateFirst
    <3>2. stage'[r] = "heir" /\ unborn'[r] = unborn[r]
      BY <1>2, <1>4, <2>2, <3>1, StageThen DEF StageTells
    <3>3. stage' = [stage EXCEPT ![r] = "heir"] /\ unborn' = unborn
      BY <1>1, <3>2, StepEntries DEF unborn
    <3> QED BY <1>1, <1>2, <2>1, <3>3, StepEntries DEF Succession!TakeOver
  <2>3. CASE run'[r] = Finish(r, "removeFailed")
    BY <1>1, <1>2, <1>5, <2>1, <2>3, StepEntries DEF Succession!TakeOver
  <2> QED BY <1>3, <1>6, <2>2, <2>3
<1> QED BY <1>3, <1>6, <1>7

(* Host configuration and image inspect are nobody else's business.        *)
LEMMA PrepareSucceeds ==
  ASSUME TypeOK, TypeOK', NEW r \in Runs, Prepare(r)
  PROVE  Succession!Forgo(r, run[r].attempt) \/ UNCHANGED Succession!vars
<1>1. run[r].pc = "prepare" /\ Step(r) /\ run[r].attempt \in {"update", "rollback"}
  BY DEF Prepare, Step, TypeOK, RunState, Attempts
<1>2. /\ stage[r] = "heir" /\ run[r].attempt \in unborn[r]
      /\ unborn[r] = IF run[r].attempt = "update" THEN Attempts ELSE {"rollback"}
  BY <1>1, StageNow DEF StageTells
<1>3. /\ container' = container
      /\ run'[r] = Goto(r, "create") \/ run'[r] = Goto(r, "cleanup")
  BY DEF Prepare, Request, TypeOK
<1>4. /\ run'[r].attempt = run[r].attempt
      /\ run'[r].pc = "create" \/ run'[r].pc = "cleanup"
  BY <1>3 DEF Goto, TypeOK, RunState
<1>5. stage'[r] = stage[r] /\ (unborn'[r] = unborn[r] \/ unborn'[r] = unborn[r] \ {run[r].attempt})
  BY <1>1, <1>2, <1>4, StageThen DEF StageTells, Attempts
<1>6. stage' = stage /\ (unborn' = unborn \/ unborn' = [unborn EXCEPT ![r] = @ \ {run[r].attempt}])
  BY <1>1, <1>5, StepEntries DEF stage, unborn
<1> QED BY <1>1, <1>2, <1>3, <1>6, SameHolders, StepEntries DEF Succession!Forgo, Succession!vars

LEMMA CreateSucceeds ==
  ASSUME TypeOK, TypeOK', NEW r \in Runs, Create(r)
  PROVE  Succession!Install(r, run[r].attempt) \/ Succession!Forgo(r, run[r].attempt)
<1>1. run[r].pc = "create" /\ Step(r) /\ run[r].attempt \in {"update", "rollback"}
  BY DEF Create, Step, TypeOK, RunState, Attempts
<1>2. /\ stage[r] = "heir" /\ run[r].attempt \in unborn[r]
      /\ unborn[r] = IF run[r].attempt = "update" THEN Attempts ELSE {"rollback"}
  BY <1>1, StageNow DEF StageTells
<1>3. /\ \/ NameFree /\ container' = SetTo(Current(r), "created")
         \/ container' = container
      /\ \/ run'[r] = [run[r] EXCEPT !.pc = IF ExtraNetworks THEN "connect" ELSE "start", !.created = TRUE]
         \/ run'[r] = Goto(r, "cleanup")
  BY DEF Create, Request, TypeOK
<1>4. /\ run'[r].attempt = run[r].attempt
      /\ run'[r].pc \in {"connect", "start", "cleanup"}
  BY <1>3 DEF Goto, TypeOK, RunState
<1>5. stage'[r] = stage[r] /\ unborn'[r] = unborn[r] \ {run[r].attempt}
  BY <1>1, <1>2, <1>4, StageThen DEF StageTells, Attempts
<1>6. stage' = stage /\ unborn' = [unborn EXCEPT ![r] = @ \ {run[r].attempt}]
  BY <1>1, <1>5, StepEntries DEF stage
<1>7. CASE NameFree /\ container' = SetTo(Current(r), "created")
  <2>1. holders = {}
    BY <1>7 DEF holders, NameFree
  <2>2. Current(r) = Succession!Own(r, run[r].attempt) /\ Current(r) \in Ids
    BY OwnIsCreated, BlockTypes
  <2>3. holders' = {Succession!Own(r, run[r].attempt)} /\ serving' = serving
    <3>1. holders' = holders \cup {Current(r)} /\ serving' = serving \ {Current(r)}
      BY <1>7, <2>2, HoldersAfter DEF ContainerStates
    <3>2. serving = {}
      BY <1>7 DEF serving, NameFree, Exists
    <3> QED BY <2>1, <2>2, <3>1, <3>2
  <2> QED BY <1>1, <1>2, <1>6, <2>1, <2>3, StepEntries DEF Succession!Install
<1>8. CASE container' = container
  BY <1>1, <1>2, <1>6, <1>8, SameHolders, StepEntries DEF Succession!Forgo
<1> QED BY <1>3, <1>7, <1>8

(* From create to clean-up a call is the heir, its attempt under way.      *)
UnderWay == {"connect", "start", "inspect", "record", "cleanup"}

LEMMA AttemptUnderWay ==
  ASSUME TypeOK, NEW r \in Runs, run[r].pc \in UnderWay
  PROVE  /\ run[r].attempt \in {"update", "rollback"}
         /\ stage[r] = "heir" /\ run[r].attempt \notin unborn[r]
         /\ unborn[r] = IF run[r].attempt = "update" THEN {"rollback"} ELSE {}
         /\ Current(r) \in Ids /\ Current(r) = Succession!Own(r, run[r].attempt)
<1>1. run[r].attempt \in {"update", "rollback"}
  BY DEF TypeOK, RunState, Attempts
<1>2. StageTells(r) /\ Current(r) \in Ids
  BY StageNow, BlockTypes
<1> QED BY <1>1, <1>2, OwnIsCreated DEF StageTells, UnderWay

(* A step on to another point of the same attempt leaves the stage as it is.*)
LEMMA StaysHeir ==
  ASSUME TypeOK, TypeOK', NEW r \in Runs, Step(r), run[r].pc \in UnderWay,
         run'[r].pc \in UnderWay, run'[r].attempt = run[r].attempt
  PROVE  stage' = stage /\ unborn' = unborn /\ aim' = aim
<1>1. stage'[r] = stage[r] /\ unborn'[r] = unborn[r]
  BY AttemptUnderWay, StageThen DEF StageTells, UnderWay
<1> QED BY <1>1, StepEntries DEF stage, unborn

LEMMA ConnectStutters ==
  ASSUME TypeOK, TypeOK', NEW r \in Runs, Connect(r) PROVE UNCHANGED Succession!vars
<1>1. /\ run[r].pc = "connect" /\ Step(r) /\ container' = container
      /\ run'[r] = Goto(r, "start") \/ run'[r] = Goto(r, "cleanup")
  BY DEF Connect, Step, Request, TypeOK
<1>2. run'[r].pc \in {"start", "cleanup"} /\ run'[r].attempt = run[r].attempt
  BY <1>1 DEF Goto, TypeOK, RunState
<1> QED BY <1>1, <1>2, StaysHeir, SameHolders DEF UnderWay, Succession!vars

LEMMA InspectStutters ==
  ASSUME TypeOK, TypeOK', NEW r \in Runs, Inspect(r) PROVE UNCHANGED Succession!vars
<1>1. /\ run[r].pc = "inspect" /\ Step(r) /\ container' = container
      /\ run'[r] = Goto(r, "record") \/ run'[r] = Goto(r, "cleanup")
  BY DEF Inspect, Step, Request, TypeOK
<1>2. run'[r].pc \in {"record", "cleanup"} /\ run'[r].attempt = run[r].attempt
  BY <1>1 DEF Goto, TypeOK, RunState
<1> QED BY <1>1, <1>2, StaysHeir, SameHolders DEF UnderWay, Succession!vars

LEMMA StartSucceeds ==
  ASSUME TypeOK, TypeOK', NEW r \in Runs, Start(r)
  PROVE  Succession!Start(r, run[r].attempt) \/ UNCHANGED Succession!vars
<1>1. /\ run[r].pc = "start" /\ Step(r)
      /\ \/ Exists(Current(r)) /\ container' = SetTo(Current(r), "running")
         \/ container' = container
      /\ run'[r] = Goto(r, "record") \/ run'[r] = Goto(r, "inspect")
  BY DEF Start, Step, Request, TypeOK
<1>2. run'[r].pc \in {"record", "inspect"} /\ run'[r].attempt = run[r].attempt
  BY <1>1 DEF Goto, TypeOK, RunState
<1>3. stage' = stage /\ unborn' = unborn /\ aim' = aim
  BY <1>1, <1>2, StaysHeir DEF UnderWay
<1>4. CASE Exists(Current(r)) /\ container' = SetTo(Current(r), "running")
  <2>1. Succession!Installed(r, run[r].attempt)
    BY <1>1, <1>4, AttemptUnderWay, HeldIsThere DEF UnderWay, Succession!Installed
  <2>2. holders' = holders /\ serving' = serving \cup {Succession!Own(r, run[r].attempt)}
    <3>1. Current(r) \in Ids /\ Current(r) = Succession!Own(r, run[r].attempt)
      BY <1>1, AttemptUnderWay DEF UnderWay
    <3>2. holders' = holders \cup {Current(r)} /\ serving' = serving \cup {Current(r)}
      BY <1>4, <3>1, HoldersAfter DEF ContainerStates
    <3>3. Current(r) \in holders
      BY <1>4, <3>1, HeldIsThere
    <3> QED BY <3>1, <3>2, <3>3
  <2> QED BY <1>3, <2>1, <2>2 DEF Succession!Start
<1>5. CASE container' = container
  BY <1>3, <1>5, SameHolders DEF Succession!vars
<1> QED BY <1>1, <1>4, <1>5

(* A report is true: what is to be recorded runs, or was taken over.       *)
LEMMA RecordSucceeds ==
  ASSUME TypeOK, TypeOK', StartedServes, NEW r \in Runs, Record(r)
  PROVE  Succession!Report(r, run[r].attempt) \/ UNCHANGED Succession!vars
<1>1. run[r].pc = "record" /\ Step(r) /\ container' = container
  BY DEF Record, Step, Request
<1>2. \/ run'[r] = Finish(r, IF run[r].attempt = "update" THEN "updated" ELSE "rolledBack")
      \/ run'[r] = Goto(r, "cleanup")
  BY DEF Record, Request, TypeOK
<1>3. holders' = holders /\ serving' = serving
  BY <1>1, SameHolders
<1>4. CASE run'[r] = Goto(r, "cleanup")
  <2>1. run'[r].pc = "cleanup" /\ run'[r].attempt = run[r].attempt
    BY <1>4 DEF Goto, TypeOK, RunState
  <2> QED BY <1>1, <1>3, <2>1, StaysHeir DEF UnderWay, Succession!vars
<1>5. CASE run'[r] = Finish(r, IF run[r].attempt = "update" THEN "updated" ELSE "rolledBack")
  <2>1. run'[r].pc = "done" /\ run'[r].result = Succession!Reported(run[r].attempt)
    BY <1>5 DEF Finish, TypeOK, RunState, Succession!Reported
  <2>2. stage'[r] = Succession!Reported(run[r].attempt) /\ unborn'[r] = {}
    BY <2>1, StageThen DEF StageTells, Succession!Reported
  <2>3. Succession!EndAs(r, Succession!Reported(run[r].attempt)) /\ aim' = aim
    BY <1>1, <2>2, StepEntries DEF Succession!EndAs
  <2>4. \/ Succession!Own(r, run[r].attempt) \in serving
        \/ Succession!Aimed(Succession!Own(r, run[r].attempt))
    <3>1. container[Current(r)] = "running" \/ TakenOver(Current(r))
      BY <1>1 DEF StartedServes
    <3>2. Current(r) \in Ids /\ Current(r) = Succession!Own(r, run[r].attempt)
      BY <1>1, AttemptUnderWay DEF UnderWay
    <3>3. ASSUME NEW s \in Runs, run[s].pc # "idle" PROVE stage[s] # "idle"
      <4>1. run[s].pc \in Working \cup {"done"} /\ run[s].result \in Results
        BY <3>3 DEF TypeOK, RunState
      <4> QED BY <4>1, StageNow DEF StageTells, Working, Results
    <3>4. TakenOver(Current(r)) => Succession!Aimed(Current(r))
      BY <3>3 DEF TakenOver, Succession!Aimed, aim
    <3> QED BY <3>1, <3>2, <3>4, HeldIsThere
  <2> QED BY <1>1, <1>3, <2>3, <2>4, AttemptUnderWay DEF UnderWay, Succession!Report
<1> QED BY <1>2, <1>4, <1>5

LEMMA CleanupSucceeds ==
  ASSUME TypeOK, TypeOK', NEW r \in Runs, Cleanup(r)
  PROVE  \/ Succession!Withdraw(r, run[r].attempt) \/ Succession!Fail(r)
         \/ UNCHANGED Succession!vars
<1>1. run[r].pc = "cleanup" /\ Step(r)
  BY DEF Cleanup, Step
<1>2. /\ \/ Exists(Current(r)) /\ container' = SetTo(Current(r), "absent")
         \/ container' = container
      /\ run'[r] = AfterCleanup(r)
  BY DEF Cleanup, Request, TypeOK
<1>3. \/ /\ run[r].attempt = "update"
         /\ run'[r].pc = "prepare" /\ run'[r].attempt = "rollback"
      \/ /\ run[r].attempt = "rollback"
         /\ run'[r].pc = "done" /\ run'[r].result = "rollbackFailed"
  <2>1. CASE run[r].attempt = "update"
    BY <1>2, <2>1 DEF AfterCleanup, TypeOK, RunState
  <2>2. CASE run[r].attempt = "rollback"
    BY <1>2, <2>2 DEF AfterCleanup, Finish, TypeOK, RunState
  <2> QED BY <2>1, <2>2, <1>1, AttemptUnderWay DEF UnderWay
<1>4. \/ run[r].attempt = "update" /\ stage' = stage /\ unborn' = unborn
      \/ /\ run[r].attempt = "rollback" /\ unborn[r] = {}
         /\ Succession!EndAs(r, "rollbackFailed")
  <2>1. CASE run[r].attempt = "update"
    <3>1. stage'[r] = stage[r] /\ unborn'[r] = unborn[r]
      BY <1>1, <1>3, <2>1, AttemptUnderWay, StageThen DEF UnderWay, StageTells
    <3> QED BY <1>1, <2>1, <3>1, StepEntries DEF stage, unborn
  <2>2. CASE run[r].attempt = "rollback"
    <3>1. unborn[r] = {} /\ stage'[r] = "rollbackFailed" /\ unborn'[r] = {}
      BY <1>1, <1>3, <2>2, AttemptUnderWay, StageThen DEF UnderWay, StageTells
    <3> QED BY <1>1, <2>2, <3>1, StepEntries DEF Succession!EndAs
  <2> QED BY <1>3, <2>1, <2>2
<1>5. stage[r] = "heir" /\ aim' = aim
  BY <1>1, AttemptUnderWay, StepEntries DEF UnderWay
<1>6. CASE Exists(Current(r)) /\ container' = SetTo(Current(r), "absent")
  <2>1. Succession!Installed(r, run[r].attempt)
    BY <1>1, <1>6, AttemptUnderWay, HeldIsThere DEF UnderWay, Succession!Installed
  <2>2. /\ holders' = holders \ {Succession!Own(r, run[r].attempt)}
        /\ serving' = serving \ {Succession!Own(r, run[r].attempt)}
    BY <1>1, <1>6, AttemptUnderWay, HoldersAfter DEF UnderWay, ContainerStates
  <2> QED BY <1>4, <1>5, <2>1, <2>2 DEF Succession!Withdraw, Succession!Stay
<1>7. CASE container' = container
  BY <1>4, <1>5, <1>7, SameHolders DEF Succession!Fail, Succession!vars
<1> QED BY <1>2, <1>6, <1>7

(* Any step of a call is a step of its succession, or none.                *)
LEMMA CallSucceeds ==
  ASSUME TypeOK, TypeOK', UpdateFirst, StartedServes, NEW r \in Runs, Step(r)
  PROVE  Succession!Next \/ UNCHANGED Succession!vars
<1>1. run[r].attempt \in Succession!Attempts
  BY DEF TypeOK, RunState, Attempts, Succession!Attempts
<1>2. CASE Stop(r) \/ Remove(r)
  BY <1>2, StopSucceeds, RemoveSucceeds DEF Succession!Next
<1>3. CASE Prepare(r)
  BY <1>1, <1>3, PrepareSucceeds DEF Succession!Next
<1>4. CASE Create(r)
  BY <1>1, <1>4, CreateSucceeds DEF Succession!Next
<1>5. CASE Connect(r) \/ Inspect(r)
  BY <1>5, ConnectStutters, InspectStutters
<1>6. CASE Start(r)
  BY <1>1, <1>6, StartSucceeds DEF Succession!Next
<1>7. CASE Record(r)
  BY <1>1, <1>7, RecordSucceeds DEF Succession!Next
<1>8. CASE Cleanup(r)
  BY <1>1, <1>8, CleanupSucceeds DEF Succession!Next
<1> QED BY <1>2, <1>3, <1>4, <1>5, <1>6, <1>7, <1>8 DEF Step

LEMMA SuccessionStep ==
  ASSUME TypeOK, TypeOK', UpdateFirst, StartedServes, [Next]_vars
  PROVE  [Succession!Next]_(Succession!vars)
<1>1. ASSUME NEW r \in Runs, Begin(r) PROVE Succession!Aim(r)
  <2>1. PICK id \in Ids :
          /\ Exists(id)
          /\ run' = [run EXCEPT ![r] = [run[r] EXCEPT !.pc = "stop", !.target = id]]
    BY <1>1 DEF Begin
  <2>2. /\ run[r].pc = "idle" /\ run'[r].pc = "stop" /\ run'[r].target = id
        /\ run'[r].attempt = run[r].attempt
        /\ \A s \in Runs \ {r} : run'[s] = run[s]
        /\ container' = container
    BY <1>1, <2>1 DEF Begin, TypeOK, RunState
  <2>3. /\ stage[r] = "idle" /\ stage'[r] = "aimed"
        /\ unborn'[r] = unborn[r]
    BY <2>2, StageNow, StageThen DEF StageTells
  <2>4. /\ stage' = [stage EXCEPT ![r] = "aimed"] /\ unborn' = unborn
        /\ aim' = [aim EXCEPT ![r] = id]
    BY <2>2, <2>3, OwnEntries DEF unborn
  <2> QED BY <2>1, <2>2, <2>3, <2>4, HeldIsThere, SameHolders DEF Succession!Aim
<1>2. ASSUME NEW r \in Runs, CancelContext(r) PROVE UNCHANGED Succession!vars
  <2>1. /\ container' = container
        /\ \A s \in Runs : /\ run'[s].pc = run[s].pc /\ run'[s].result = run[s].result
                           /\ run'[s].attempt = run[s].attempt /\ run'[s].target = run[s].target
    BY <1>2 DEF CancelContext, TypeOK, RunState
  <2>2. stage' = stage
    BY <2>1 DEF stage, Stage
  <2>3. unborn' = unborn /\ aim' = aim
    BY <2>1 DEF unborn, Unborn, aim
  <2> QED BY <2>1, <2>2, <2>3, SameHolders DEF Succession!vars
<1>3. ASSUME NEW id \in Ids, DaemonAutoRemove(id) PROVE Succession!Vanish
  <2>1. /\ AutoRemove /\ container[id] = "stopped"
        /\ container' = SetTo(id, "absent") /\ run' = run
    BY <1>3 DEF DaemonAutoRemove
  <2>2. id \in holders \ serving /\ holders' = holders \ {id} /\ serving' = serving
    BY <2>1, HoldersAfter, HeldIsThere DEF ContainerStates, Exists
  <2>3. stage' = stage /\ unborn' = unborn /\ aim' = aim
    BY <2>1 DEF stage, Stage, unborn, Unborn, aim
  <2> QED BY <2>1, <2>2, <2>3 DEF Succession!Vanish
<1>4. CASE Crash
  <2>1. /\ container' = container
        /\ \A r \in Runs :
             IF run[r].pc \in Working
             THEN run'[r].pc = "done" /\ run'[r].result = "crashed" /\ run'[r].target = run[r].target
             ELSE run'[r] = run[r]
    BY <1>4 DEF Crash, Finish, TypeOK, RunState
  <2>2. aim' = aim
    BY <2>1 DEF aim
  <2>3. ASSUME NEW r \in Runs
        PROVE  IF stage[r] \in {"aimed", "heir"}
               THEN stage'[r] = "crashed" /\ unborn'[r] = {}
               ELSE stage'[r] = stage[r] /\ unborn'[r] = unborn[r]
    <3>1. run[r].pc \in Working \cup {"idle", "done"} /\ run[r].result \in Results
      BY DEF TypeOK, RunState
    <3>2. CASE run[r].pc \in Working
      <4>1. stage[r] \in {"aimed", "heir"}
        BY <3>2, StageNow DEF StageTells, Working
      <4>2. stage'[r] = "crashed" /\ unborn'[r] = {}
        BY <2>1, <3>2, StageThen DEF StageTells
      <4> QED BY <4>1, <4>2
    <3>3. CASE run[r].pc \notin Working
      <4>1. stage[r] \notin {"aimed", "heir"}
        BY <3>1, <3>3, StageNow DEF StageTells, Results
      <4>2. stage'[r] = stage[r] /\ unborn'[r] = unborn[r]
        BY <2>1, <3>1, <3>3, StageNow, StageThen DEF StageTells
      <4> QED BY <4>1, <4>2
    <3> QED BY <3>2, <3>3
  <2> DEFINE hit == {r \in Runs : stage[r] \in {"aimed", "heir"}}
  <2>4. stage' = [r \in Runs |-> IF r \in hit THEN "crashed" ELSE stage[r]]
    BY <2>3 DEF stage
  <2>5. unborn' = [r \in Runs |-> IF r \in hit THEN {} ELSE unborn[r]]
    BY <2>3 DEF unborn
  <2>6. Succession!Crash
    BY <2>1, <2>2, <2>4, <2>5, SameHolders DEF Succession!Crash
  <2> QED BY <2>6 DEF Succession!Next
<1>5. CASE UNCHANGED vars
  <2>1. container' = container /\ run' = run
    BY <1>5 DEF vars
  <2>2. stage' = stage /\ unborn' = unborn /\ aim' = aim
    BY <2>1 DEF stage, Stage, unborn, Unborn, aim
  <2>3. UNCHANGED Succession!vars
    BY <2>1, <2>2, SameHolders DEF Succession!vars
  <2> QED BY <2>3
<1> QED
  BY <1>1, <1>2, <1>3, <1>4, <1>5, CallSucceeds DEF Next, Succession!Next

LEMMA SuccessionInit == Init => Succession!Init
<1> SUFFICES ASSUME Init PROVE Succession!Init
  OBVIOUS
<1>1. PICK st \in Deployed : container = [id \in Ids |-> IF id = Original THEN st ELSE "absent"]
  BY DEF Init
<1>2. st \in {"running", "stopped"}
  BY DeployedAssumption
<1>3. holders = {Original} /\ serving \in SUBSET {Original}
  BY <1>1, <1>2, IdFacts DEF holders, serving, Exists
<1>4. \A r \in Runs : run[r].pc = "idle" /\ run[r].target = Original
  BY DEF Init
<1>5. stage = [r \in Runs |-> "idle"]
  BY <1>4 DEF stage, Stage
<1>6. aim = [r \in Runs |-> Original]
  BY <1>4 DEF aim
<1>7. unborn = [r \in Runs |-> Succession!Attempts]
  BY <1>4 DEF unborn, Unborn, Attempts, Succession!Attempts
<1> QED BY <1>3, <1>5, <1>6, <1>7 DEF Succession!Init

(* ContainerRecreate implements NameSuccession: whatever fails, the name   *)
(* is taken over by one call at a time, and no call removes, starts or     *)
(* replaces what it has neither taken over nor made.                       *)
THEOREM ImplementsNameSuccession == Spec => NamePassesOn
<1>1. Init => Succession!Init
  BY SuccessionInit
<1>2. TypeOK /\ TypeOK' /\ UpdateFirst /\ ServingInv /\ [Next]_vars => [Succession!Next]_(Succession!vars)
  BY SuccessionStep DEF ServingInv
<1>3. QED
  BY <1>1, <1>2, ServingHolds, TypeCorrect, UpdateFirstHolds, PTL DEF Spec, NamePassesOn, Succession!Spec
=============================================================================
