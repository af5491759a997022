--------------------------- MODULE NameSuccession ---------------------------
(***************************************************************************)
(* What concurrent recreations of one container promise about its name.    *)
(* The name has one holder at a time.  A call aims at the holder it finds, *)
(* takes over from it, alone, and then installs containers of its own, at  *)
(* most one for its update and one for its rollback, each when the name is *)
(* free.  It starts and withdraws nobody else's, and a result it reports   *)
(* is running or somebody's aim.  ContainerRecreate implements this with   *)
(* requests that may be refused or lost, cancellations and crashes.        *)
(***************************************************************************)

CONSTANTS
  Runs,         \* the calls
  Original,     \* the first holder
  Vanishing     \* TRUE when a holder that is down may vanish by itself

VARIABLES
  holders,      \* who has the name: at most one container
  serving,      \* whether it runs
  stage,        \* idle, aimed, heir; or how the call ended
  aim,          \* the container each call is to replace
  unborn        \* the containers that heirs may still install

vars == <<holders, serving, stage, aim, unborn>>

Attempts == {"update", "rollback"}
Own(r, a) == <<r, a>>
Reported(a) == IF a = "update" THEN "updated" ELSE "rolledBack"

(* Somebody may bring the container down, or has replaced it.              *)
Aimed(id) == \E r \in Runs : stage[r] # "idle" /\ aim[r] = id

(* What an heir has installed, if it still holds the name.                 *)
Installed(r, a) == stage[r] = "heir" /\ a \notin unborn[r] /\ Own(r, a) \in holders

EndAs(r, how) == stage' = [stage EXCEPT ![r] = how] /\ unborn' = [unborn EXCEPT ![r] = {}]
Stay          == UNCHANGED <<stage, unborn>>

-----------------------------------------------------------------------------
Init ==
  /\ holders = {Original} /\ serving \in SUBSET {Original}
  /\ stage = [r \in Runs |-> "idle"] /\ aim = [r \in Runs |-> Original]
  /\ unborn = [r \in Runs |-> Attempts]

Aim(r) ==
  /\ stage[r] = "idle"
  /\ \E id \in holders : aim' = [aim EXCEPT ![r] = id]
  /\ stage' = [stage EXCEPT ![r] = "aimed"]
  /\ UNCHANGED <<holders, serving, unborn>>

(* The holder is stopped; or the call gives up, with or without that.      *)
Halt(r) ==
  /\ stage[r] = "aimed"
  /\ serving' = serving \ {aim[r]} \/ UNCHANGED serving
  /\ Stay \/ EndAs(r, "refused")
  /\ UNCHANGED <<holders, aim>>

(* The holder is removed once it is down.  A call that does not learn of it*)
(* gives up as well, and nobody is the heir.                               *)
TakeOver(r) ==
  /\ stage[r] = "aimed" /\ aim[r] \in holders \ serving
  /\ holders' = holders \ {aim[r]}
  /\ \/ stage' = [stage EXCEPT ![r] = "heir"] /\ UNCHANGED unborn
     \/ EndAs(r, "refused")
  /\ UNCHANGED <<serving, aim>>

Install(r, a) ==
  /\ stage[r] = "heir" /\ a \in unborn[r] /\ holders = {}
  /\ holders' = {Own(r, a)} /\ unborn' = [unborn EXCEPT ![r] = @ \ {a}]
  /\ UNCHANGED <<serving, stage, aim>>

(* An attempt fails before it installs anything.                           *)
Forgo(r, a) ==
  /\ stage[r] = "heir" /\ a \in unborn[r]
  /\ unborn' = [unborn EXCEPT ![r] = @ \ {a}]
  /\ UNCHANGED <<holders, serving, stage, aim>>

Start(r, a) ==
  /\ Installed(r, a)
  /\ serving' = serving \cup {Own(r, a)}
  /\ UNCHANGED <<holders, stage, aim, unborn>>

(* A failed attempt removes what it installed, and nothing else.           *)
Withdraw(r, a) ==
  /\ Installed(r, a)
  /\ holders' = holders \ {Own(r, a)} /\ serving' = serving \ {Own(r, a)}
  /\ Stay \/ (unborn[r] = {} /\ EndAs(r, "rollbackFailed"))
  /\ UNCHANGED aim

Fail(r) ==
  /\ stage[r] = "heir" /\ unborn[r] = {} /\ EndAs(r, "rollbackFailed")
  /\ UNCHANGED <<holders, serving, aim>>

(* A report is true when it is made.                                       *)
Report(r, a) ==
  /\ stage[r] = "heir" /\ a \notin unborn[r]
  /\ Own(r, a) \in serving \/ Aimed(Own(r, a))
  /\ EndAs(r, Reported(a))
  /\ UNCHANGED <<holders, serving, aim>>

(* The process ends, and all its calls with it.                            *)
Crash ==
  LET hit == {r \in Runs : stage[r] \in {"aimed", "heir"}} IN
  /\ stage' = [r \in Runs |-> IF r \in hit THEN "crashed" ELSE stage[r]]
  /\ unborn' = [r \in Runs |-> IF r \in hit THEN {} ELSE unborn[r]]
  /\ UNCHANGED <<holders, serving, aim>>

Vanish ==
  /\ Vanishing
  /\ \E id \in holders \ serving : holders' = holders \ {id}
  /\ UNCHANGED <<serving, stage, aim, unborn>>

Next ==
  \/ \E r \in Runs : Aim(r) \/ Halt(r) \/ TakeOver(r) \/ Fail(r)
  \/ \E r \in Runs, a \in Attempts :
       Install(r, a) \/ Forgo(r, a) \/ Start(r, a) \/ Withdraw(r, a) \/ Report(r, a)
  \/ Crash \/ Vanish

Spec == Init /\ [][Next]_vars
=============================================================================
