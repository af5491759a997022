------------------------ MODULE DockerClientProvider -------------------------
(***************************************************************************)
(* The built-in DockerClientProvider (defaults.go): one lazily opened      *)
(* Docker client behind an atomic pointer, pinged before it is handed out, *)
(* dropped when the ping fails and reopened by a later call.  Callers run  *)
(* concurrently; each access to the pointer, each ping and each Close of a *)
(* shared client is a step of its own.                                     *)
(*                                                                         *)
(* The docker library and the daemon are external: a ping fails while the  *)
(* daemon is down, and may fail for the caller's own reasons (a cancelled  *)
(* context) while it is up; opening and closing may return an error.       *)
(***************************************************************************)
EXTENDS Naturals, FiniteSets

CONSTANTS
  Callers,       \* goroutines that call DockerClient and Close
  Clients,       \* identities of client allocations
  NoClient,      \* the nil pointer
  MaxCalls       \* bound on the calls made in a behaviour

ASSUME NoClientAssumption == NoClient \notin Clients
ASSUME MaxCallsAssumption == MaxCalls \in Nat

VARIABLES
  current,    \* the provider's atomic pointer
  open,       \* the clients that hold connections: opened and not closed
  caller,     \* the control state and the local variable of each caller
  daemonUp,   \* whether the daemon answers pings
  calls       \* how many calls have been made (a bound)

vars == <<current, open, caller, daemonUp, calls>>

(* Where a caller has no client yet, and where it has one.                 *)
Without == {"idle", "load", "open", "swap"}
With    == {"pingCurrent", "drop", "closeDropped", "pingNew", "publish", "loadWinner", "using"}

CallerState == [pc : Without, client : {NoClient}] \cup [pc : With, client : Clients]

TypeOK ==
  /\ current \in Clients \cup {NoClient}
  /\ open \subseteq Clients
  /\ caller \in [Callers -> CallerState]
  /\ daemonUp \in BOOLEAN
  /\ calls \in 0..MaxCalls

-----------------------------------------------------------------------------
At(w, pc)        == caller[w].pc = pc
Local(w)         == caller[w].client
Goto(w, pc, c)   == caller' = [caller EXCEPT ![w] = [pc |-> pc, client |-> c]]
HandOut(w, c)    == Goto(w, "using", c)
Return(w)        == Goto(w, "idle", NoClient)     \* an error, or nothing to return

Init ==
  /\ current = NoClient
  /\ open = {}
  /\ caller = [w \in Callers |-> [pc |-> "idle", client |-> NoClient]]
  /\ daemonUp \in BOOLEAN
  /\ calls = 0

(* A caller calls DockerClient, or Close.                                  *)
Call(w) ==
  /\ At(w, "idle") /\ calls < MaxCalls
  /\ \E pc \in {"load", "swap"} : Goto(w, pc, NoClient)
  /\ calls' = calls + 1
  /\ UNCHANGED <<current, open, daemonUp>>

Load(w) ==
  /\ At(w, "load")
  /\ IF current # NoClient THEN Goto(w, "pingCurrent", current) ELSE Goto(w, "open", NoClient)
  /\ UNCHANGED <<current, open, daemonUp, calls>>

PingCurrent(w) ==
  /\ At(w, "pingCurrent")
  /\ \/ daemonUp /\ HandOut(w, Local(w))
     \/ Goto(w, "drop", Local(w))
  /\ UNCHANGED <<current, open, daemonUp, calls>>

(* Wrong on purpose: the pointer is cleared whatever it holds by now.      *)
DropUnconditionally(w) ==
  /\ At(w, "drop")
  /\ current' = NoClient
  /\ Goto(w, "closeDropped", Local(w))
  /\ UNCHANGED <<open, daemonUp, calls>>

(* Wrong on purpose: the client is left in the pointer while it is closed. *)
DropKeepingPointer(w) ==
  /\ At(w, "drop")
  /\ Goto(w, "closeDropped", Local(w))
  /\ UNCHANGED <<current, open, daemonUp, calls>>

(* Only the caller whose compare-and-swap clears the pointer closes the    *)
(* client; the others just return the ping's error.                        *)
Drop(w) ==
  /\ At(w, "drop")
  /\ IF current = Local(w)
     THEN current' = NoClient /\ Goto(w, "closeDropped", Local(w))
     ELSE Return(w) /\ UNCHANGED current
  /\ UNCHANGED <<open, daemonUp, calls>>

(* The shared client is closed: after a Drop, or after Close's Swap.       *)
CloseDropped(w) ==
  /\ At(w, "closeDropped")
  /\ open' = open \ {Local(w)}
  /\ Return(w)
  /\ UNCHANGED <<current, daemonUp, calls>>

(* client.New: a fresh allocation, never one somebody still refers to.     *)
Unreferenced(c) == c # current /\ \A w \in Callers : Local(w) # c

Open(w) ==
  /\ At(w, "open")
  /\ \/ \E c \in Clients \ open :
          /\ Unreferenced(c)
          /\ open' = open \cup {c}
          /\ Goto(w, "pingNew", c)
     \/ Return(w) /\ UNCHANGED open
  /\ UNCHANGED <<current, daemonUp, calls>>

(* The new client is private until it is published: it is closed with the  *)
(* failed ping in one step.                                                *)
PingNew(w) ==
  /\ At(w, "pingNew")
  /\ \/ daemonUp /\ Goto(w, "publish", Local(w)) /\ UNCHANGED open
     \/ Return(w) /\ open' = open \ {Local(w)}
  /\ UNCHANGED <<current, daemonUp, calls>>

(* Wrong on purpose: a plain store in place of the compare-and-swap.       *)
PublishBlindly(w) ==
  /\ At(w, "publish")
  /\ current' = Local(w)
  /\ HandOut(w, Local(w))
  /\ UNCHANGED <<open, daemonUp, calls>>

Publish(w) ==
  /\ At(w, "publish")
  /\ IF current = NoClient
     THEN current' = Local(w) /\ HandOut(w, Local(w))
     ELSE Goto(w, "loadWinner", Local(w)) /\ UNCHANGED current
  /\ UNCHANGED <<open, daemonUp, calls>>

(* Wrong on purpose: no winner is waited for.                              *)
LoadWinnerWaiting(w) ==
  /\ At(w, "loadWinner")
  /\ IF current # NoClient
     THEN HandOut(w, current) /\ open' = open \ {Local(w)}
     ELSE UNCHANGED <<caller, open>>
  /\ UNCHANGED <<current, daemonUp, calls>>

(* Wrong on purpose: the winner is handed out though it was dropped again. *)
LoadWinnerUnchecked(w) ==
  /\ At(w, "loadWinner")
  /\ HandOut(w, current)
  /\ open' = open \ {Local(w)}
  /\ UNCHANGED <<current, daemonUp, calls>>

(* The loser takes the winner's client and closes its own, private one; an *)
(* error of that Close is returned; a winner dropped meanwhile sends it    *)
(* back to the start.                                                      *)
LoadWinner(w) ==
  /\ At(w, "loadWinner")
  /\ open' = open \ {Local(w)}
  /\ \/ current # NoClient /\ HandOut(w, current)
     \/ current = NoClient /\ Goto(w, "load", NoClient)
     \/ Return(w)
  /\ UNCHANGED <<current, daemonUp, calls>>

(* Close: swap the pointer to nil, then close what it held.                *)
Swap(w) ==
  /\ At(w, "swap")
  /\ current' = NoClient
  /\ IF current = NoClient THEN Return(w) ELSE Goto(w, "closeDropped", current)
  /\ UNCHANGED <<open, daemonUp, calls>>

(* The caller is done with the client it was given.                        *)
Release(w) ==
  /\ At(w, "using")
  /\ Return(w)
  /\ UNCHANGED <<current, open, daemonUp, calls>>

DaemonToggles ==
  /\ daemonUp' = ~daemonUp
  /\ UNCHANGED <<current, open, caller, calls>>

Step(w) ==
  \/ Load(w) \/ PingCurrent(w) \/ Drop(w) \/ CloseDropped(w)
  \/ Open(w) \/ PingNew(w) \/ Publish(w) \/ LoadWinner(w)
  \/ Swap(w) \/ Release(w)

Next == DaemonToggles \/ \E w \in Callers : Call(w) \/ Step(w)

Spec == Init /\ [][Next]_vars

(* Goroutines are scheduled, pings time out.                               *)
Fairness == \A w \in Callers : WF_vars(Step(w))

FairSpec == Spec /\ Fairness

-----------------------------------------------------------------------------
(* The client callers find in the pointer is one that nobody has closed,   *)
(* whatever drops, reopens and Closes raced (CompareAndSwap, defaults.go   *)
(* 66, 87 and 107).                                                        *)
CurrentIsOpen == current # NoClient => current \in open

(* The clients a caller alone is responsible for closing: its own before   *)
(* it is published, and one it took out of the pointer.                    *)
Owning == {"pingNew", "publish", "loadWinner", "closeDropped"}
Owns(w, c) == caller[w].pc \in Owning /\ Local(w) = c

(* No connection leaks: a client that is open is in the pointer, or is the *)
(* business of a caller that will close or publish it.                     *)
NoLeak == \A c \in open : c = current \/ \E w \in Callers : Owns(w, c)

(* Close is called once on a client, while it is open and by one caller.   *)
ClosedOnce ==
  \A v, w \in Callers : \A c \in Clients :
    Owns(w, c) => /\ c \in open /\ c # current
                  /\ v # w => ~Owns(v, c)

(* Every call returns, though losers of the publication start again.       *)
EveryCallReturns == \A w \in Callers : At(w, "load") \/ At(w, "swap") ~> At(w, "idle")

OwnershipInv == CurrentIsOpen /\ NoLeak /\ ClosedOnce
=============================================================================
