--------------------- MODULE DockerClientProvider_proofs ---------------------
(***************************************************************************)
(* The Docker client provider hands its clients over without losing one,   *)
(* closing one twice or offering a closed one, for any number of callers.  *)
(***************************************************************************)
EXTENDS DockerClientProvider, TLAPS

(* Every variable keeps its type; in particular no call hands out nil.     *)
THEOREM TypeCorrect == Spec => []TypeOK
<1> USE NoClientAssumption, MaxCallsAssumption
<1>1. Init => TypeOK
  BY DEF Init, TypeOK, CallerState, Without
<1>2. TypeOK /\ [Next]_vars => TypeOK'
  <2> SUFFICES ASSUME TypeOK, [Next]_vars PROVE TypeOK'
    OBVIOUS
  <2>1. ASSUME NEW w \in Callers, Call(w) \/ Step(w) PROVE TypeOK'
    <3>1. \A pc \in Without : [pc |-> pc, client |-> NoClient] \in CallerState
      BY DEF CallerState
    <3>2. \A pc \in With, c \in Clients :
            [pc |-> pc, client |-> c] \in CallerState
      BY DEF CallerState
    <3>3. caller[w].pc \in With => Local(w) \in Clients
      BY DEF TypeOK, CallerState, With, Without, Local
    <3>4. CASE Call(w)
      <4>1. PICK pc \in Without :
                   caller' = [caller EXCEPT ![w] = [pc |-> pc, client |-> NoClient]]
        BY <3>4 DEF Call, Goto, Without
      <4>2. caller' \in [Callers -> CallerState]
        BY <3>1, <4>1 DEF TypeOK
      <4>3. calls' \in 0..MaxCalls
        BY <3>4 DEF Call, TypeOK
      <4> QED BY <3>4, <4>2, <4>3 DEF Call, TypeOK
    <3>5. CASE Step(w)
      <4>1. caller' \in [Callers -> CallerState]
        <5> USE <3>1, <3>2, <3>3 DEF TypeOK, Goto, HandOut, Return, At, Local, With, Without
        <5>1. CASE Load(w)
          BY <5>1 DEF Load
        <5>2. CASE PingCurrent(w)
          BY <5>2 DEF PingCurrent
        <5>3. CASE Drop(w) \/ CloseDropped(w)
          BY <5>3 DEF Drop, CloseDropped
        <5>4. CASE Open(w)
          BY <5>4 DEF Open
        <5>5. CASE PingNew(w) \/ Publish(w)
          BY <5>5 DEF PingNew, Publish
        <5>6. CASE LoadWinner(w)
          BY <5>6 DEF LoadWinner
        <5>7. CASE Swap(w) \/ Release(w)
          BY <5>7 DEF Swap, Release
        <5> QED
          BY <3>5, <5>1, <5>2, <5>3, <5>4, <5>5, <5>6, <5>7 DEF Step
      <4>2. current' \in Clients \cup {NoClient}
        BY <3>3, <3>5
           DEF Step, Load, PingCurrent, Drop, CloseDropped, Open, PingNew, Publish, LoadWinner,
               Swap, Release, TypeOK, At, With
      <4>3. open' \subseteq Clients /\ daemonUp' = daemonUp /\ calls' = calls
        BY <3>5
           DEF Step, Load, PingCurrent, Drop, CloseDropped, Open, PingNew, Publish, LoadWinner,
               Swap, Release, TypeOK
      <4> QED BY <4>1, <4>2, <4>3 DEF TypeOK
    <3> QED BY <2>1, <3>4, <3>5
  <2>2. CASE DaemonToggles
    BY <2>2 DEF DaemonToggles, TypeOK
  <2>3. CASE UNCHANGED vars
    BY <2>3 DEF vars, TypeOK
  <2> QED BY <2>1, <2>2, <2>3 DEF Next
<1>3. QED BY <1>1, <1>2, PTL DEF Spec

-----------------------------------------------------------------------------
(* What a step does to the state the invariant speaks of: the steps of     *)
(* other callers leave a caller's ownership alone.                         *)
LEMMA OthersKeepTheirs ==
  ASSUME TypeOK, NEW w \in Callers, Call(w) \/ Step(w)
  PROVE  \A v \in Callers \ {w} : caller'[v] = caller[v]
BY DEF TypeOK, Call, Step, Load, PingCurrent, Drop, CloseDropped, Open, PingNew, Publish,
       LoadWinner, Swap, Release, Goto, HandOut, Return

(* The ways a step moves clients between the pointer, the callers and the  *)
(* closed ones.                                                            *)
LEMMA Transfers ==
  ASSUME TypeOK, NEW w \in Callers, Call(w) \/ Step(w)
  PROVE  \/ /\ current' = current /\ open' = open    \* nothing moves
            /\ \A c \in Clients : Owns(w, c)' <=> Owns(w, c)
         \/ /\ current' = NoClient /\ open' = open   \* out of the pointer
            /\ \A c \in Clients : ~Owns(w, c)
            /\ \A c \in Clients : Owns(w, c)' <=> c = current
         \/ /\ current = NoClient /\ open' = open    \* into the pointer
            /\ current' \in Clients /\ Owns(w, current')
            /\ \A c \in Clients : ~Owns(w, c)'
         \/ /\ current' = current                    \* closed
            /\ \A c \in Clients : ~Owns(w, c)'
            /\ \E k \in Clients : Owns(w, k) /\ open' = open \ {k}
         \/ /\ current' = current                    \* opened
            /\ \A c \in Clients : ~Owns(w, c)
            /\ \E k \in Clients \ open :
                 /\ Unreferenced(k) /\ open' = open \cup {k}
                 /\ \A c \in Clients : Owns(w, c)' <=> c = k
<1> USE DEF Owns, Owning, Local, At, Goto, HandOut, Return
<1>1. caller[w].pc \in With => Local(w) \in Clients
  BY DEF TypeOK, CallerState, With, Without, Local
<1>2. CASE Call(w)
  BY <1>2 DEF TypeOK, Call
<1>3. CASE Load(w)
  BY <1>3 DEF TypeOK, Load
<1>4. CASE PingCurrent(w)
  BY <1>4 DEF TypeOK, PingCurrent
<1>5. CASE Drop(w)
  BY <1>1, <1>5 DEF TypeOK, Drop, With
<1>6. CASE CloseDropped(w)
  BY <1>1, <1>6 DEF TypeOK, CloseDropped, With
<1>7. CASE Open(w)
  BY <1>7 DEF TypeOK, Open
<1>8. CASE PingNew(w)
  BY <1>1, <1>8 DEF TypeOK, PingNew, With
<1>9. CASE Publish(w)
  BY <1>1, <1>9 DEF TypeOK, Publish, With
<1>10. CASE LoadWinner(w)
  BY <1>1, <1>10 DEF TypeOK, LoadWinner, With
<1>11. CASE Swap(w)
  BY <1>11, NoClientAssumption DEF TypeOK, Swap
<1>12. CASE Release(w)
  BY <1>12 DEF TypeOK, Release
<1> QED
  BY <1>2, <1>3, <1>4, <1>5, <1>6, <1>7, <1>8, <1>9, <1>10, <1>11, <1>12 DEF Step

LEMMA OwnershipInductive ==
  ASSUME TypeOK, OwnershipInv, [Next]_vars
  PROVE  OwnershipInv'
<1> USE DEF OwnershipInv, CurrentIsOpen, NoLeak, ClosedOnce
<1>1. ASSUME NEW w \in Callers, Call(w) \/ Step(w) PROVE OwnershipInv'
  <2>1. \A v \in Callers \ {w}, c \in Clients : Owns(v, c)' <=> Owns(v, c)
    BY <1>1, OthersKeepTheirs DEF Owns, Local
  <2>2. current \in Clients \cup {NoClient} /\ open \subseteq Clients
    BY DEF TypeOK
  <2>3. \A v \in Callers, c \in Clients : Owns(v, c) => ~Unreferenced(c)
    BY DEF Owns, Unreferenced
  <2>4. \A v \in Callers : \A c, d \in Clients : Owns(v, c) /\ Owns(v, d) => c = d
    BY DEF Owns
  <2>5. CASE /\ current' = current /\ open' = open
             /\ \A c \in Clients : Owns(w, c)' <=> Owns(w, c)
    BY <2>1, <2>2, <2>5
  <2>6. CASE /\ current' = NoClient /\ open' = open
             /\ \A c \in Clients : ~Owns(w, c)
             /\ \A c \in Clients : Owns(w, c)' <=> c = current
    BY <2>1, <2>2, <2>6, NoClientAssumption
  <2>7. CASE /\ current = NoClient /\ open' = open
             /\ current' \in Clients /\ Owns(w, current')
             /\ \A c \in Clients : ~Owns(w, c)'
    BY <2>1, <2>2, <2>4, <2>7, NoClientAssumption
  <2>8. CASE /\ current' = current
             /\ \A c \in Clients : ~Owns(w, c)'
             /\ \E k \in Clients : Owns(w, k) /\ open' = open \ {k}
    BY <2>1, <2>2, <2>4, <2>8, NoClientAssumption
  <2>9. CASE /\ current' = current
             /\ \A c \in Clients : ~Owns(w, c)
             /\ \E k \in Clients \ open :
                  /\ Unreferenced(k) /\ open' = open \cup {k}
                  /\ \A c \in Clients : Owns(w, c)' <=> c = k
    BY <2>1, <2>2, <2>3, <2>9, NoClientAssumption DEF Unreferenced
  <2> QED
    BY <1>1, <2>5, <2>6, <2>7, <2>8, <2>9, Transfers
<1>2. CASE DaemonToggles
  BY <1>2 DEF DaemonToggles, Owns, Local
<1>3. CASE UNCHANGED vars
  BY <1>3 DEF vars, Owns, Local
<1> QED BY <1>1, <1>2, <1>3 DEF Next

LEMMA OwnershipHolds == Spec => []OwnershipInv
<1>1. Init => OwnershipInv
  BY DEF Init, OwnershipInv, CurrentIsOpen, NoLeak, ClosedOnce, Owns, Owning
<1>2. TypeOK /\ OwnershipInv /\ [Next]_vars => OwnershipInv'
  BY OwnershipInductive
<1>3. QED BY <1>1, <1>2, TypeCorrect, PTL DEF Spec

(* A client callers find in the pointer has not been closed.               *)
THEOREM CurrentIsOpenHolds == Spec => []CurrentIsOpen
<1>1. OwnershipInv => CurrentIsOpen
  BY DEF OwnershipInv
<1>2. QED BY <1>1, OwnershipHolds, PTL

(* No connection leaks.                                                    *)
THEOREM NoLeakHolds == Spec => []NoLeak
<1>1. OwnershipInv => NoLeak
  BY DEF OwnershipInv
<1>2. QED BY <1>1, OwnershipHolds, PTL

(* A client is closed by one caller, once.                                 *)
THEOREM ClosedOnceHolds == Spec => []ClosedOnce
<1>1. OwnershipInv => ClosedOnce
  BY DEF OwnershipInv
<1>2. QED BY <1>1, OwnershipHolds, PTL
=============================================================================
