------------------------- MODULE ApplyPending_proofs --------------------------
(***************************************************************************)
(* What a run of ApplyPending does to records and containers, for any      *)
(* store, any images and containers, and any faults.                       *)
(***************************************************************************)
EXTENDS ApplyPending, FiniteSetTheorems, TLAPS

LEMMA NewRefTyped == NewRef \in [Records -> Refs]
BY RecordsAssumption DEF NewRef, IsTagUpdate

LEMMA OldRefTyped == OldRef \in [Records -> Refs]
BY RecordsAssumption

LEMMA SentinelsAreOthers == NoRef # ByID /\ NoRef \notin Refs /\ ByID \notin Refs /\ NoImage \notin Images
BY RefsAssumption

(* What a fault count adds up to stays within its bound.                   *)
LEMMA FaultsTyped == ASSUME NEW n \in Nat, faults \in 0..MaxFaults, Faulty(n) PROVE faults' \in 0..MaxFaults
BY BoundsAssumption DEF Faulty

LEMMA OneFaultTyped == ASSUME faults \in 0..MaxFaults, Faulty(1) PROVE faults' \in 0..MaxFaults
BY FaultsTyped

LEMMA CountTyped == ASSUME NEW S, IsFiniteSet(S) PROVE Cardinality(S) \in Nat
BY FS_CardinalityType

LEMMA OneAtMost == Cardinality({}) <= 1 /\ \A r : Cardinality({r}) <= 1
BY FS_EmptySet, FS_Singleton

-----------------------------------------------------------------------------
(* The inductive invariants.                                               *)

(* Between runs nothing is left of the last one.                           *)
NothingLeft == phase = "idle" => pulled = {} /\ updated = {}

(* While a run goes on, what a registry serves is among what it has served *)
(* since, and so is what the daemon has for a plan that was pulled.        *)
PulledIsServed ==
  /\ Running => \A x \in Refs : remote[x] \in served[x]
  /\ \A r \in pulled : local[NewRef[r]] \in served[NewRef[r]]

(* The daemon keeps an image under every reference that a container has, is*)
(* to have or is handed over with; a service has one, and only the         *)
(* SelfUpdater's containers are handed over.                               *)
NamesAnImage ==
  \A c \in Containers :
    /\ ref[c] # ByID => local[ref[c]] # NoImage
    /\ newRef[c] \notin {NoRef, ByID} => local[newRef[c]] # NoImage
    /\ handed[c] \notin {NoRef, ByID} => local[handed[c]] # NoImage
    /\ c \in Composed => ref[c] # ByID
    /\ c \notin Targets => handed[c] = NoRef

(* The maps lead from an image or a reference that an update replaces to   *)
(* the new reference of that update.                                       *)
MapsAreUpdates ==
  /\ \A i \in Images : oldIDToNewRef[i] # NoRef =>
       \E r \in updated : i \in oldIDs[r] /\ NewRef[r] = oldIDToNewRef[i]
  /\ \A x \in Refs : oldRefToNewRef[x] # NoRef =>
       \E r \in updated : OldRef[r] = x /\ NewRef[r] = oldRefToNewRef[x]

Inv == TypeOK /\ NothingLeft /\ PulledIsServed /\ NamesAnImage /\ MapsAreUpdates

(* Containers that are handed over keep their reference, or get the new one*)
(* of a record.                                                            *)
HandedIsRight ==
  \A c \in Containers : handed[c] \notin {NoRef, ByID, ref[c]} => \E r \in Records : NewRef[r] = handed[c]

(* Images are where they belong: each under a reference that serves it.    *)
InPlace ==
  /\ \A x \in Refs : remote[x] \in Serves[x] /\ local[x] \in Serves[x] \cup {NoImage}
  /\ \A c \in Containers : ref[c] # ByID => runs[c] \in Serves[ref[c]]
  /\ \A r \in Records : oldIDs[r] \subseteq Serves[OldRef[r]]

(* A container that is to be restarted keeps its reference or follows an   *)
(* update of it.                                                           *)
TargetsFollow ==
  \A c \in Containers : newRef[c] \in {NoRef, ByID, ref[c]} \/ FollowsUpdate(c, newRef[c])

(* References have images of their own, and a record's ID is one of them.  *)
OwnImages ==
  /\ \A x, y \in Refs : x # y => Serves[x] \cap Serves[y] = {}
  /\ \A r \in Records : RecordID[r] \in Serves[OldRef[r]] \cup {NoImage}

-----------------------------------------------------------------------------
LEMMA StepCases ==
  ASSUME [Next]_vars
  PROVE  \/ \E m \in Modes : Begin(m)
         \/ \E r \in Records : Skip(r) \/ StartPull(r) \/ PullFails(r) \/ Pull(r) \/ Clear(r)
         \/ \E c \in Containers : Restart(c)
         \/ Scan \/ ScanFails \/ EndRestarts \/ End \/ Crash
         \/ \E x \in Refs : Publish(x)
         \/ \E r \in Records : Detect(r)
         \/ \E c \in Containers : SelfUpdate(c)
         \/ UNCHANGED vars
BY DEF Next, Step, Environment

(* The reference a scan chooses for a container comes from an update.      *)
LEMMA MatchIsUpdate ==
  ASSUME TypeOK, MapsAreUpdates, NEW c \in Containers, NEW blind, Match(c, blind) # NoRef
  PROVE  \E r \in updated :
           /\ NewRef[r] = Match(c, blind)
           /\ runs[c] \in oldIDs[r] \/ OldRef[r] = ref[c]
<1>1. runs[c] \in Images /\ ref[c] \in Refs \cup {ByID}
  BY DEF TypeOK
<1>2. CASE oldIDToNewRef[runs[c]] # NoRef
  BY <1>1, <1>2 DEF MapsAreUpdates, Match
<1>3. CASE oldIDToNewRef[runs[c]] = NoRef
  <2>1. ref[c] # ByID /\ Match(c, blind) = oldRefToNewRef[ref[c]]
    BY <1>3 DEF Match
  <2> QED BY <1>1, <2>1 DEF MapsAreUpdates
<1> QED BY <1>2, <1>3

LEMMA MatchTyped ==
  ASSUME TypeOK, MapsAreUpdates, NEW c \in Containers, NEW blind, Match(c, blind) # NoRef
  PROVE  Match(c, blind) \in Refs
BY MatchIsUpdate, NewRefTyped DEF TypeOK

(* What a scan puts into the restart list.                                 *)
LEMMA ScanFacts ==
  ASSUME TypeOK, MapsAreUpdates, Scan
  PROVE  /\ newRef' \in [Containers -> Refs \cup {ByID, NoRef}]
         /\ \A c \in Containers : newRef'[c] \notin {NoRef, ref[c]} =>
              \E r \in updated : NewRef[r] = newRef'[c] /\ (runs[c] \in oldIDs[r] \/ OldRef[r] = ref[c])
         /\ faults' \in 0..MaxFaults
<1>1. PICK blind \in SUBSET {c \in up : ~ListedByRef(c)}, lost \in SUBSET {NewRef[r] : r \in updated} :
        /\ Faulty(Cardinality(blind) + Cardinality(lost))
        /\ \E implicit \in SUBSET ((Dependents \cap up) \ {c \in up : Explicit(c, blind, lost)}) :
             newRef' = [c \in Containers |-> IF c \in {d \in up : Explicit(d, blind, lost)} THEN Match(c, blind)
                                             ELSE IF c \in implicit THEN ref[c] ELSE NoRef]
  BY DEF Scan
<1> DEFINE explicit == {d \in up : Explicit(d, blind, lost)}
<1>2. PICK implicit :
        newRef' = [c \in Containers |-> IF c \in explicit THEN Match(c, blind)
                                        ELSE IF c \in implicit THEN ref[c] ELSE NoRef]
  BY <1>1
<1>3. \A c \in explicit : Match(c, blind) # NoRef
  BY DEF Explicit
<1> HIDE DEF explicit
<1>4. \A c \in Containers : c \in explicit => Match(c, blind) \in Refs
  BY <1>3, MatchTyped
<1>5. \A c \in Containers : ref[c] \in Refs \cup {ByID}
  BY DEF TypeOK
<1>6. newRef' \in [Containers -> Refs \cup {ByID, NoRef}]
  BY <1>2, <1>4, <1>5
<1>7. ASSUME NEW c \in Containers, newRef'[c] \notin {NoRef, ref[c]}
      PROVE  \E r \in updated : NewRef[r] = newRef'[c] /\ (runs[c] \in oldIDs[r] \/ OldRef[r] = ref[c])
  <2>1. c \in explicit /\ newRef'[c] = Match(c, blind)
    BY <1>2, <1>7
  <2> QED BY <1>3, <2>1, MatchIsUpdate
<1>8. faults' \in 0..MaxFaults
  <2>1. blind \subseteq Containers /\ updated \subseteq Records
    BY DEF TypeOK
  <2>2. IsFiniteSet(blind) /\ IsFiniteSet(updated)
    BY <2>1, FiniteAssumption, FS_Subset
  <2>3. IsFiniteSet({NewRef[r] : r \in updated})
    <3> DEFINE g == [r \in updated |-> NewRef[r]]
    <3>1. g \in Surjection(updated, {NewRef[r] : r \in updated})
      BY DEF Surjection
    <3> QED BY <2>2, <3>1, FS_Surjection
  <2>4. IsFiniteSet(lost)
    BY <2>3, FS_Subset
  <2>5. Cardinality(blind) + Cardinality(lost) \in Nat
    BY <2>2, <2>4, CountTyped
  <2> QED BY <1>1, <2>5, FaultsTyped DEF TypeOK
<1> QED BY <1>6, <1>7, <1>8

(* What a restart does to its container, and to no other one.              *)
LEMMA RestartEffect ==
  ASSUME TypeOK, NamesAnImage, NEW c \in Containers, Restart(c)
  PROVE  /\ newRef[c] # NoRef /\ newRef' = [newRef EXCEPT ![c] = NoRef]
         /\ \A d \in Containers \ {c} : ref'[d] = ref[d] /\ runs'[d] = runs[d] /\ handed'[d] = handed[d]
         /\ \/ ref'[c] = ref[c] /\ runs'[c] = runs[c]
            \/ ref'[c] = ByID /\ runs'[c] = runs[c] /\ c \notin Composed \cup Targets
            \/ ref'[c] = newRef[c] /\ newRef[c] # ByID /\ runs'[c] = local[newRef[c]]
               /\ c \notin Composed \cup Targets
            \/ ref'[c] = ref[c] /\ ref[c] # ByID /\ runs'[c] = local[ref[c]]
         /\ \/ handed'[c] = handed[c]
            \/ handed'[c] = newRef[c] /\ c \in Targets /\ ref'[c] = ref[c]
         /\ up' \subseteq up /\ ref' \in [Containers -> Refs \cup {ByID}]
         /\ handed' \in [Containers -> Refs \cup {ByID, NoRef}]
         /\ failedRefs \subseteq failedRefs' /\ failedRefs' \subseteq failedRefs \cup ({newRef[c]} \cap Refs)
<1>1. newRef[c] # NoRef /\ newRef' = [newRef EXCEPT ![c] = NoRef] /\ newRef[c] \in Refs \cup {ByID}
  BY DEF Restart, TypeOK
<1> DEFINE Same == UNCHANGED <<ref, runs>> /\ up' \subseteq up
<1>2. Same => \A d \in Containers : ref'[d] = ref[d] /\ runs'[d] = runs[d]
  OBVIOUS
<1>3. Untouched \/ Down(c) => Same
  BY DEF Untouched, Down
<1>4. CASE RestartStandalone(c)
  <2>1. handed' = handed /\ c \notin Composed \cup Targets /\ failedRefs \subseteq failedRefs'
        /\ failedRefs' \subseteq failedRefs \cup ({newRef[c]} \cap Refs)
    BY <1>4 DEF RestartStandalone, Fails
  <2>2. CASE Recreated(c, newRef[c])
    BY <1>1, <2>1, <2>2 DEF Recreated, TypeOK
  <2>3. CASE RolledBack(c)
    BY <1>1, <2>1, <2>3 DEF RolledBack, TypeOK
  <2>4. CASE Same
    BY <1>1, <1>2, <2>1, <2>4 DEF TypeOK
  <2> QED BY <1>3, <1>4, <2>2, <2>3, <2>4 DEF RestartStandalone
<1>5. CASE RestartService(c)
  <2>1. handed' = handed /\ c \in Composed /\ ref[c] # ByID /\ failedRefs \subseteq failedRefs'
        /\ failedRefs' \subseteq failedRefs \cup ({newRef[c]} \cap Refs)
    BY <1>5 DEF RestartService, Fails, NamesAnImage
  <2>2. CASE Recreated(c, ref[c])
    BY <1>1, <2>1, <2>2 DEF Recreated, TypeOK
  <2>3. CASE Same
    BY <1>1, <1>2, <2>1, <2>3 DEF TypeOK
  <2> QED BY <1>3, <1>5, <2>2, <2>3 DEF RestartService
<1>6. CASE Trigger(c)
  <2>1. Same /\ c \in Targets /\ failedRefs \subseteq failedRefs'
        /\ failedRefs' \subseteq failedRefs \cup ({newRef[c]} \cap Refs)
    BY <1>3, <1>6 DEF Trigger, Fails
  <2>2. handed' = handed \/ handed' = [handed EXCEPT ![c] = newRef[c]]
    BY <1>6 DEF Trigger
  <2> QED BY <1>1, <1>2, <2>1, <2>2 DEF TypeOK
<1>7. CASE Untouched /\ UNCHANGED <<handed, failedRefs>>
  BY <1>1, <1>2, <1>3, <1>7 DEF TypeOK
<1> QED BY <1>4, <1>5, <1>6, <1>7 DEF Restart

(* The same for what the SelfUpdater does.                                 *)
LEMMA SelfUpdateEffect ==
  ASSUME TypeOK, NEW c \in Containers, SelfUpdate(c)
  PROVE  /\ handed[c] # NoRef /\ newRef[c] = NoRef /\ handed' = [handed EXCEPT ![c] = NoRef]
         /\ \A d \in Containers \ {c} : ref'[d] = ref[d] /\ runs'[d] = runs[d] /\ handed'[d] = handed[d]
         /\ ref'[c] = handed[c] /\ handed'[c] = NoRef
         /\ runs'[c] = IF handed[c] = ByID THEN runs[c] ELSE local[handed[c]]
         /\ ref' \in [Containers -> Refs \cup {ByID}]
         /\ handed' \in [Containers -> Refs \cup {ByID, NoRef}]
         /\ UNCHANGED <<remote, local, up, pending, latest, phase, mode, plans, restarts, toClear, served,
                         published, faults>>
BY DEF SelfUpdate, Recreated, TypeOK

-----------------------------------------------------------------------------
LEMMA IdleTyped ==
  ASSUME TypeOK, Idle, UNCHANGED <<remote, local, ref, runs, handed, pending, latest, published>>,
         up' \subseteq up, faults' \in 0..MaxFaults
  PROVE  TypeOK'
BY OneAtMost DEF TypeOK, Idle

LEMMA InitTyped == Init => TypeOK
<1> SUFFICES ASSUME Init PROVE TypeOK
  OBVIOUS
<1>1. remote \in [Refs -> Images] /\ local \in [Refs -> Images \cup {NoImage}]
  BY DEF Init
<1>2. ref \in [Containers -> Refs \cup {ByID}] /\ \A c \in Containers : ref[c] \in Refs
  BY ContainersAssumption DEF Init
<1>3. runs \in [Containers -> Images]
  <2>1. PICK unused \in SUBSET {x \in Refs : \A c \in Containers : ref[c] # x} :
          local = [x \in Refs |-> IF x \in unused THEN NoImage ELSE remote[x]]
    BY DEF Init
  <2>2. \A c \in Containers : local[ref[c]] \in Images
    BY <1>1, <1>2, <2>1
  <2> QED BY <2>2 DEF Init
<1>4. up \subseteq Containers /\ pending \subseteq Records /\ latest \in [Records -> Images \cup {NoImage}]
  BY DEF Init
<1>a. handed \in [Containers -> Refs \cup {ByID, NoRef}]
  BY DEF Init
<1>5. /\ phase = "idle" /\ mode = "none" /\ todo = {} /\ current = {} /\ pulled = {} /\ updated = {}
      /\ toClear = {} /\ failedRefs = {} /\ published \in 0..MaxPublished /\ faults \in 0..MaxFaults
  BY BoundsAssumption DEF Init
<1>6. /\ known \in [Records -> Images \cup {NoImage}] /\ oldIDs \in [Records -> SUBSET Images]
      /\ oldIDToNewRef \in [Images -> Refs \cup {NoRef}] /\ oldRefToNewRef \in [Refs -> Refs \cup {NoRef}]
      /\ newRef \in [Containers -> Refs \cup {ByID, NoRef}] /\ served \in [Refs -> SUBSET Images]
  BY DEF Init
<1> QED BY <1>1, <1>2, <1>3, <1>4, <1>5, <1>6, <1>a, OneAtMost DEF TypeOK

LEMMA BeginTyped == ASSUME TypeOK, NEW m \in Modes, Begin(m) PROVE TypeOK'
<1> DEFINE some == Applicable
<1>1. some \subseteq Records /\ IsFiniteSet(some)
  BY FiniteAssumption, FS_Subset DEF TypeOK, Applicable
<1>2. PICK blind \in SUBSET some :
        /\ Faulty(Cardinality(blind))
        /\ oldIDs' = [r \in Records |-> IF r \in some THEN OldIDs(r, r \notin blind) ELSE {}]
  BY DEF Begin
<1>3. faults' \in 0..MaxFaults
  BY <1>1, <1>2, CountTyped, FS_Subset, FaultsTyped DEF TypeOK
<1>4. \A r \in Records : OldIDs(r, TRUE) \subseteq Images /\ OldIDs(r, FALSE) \subseteq Images
  BY RecordsAssumption DEF TypeOK, OldIDs, IDsForRef
<1>5. oldIDs' \in [Records -> SUBSET Images]
  <2>1. \A r \in Records : OldIDs(r, r \notin blind) \subseteq Images
    <3> SUFFICES ASSUME NEW r \in Records PROVE OldIDs(r, r \notin blind) \subseteq Images
      OBVIOUS
    <3>1. OldIDs(r, r \notin blind) \subseteq OldIDs(r, TRUE) \cup OldIDs(r, FALSE)
      BY DEF OldIDs, IDsForRef
    <3> QED BY <1>4, <3>1
  <2> QED BY <1>2, <2>1
<1>6. known' \in [Records -> Images \cup {NoImage}]
  BY DEF Begin, TypeOK
<1>7. served' \in [Refs -> SUBSET Images]
  BY DEF Begin, TypeOK
<1> QED BY <1>1, <1>3, <1>5, <1>6, <1>7 DEF TypeOK, Begin, world, daemon, restarts

LEMMA PullTyped == ASSUME TypeOK, NEW r \in Records, Pull(r) PROVE TypeOK'
<1>1. NewRef[r] \in Refs /\ OldRef[r] \in Refs
  BY NewRefTyped, OldRefTyped
<1>2. local' \in [Refs -> Images \cup {NoImage}]
  BY <1>1 DEF Pull, TypeOK
<1>3. /\ oldIDToNewRef' \in [Images -> Refs \cup {NoRef}] /\ oldRefToNewRef' \in [Refs -> Refs \cup {NoRef}]
  BY <1>1 DEF Pull, TypeOK
<1>4. updated' \subseteq pulled' /\ pulled' \subseteq Records /\ pulled \subseteq pulled'
  BY DEF Pull, TypeOK
<1>5. faults' \in 0..MaxFaults
  BY OneFaultTyped DEF Pull, TypeOK, Faultless
<1>6. current' = {} /\ phase' = "plan" /\ toClear' \subseteq pulled'
  BY <1>4 DEF Pull, TypeOK
<1> QED BY <1>2, <1>3, <1>4, <1>5, <1>6, OneAtMost DEF TypeOK, Pull, restarts

LEMMA PullFailsTyped == ASSUME TypeOK, NEW r \in Records, PullFails(r) PROVE TypeOK'
<1>1. local' \in [Refs -> Images \cup {NoImage}]
  BY NewRefTyped DEF PullFails, TypeOK
<1>2. faults' \in 0..MaxFaults
  BY OneFaultTyped DEF PullFails, TypeOK
<1>3. current' = {} /\ phase' = "plan"
  BY DEF PullFails
<1> QED BY <1>1, <1>2, <1>3, OneAtMost DEF TypeOK, PullFails, restarts

LEMMA RestartTyped == ASSUME TypeOK, NamesAnImage, NEW c \in Containers, Restart(c) PROVE TypeOK'
<1>1. newRef[c] \in Refs \cup {ByID} /\ (newRef[c] # ByID => local[newRef[c]] \in Images)
  BY DEF Restart, TypeOK, NamesAnImage
<1>2. ref[c] # ByID => local[ref[c]] \in Images
  BY DEF TypeOK, NamesAnImage
<1>3. runs' \in [Containers -> Images]
  <2>1. \A d \in Containers : runs'[d] \in Images
    BY <1>1, <1>2, RestartEffect DEF TypeOK
  <2>2. runs' = runs \/ \E i : runs' = [runs EXCEPT ![c] = i]
    BY DEF Restart, RestartStandalone, RestartService, Trigger, Recreated, RolledBack, Down, Untouched
  <2> QED BY <2>1, <2>2 DEF TypeOK
<1>4. /\ ref' \in [Containers -> Refs \cup {ByID}] /\ up' \subseteq Containers
      /\ handed' \in [Containers -> Refs \cup {ByID, NoRef}]
  BY RestartEffect DEF TypeOK
<1>5. failedRefs' \subseteq Refs
  BY RestartEffect DEF TypeOK
<1>6. faults' \in 0..MaxFaults
  BY OneFaultTyped DEF Restart, RestartStandalone, RestartService, Trigger, TypeOK, Faultless
<1>7. newRef' \in [Containers -> Refs \cup {ByID, NoRef}]
  BY DEF Restart, TypeOK
<1> QED BY <1>3, <1>4, <1>5, <1>6, <1>7 DEF TypeOK, Restart, plans

LEMMA SelfUpdateTyped == ASSUME TypeOK, NamesAnImage, NEW c \in Containers, SelfUpdate(c) PROVE TypeOK'
<1>1. \A d \in Containers : runs'[d] \in Images
  BY SelfUpdateEffect DEF TypeOK, NamesAnImage
<1>2. \E i : runs' = [runs EXCEPT ![c] = i]
  BY DEF SelfUpdate, Recreated
<1>3. runs' \in [Containers -> Images]
  BY <1>1, <1>2 DEF TypeOK
<1> QED BY <1>3, SelfUpdateEffect DEF TypeOK, plans, restarts

LEMMA TypesKept == ASSUME TypeOK, NamesAnImage, MapsAreUpdates, [Next]_vars PROVE TypeOK'
<1>1. ASSUME NEW r \in Records, Skip(r) \/ StartPull(r) PROVE TypeOK'
  BY <1>1, OneAtMost, OneFaultTyped DEF TypeOK, Skip, StartPull, Faultless, world, daemon, restarts
<1>2. ASSUME NEW r \in Records, Clear(r) PROVE TypeOK'
  BY <1>2, OneFaultTyped DEF TypeOK, Clear, Faultless, daemon, plans, restarts
<1>3. CASE Scan
  <2>1. phase = "plan" /\ phase' = "restart"
    BY <1>3 DEF Scan
  <2> QED BY <1>3, <2>1, ScanFacts DEF TypeOK, Scan, world, daemon, plans
<1>4. CASE ScanFails \/ End
  BY <1>4, IdleTyped, OneFaultTyped DEF TypeOK, ScanFails, End, world, daemon
<1>5. CASE Crash
  BY <1>5, IdleTyped, OneFaultTyped DEF TypeOK, Crash
<1>6. CASE EndRestarts
  BY <1>6 DEF TypeOK, EndRestarts, world, daemon, plans, restarts
<1>7. ASSUME NEW x \in Refs, Publish(x) PROVE TypeOK'
  <2>1. PICK i \in Serves[x] : remote' = [remote EXCEPT ![x] = i]
    BY <1>7 DEF Publish
  <2>2. i \in Images
    BY ServesAssumption
  <2>3. remote' \in [Refs -> Images] /\ remote'[x] \in Images
    BY <2>1, <2>2 DEF TypeOK
  <2>4. served' \in [Refs -> SUBSET Images]
    BY <1>7, <2>3 DEF TypeOK, Publish
  <2>5. published' \in 0..MaxPublished
    BY <1>7, BoundsAssumption DEF TypeOK, Publish
  <2> QED BY <1>7, <2>3, <2>4, <2>5 DEF TypeOK, Publish, daemon, plans, restarts
<1>8. ASSUME NEW r \in Records, Detect(r) PROVE TypeOK'
  <2>1. remote[NewRef[r]] \in Images
    BY NewRefTyped DEF TypeOK
  <2>2. latest' \in [Records -> Images \cup {NoImage}] /\ pending' \subseteq Records
    BY <1>8, <2>1 DEF Detect, TypeOK
  <2> QED BY <1>8, <2>2 DEF TypeOK, Detect, daemon, plans, restarts
<1>9. CASE UNCHANGED vars
  BY <1>9 DEF TypeOK, vars, world, daemon, plans, restarts
<1> QED BY <1>1, <1>2, <1>3, <1>4, <1>5, <1>6, <1>7, <1>8, <1>9, StepCases, BeginTyped, PullTyped,
            PullFailsTyped, RestartTyped, SelfUpdateTyped

-----------------------------------------------------------------------------
(* The other parts of the invariant, each against the steps that disturb it.*)

LEMMA NothingLeftKept == ASSUME TypeOK, NothingLeft, [Next]_vars PROVE NothingLeft'
<1>1. ASSUME NEW m \in Modes, Begin(m) PROVE NothingLeft'
  BY <1>1 DEF Begin, NothingLeft
<1>2. ASSUME NEW r \in Records, Skip(r) \/ StartPull(r) \/ PullFails(r) \/ Pull(r) \/ Clear(r) PROVE NothingLeft'
  BY <1>2 DEF Skip, StartPull, PullFails, Pull, Clear, NothingLeft, plans
<1>3. CASE Scan \/ EndRestarts
  BY <1>3 DEF Scan, EndRestarts, NothingLeft
<1>4. CASE ScanFails \/ End \/ Crash
  BY <1>4 DEF ScanFails, End, Crash, Idle, NothingLeft
<1>5. ASSUME NEW c \in Containers, Restart(c) PROVE NothingLeft'
  BY <1>5 DEF Restart, NothingLeft, plans
<1>6. ASSUME NEW x \in Refs, Publish(x) PROVE NothingLeft'
  BY <1>6 DEF Publish, NothingLeft, plans
<1>7. ASSUME NEW r \in Records, Detect(r) PROVE NothingLeft'
  BY <1>7 DEF Detect, NothingLeft, plans
<1>8. CASE UNCHANGED vars
  BY <1>8 DEF vars, NothingLeft, plans
<1>9. ASSUME NEW c \in Containers, SelfUpdate(c) PROVE NothingLeft'
  BY <1>9 DEF SelfUpdate, NothingLeft, plans
<1> QED BY <1>1, <1>2, <1>3, <1>4, <1>5, <1>6, <1>7, <1>8, <1>9, StepCases

LEMMA PulledIsServedKept == ASSUME TypeOK, NothingLeft, PulledIsServed, [Next]_vars PROVE PulledIsServed'
<1> USE DEF PulledIsServed, Running
<1>1. ASSUME NEW m \in Modes, Begin(m) PROVE PulledIsServed'
  <2>1. pulled' = {} /\ remote' = remote /\ served' = [x \in Refs |-> {remote[x]}]
    BY <1>1 DEF Begin, NothingLeft, world
  <2> QED BY <2>1
<1>2. ASSUME NEW r \in Records, Skip(r) \/ StartPull(r) \/ Clear(r) PROVE PulledIsServed'
  <2>1. UNCHANGED <<remote, local, served, pulled>> /\ phase # "idle"
    BY <1>2 DEF Skip, StartPull, Clear, world, daemon, plans, TypeOK
  <2> QED BY <2>1
<1>3. ASSUME NEW r \in Records, Pull(r) \/ PullFails(r) PROVE PulledIsServed'
  <2>1. phase = "pull" /\ UNCHANGED <<remote, served>> /\ pulled' \subseteq pulled \cup {r}
    BY <1>3 DEF Pull, PullFails
  <2>2. \A x \in Refs : local'[x] = local[x] \/ local'[x] = remote[x]
    BY <1>3 DEF Pull, PullFails, TypeOK
  <2>3. r \in pulled' => r \in pulled \/ local'[NewRef[r]] = remote[NewRef[r]]
    BY <1>3, NewRefTyped DEF Pull, PullFails, TypeOK
  <2>4. ASSUME NEW s \in pulled' PROVE local'[NewRef[s]] \in served'[NewRef[s]]
    <3>1. NewRef[s] \in Refs
      BY <2>1, NewRefTyped DEF TypeOK
    <3> QED BY <2>1, <2>2, <2>3, <2>4, <3>1
  <2> QED BY <2>1, <2>4
<1>4. CASE Scan \/ EndRestarts
  BY <1>4 DEF Scan, EndRestarts, world, daemon, plans, TypeOK
<1>5. CASE ScanFails \/ End \/ Crash
  BY <1>5 DEF ScanFails, End, Crash, Idle
<1>6. ASSUME NEW c \in Containers, Restart(c) PROVE PulledIsServed'
  BY <1>6 DEF Restart, plans
<1>7. ASSUME NEW x \in Refs, Publish(x) PROVE PulledIsServed'
  <2>1. /\ UNCHANGED <<local, phase, pulled>>
        /\ served' = [served EXCEPT ![x] = IF phase # "idle" THEN @ \cup {remote'[x]} ELSE @]
    BY <1>7 DEF Publish, daemon, plans
  <2>2. \A y \in Refs : y # x => remote'[y] = remote[y]
    BY <1>7 DEF Publish, TypeOK
  <2>3. \A y \in Refs : served[y] \subseteq served'[y]
    BY <2>1 DEF TypeOK
  <2>4. phase # "idle" => remote'[x] \in served'[x]
    BY <2>1 DEF TypeOK
  <2>5. \A r \in pulled : NewRef[r] \in Refs
    BY NewRefTyped DEF TypeOK
  <2> QED BY <2>1, <2>2, <2>3, <2>4, <2>5
<1>8. ASSUME NEW r \in Records, Detect(r) PROVE PulledIsServed'
  BY <1>8 DEF Detect, daemon, plans
<1>9. CASE UNCHANGED vars
  BY <1>9 DEF vars, world, daemon, plans
<1>10. ASSUME NEW c \in Containers, SelfUpdate(c) PROVE PulledIsServed'
  BY <1>10 DEF SelfUpdate, plans
<1> QED BY <1>1, <1>2, <1>3, <1>4, <1>5, <1>6, <1>7, <1>8, <1>9, <1>10, StepCases

LEMMA MapsAreUpdatesKept == ASSUME TypeOK, NothingLeft, MapsAreUpdates, [Next]_vars PROVE MapsAreUpdates'
<1> USE DEF MapsAreUpdates
<1>1. ASSUME NEW m \in Modes, Begin(m) PROVE MapsAreUpdates'
  <2>1. UNCHANGED <<oldIDToNewRef, oldRefToNewRef, updated>> /\ updated = {}
    BY <1>1 DEF Begin, NothingLeft
  <2> QED BY <2>1
<1>2. ASSUME NEW r \in Records, Skip(r) \/ StartPull(r) \/ PullFails(r) \/ Clear(r) PROVE MapsAreUpdates'
  BY <1>2 DEF Skip, StartPull, PullFails, Clear, plans
<1>3. ASSUME NEW r \in Records, Pull(r) PROVE MapsAreUpdates'
  <2>1. CASE UNCHANGED <<updated, oldIDToNewRef, oldRefToNewRef>>
    BY <1>3, <2>1 DEF Pull
  <2>2. CASE /\ updated' = updated \cup {r}
             /\ oldIDToNewRef' = [i \in Images |-> IF i \in oldIDs[r] THEN NewRef[r] ELSE oldIDToNewRef[i]]
             /\ oldRefToNewRef' = [oldRefToNewRef EXCEPT ![OldRef[r]] = NewRef[r]]
    <3>1. oldIDs' = oldIDs /\ r \in updated' /\ updated \subseteq updated'
      BY <1>3, <2>2 DEF Pull
    <3>2. ASSUME NEW i \in Images, oldIDToNewRef'[i] # NoRef
          PROVE  \E s \in updated' : i \in oldIDs'[s] /\ NewRef[s] = oldIDToNewRef'[i]
      BY <2>2, <3>1, <3>2
    <3>3. ASSUME NEW x \in Refs, oldRefToNewRef'[x] # NoRef
          PROVE  \E s \in updated' : OldRef[s] = x /\ NewRef[s] = oldRefToNewRef'[x]
      <4>1. oldRefToNewRef'[x] = IF x = OldRef[r] THEN NewRef[r] ELSE oldRefToNewRef[x]
        BY <2>2 DEF TypeOK
      <4> QED BY <3>1, <3>3, <4>1
    <3> QED BY <3>2, <3>3
  <2> QED BY <1>3, <2>1, <2>2 DEF Pull
<1>4. CASE Scan \/ EndRestarts
  BY <1>4 DEF Scan, EndRestarts, plans
<1>5. CASE ScanFails \/ End \/ Crash
  BY <1>5 DEF ScanFails, End, Crash, Idle
<1>6. ASSUME NEW c \in Containers, Restart(c) PROVE MapsAreUpdates'
  BY <1>6 DEF Restart, plans
<1>7. ASSUME NEW x \in Refs, Publish(x) PROVE MapsAreUpdates'
  BY <1>7 DEF Publish, plans
<1>8. ASSUME NEW r \in Records, Detect(r) PROVE MapsAreUpdates'
  BY <1>8 DEF Detect, plans
<1>9. CASE UNCHANGED vars
  BY <1>9 DEF vars, plans
<1>10. ASSUME NEW c \in Containers, SelfUpdate(c) PROVE MapsAreUpdates'
  BY <1>10 DEF SelfUpdate, plans
<1> QED BY <1>1, <1>2, <1>3, <1>4, <1>5, <1>6, <1>7, <1>8, <1>9, <1>10, StepCases

LEMMA NamesAnImageKept ==
  ASSUME TypeOK, PulledIsServed, NamesAnImage, MapsAreUpdates, [Next]_vars
  PROVE  NamesAnImage'
<1>1. ASSUME UNCHANGED <<local, ref, handed, newRef>> PROVE NamesAnImage'
  BY <1>1 DEF NamesAnImage
<1>2. ASSUME NEW m \in Modes, Begin(m) PROVE NamesAnImage'
  BY <1>1, <1>2 DEF Begin, world, daemon, restarts
<1>3. ASSUME NEW r \in Records, Skip(r) \/ StartPull(r) \/ Clear(r) PROVE NamesAnImage'
  BY <1>1, <1>3 DEF Skip, StartPull, Clear, world, daemon, restarts
<1>4. ASSUME NEW r \in Records, Pull(r) \/ PullFails(r) PROVE NamesAnImage'
  <2>1. UNCHANGED <<ref, handed, newRef>>
    BY <1>4 DEF Pull, PullFails, restarts
  <2>2. \A x \in Refs : local'[x] = local[x] \/ local'[x] \in Images
    BY <1>4, NewRefTyped DEF Pull, PullFails, TypeOK
  <2>3. \A c \in Containers : /\ ref[c] \in Refs \cup {ByID} /\ newRef[c] \in Refs \cup {ByID, NoRef}
                              /\ handed[c] \in Refs \cup {ByID, NoRef}
    BY DEF TypeOK
  <2> QED BY <2>1, <2>2, <2>3, SentinelsAreOthers DEF NamesAnImage
<1>5. CASE Scan
  <2>1. local' = local /\ ref' = ref /\ handed' = handed
    BY <1>5 DEF Scan, world, daemon
  <2>2. ASSUME NEW c \in Containers, newRef'[c] \notin {NoRef, ByID} PROVE local[newRef'[c]] # NoImage
    <3>1. CASE newRef'[c] = ref[c]
      BY <2>2, <3>1 DEF NamesAnImage
    <3>2. CASE newRef'[c] # ref[c]
      <4>1. PICK r \in updated : NewRef[r] = newRef'[c]
        BY <1>5, <2>2, <3>2, ScanFacts
      <4>2. r \in pulled /\ NewRef[r] \in Refs
        BY NewRefTyped DEF TypeOK
      <4>3. local[NewRef[r]] \in Images
        BY <4>2 DEF PulledIsServed, TypeOK
      <4> QED BY <4>1, <4>3, SentinelsAreOthers
    <3> QED BY <3>1, <3>2
  <2> QED BY <2>1, <2>2 DEF NamesAnImage
<1>6. CASE ScanFails \/ End \/ Crash
  BY <1>6 DEF ScanFails, End, Crash, Idle, NamesAnImage, world, daemon
<1>7. ASSUME NEW c \in Containers, Restart(c) PROVE NamesAnImage'
  <2>1. local' = local /\ newRef' = [newRef EXCEPT ![c] = NoRef] /\ newRef[c] # NoRef
    BY <1>7 DEF Restart
  <2>2. \A d \in Containers : newRef'[d] = IF d = c THEN NoRef ELSE newRef[d]
    BY <2>1 DEF TypeOK
  <2>3. ASSUME NEW d \in Containers
        PROVE  /\ ref'[d] = ref[d] \/ (d \notin Composed /\ ref'[d] \in {ByID, newRef[d]} /\ newRef[d] # NoRef)
               /\ handed'[d] = handed[d] \/ (d \in Targets /\ handed'[d] = newRef[d])
    BY <1>7, RestartEffect
  <2> QED BY <2>1, <2>2, <2>3 DEF NamesAnImage
<1>8. CASE EndRestarts
  BY <1>1, <1>8 DEF EndRestarts, world, daemon, restarts
<1>9. ASSUME NEW x \in Refs, Publish(x) PROVE NamesAnImage'
  BY <1>1, <1>9 DEF Publish, daemon, restarts
<1>10. ASSUME NEW r \in Records, Detect(r) PROVE NamesAnImage'
  BY <1>1, <1>10 DEF Detect, daemon, restarts
<1>11. CASE UNCHANGED vars
  BY <1>1, <1>11 DEF vars, world, daemon, restarts
<1>12. ASSUME NEW c \in Containers, SelfUpdate(c) PROVE NamesAnImage'
  <2>1. local' = local /\ newRef' = newRef /\ c \notin Composed
    BY <1>12, SelfUpdateEffect, ContainersAssumption DEF NamesAnImage, restarts
  <2>2. ASSUME NEW d \in Containers
        PROVE  /\ ref'[d] = ref[d] \/ (d = c /\ ref'[d] = handed[d] /\ handed[d] # NoRef)
               /\ handed'[d] = handed[d] \/ (d = c /\ handed'[d] = NoRef)
    BY <1>12, SelfUpdateEffect
  <2> QED BY <2>1, <2>2 DEF NamesAnImage
<1> QED BY <1>2, <1>3, <1>4, <1>5, <1>6, <1>7, <1>8, <1>9, <1>10, <1>11, <1>12, StepCases

-----------------------------------------------------------------------------
THEOREM InvHolds == Spec => []Inv
<1>1. Init => Inv
  <2>1. Init => NothingLeft /\ PulledIsServed /\ MapsAreUpdates
    BY DEF Init, NothingLeft, PulledIsServed, MapsAreUpdates, Running
  <2>2. Init => NamesAnImage
    <3> SUFFICES ASSUME Init PROVE NamesAnImage
      OBVIOUS
    <3>1. PICK unused \in SUBSET {x \in Refs : \A c \in Containers : ref[c] # x} :
            local = [x \in Refs |-> IF x \in unused THEN NoImage ELSE remote[x]]
      BY DEF Init
    <3>2. /\ ref \in [Containers -> Refs] /\ remote \in [Refs -> Images]
          /\ newRef = [c \in Containers |-> NoRef] /\ handed = [c \in Containers |-> NoRef]
      BY ContainersAssumption DEF Init
    <3> QED BY <3>1, <3>2, SentinelsAreOthers DEF NamesAnImage
  <2> QED BY <2>1, <2>2, InitTyped DEF Inv
<1>2. Inv /\ [Next]_vars => Inv'
  BY TypesKept, NothingLeftKept, PulledIsServedKept, MapsAreUpdatesKept, NamesAnImageKept DEF Inv
<1> QED BY <1>1, <1>2, PTL DEF Spec

(* Every variable keeps its type; a container is never created from a      *)
(* reference the daemon has no image for.                                  *)
THEOREM TypeCorrect == Spec => []TypeOK
<1>1. Inv => TypeOK
  BY DEF Inv
<1> QED BY <1>1, InvHolds, PTL

(* A record goes only when its image was pulled in the run, for any store, *)
(* registries and faults (clearAppliedPlanRecords in apply.go).            *)
THEOREM ClearedWasPulledHolds == Spec => ClearedWasPulled
<1> DEFINE Served(r) == local[NewRef[r]] \in served[NewRef[r]]
           Good      == \A r \in pending \ pending' : Served(r)
<1>1. ASSUME Inv, [Next]_vars, NEW r \in pending \ pending' PROVE Served(r)
  <2>1. r \in toClear
    BY <1>1, StepCases DEF Begin, Skip, StartPull, PullFails, Pull, Clear, Restart, Scan, ScanFails, EndRestarts,
                           End, Crash, Publish, Detect, SelfUpdate, world, vars
  <2>2. r \in pulled
    BY <1>1, <2>1 DEF Inv, TypeOK
  <2> QED BY <1>1, <2>2 DEF Inv, PulledIsServed
<1>2. Inv /\ [Next]_vars => [Good]_vars
  BY <1>1
<1> QED BY <1>2, InvHolds, PTL DEF Spec, ClearedWasPulled

-----------------------------------------------------------------------------
(* Images stay under references that serve them, when references share     *)
(* none: what a pull, a restart and a rollback change keeps to that.       *)
LEMMA InPlaceKept == ASSUME OwnImages, Inv, InPlace, [Next]_vars PROVE InPlace'
<1>0. TypeOK /\ NewRef \in [Records -> Refs]
  BY NewRefTyped DEF Inv
<1>1. ASSUME UNCHANGED <<remote, local, ref, runs, oldIDs>> PROVE InPlace'
  BY <1>1 DEF InPlace
<1>2. ASSUME NEW m \in Modes, Begin(m) PROVE InPlace'
  <2>1. UNCHANGED <<remote, local, ref, runs>>
    BY <1>2 DEF Begin, world, daemon
  <2>2. ASSUME NEW r \in Records PROVE oldIDs'[r] \subseteq Serves[OldRef[r]]
    <3>1. IDsForRef(OldRef[r], TRUE) \subseteq Serves[OldRef[r]] /\ IDsForRef(OldRef[r], FALSE) = {}
      BY OldRefTyped DEF InPlace, IDsForRef
    <3>2. \A seen \in BOOLEAN : OldIDs(r, seen) \subseteq Serves[OldRef[r]]
      BY <3>1 DEF OldIDs, IDsForRef, OwnImages
    <3>3. PICK blind : oldIDs' = [s \in Records |-> IF s \in Applicable THEN OldIDs(s, s \notin blind) ELSE {}]
      BY <1>2 DEF Begin
    <3>4. oldIDs'[r] = {} \/ oldIDs'[r] = OldIDs(r, r \notin blind)
      BY <3>3
    <3>5. (r \notin blind) \in BOOLEAN
      OBVIOUS
    <3> QED BY <3>2, <3>4, <3>5
  <2> QED BY <2>1, <2>2 DEF InPlace
<1>3. ASSUME NEW r \in Records, Skip(r) \/ StartPull(r) \/ Clear(r) PROVE InPlace'
  BY <1>1, <1>3 DEF Skip, StartPull, Clear, world, daemon, plans
<1>4. ASSUME NEW r \in Records, Pull(r) \/ PullFails(r) PROVE InPlace'
  <2>1. UNCHANGED <<remote, ref, runs, oldIDs>>
    BY <1>4 DEF Pull, PullFails
  <2>2. \A x \in Refs : local'[x] = local[x] \/ local'[x] = remote[x]
    BY <1>0, <1>4 DEF Pull, PullFails, TypeOK
  <2> QED BY <2>1, <2>2 DEF InPlace
<1>5. CASE Scan \/ EndRestarts
  BY <1>1, <1>5 DEF Scan, EndRestarts, world, daemon, plans
<1>6. CASE ScanFails \/ End \/ Crash
  <2>1. UNCHANGED <<remote, local, ref, runs>> /\ oldIDs' = [r \in Records |-> {}]
    BY <1>6 DEF ScanFails, End, Crash, Idle, world, daemon
  <2> QED BY <2>1 DEF InPlace
<1>7. ASSUME NEW c \in Containers, Restart(c) PROVE InPlace'
  <2>1. UNCHANGED <<remote, local, oldIDs>> /\ newRef[c] # NoRef /\ newRef[c] \in Refs \cup {ByID}
    BY <1>0, <1>7 DEF Restart, plans, TypeOK
  <2>2. ASSUME NEW d \in Containers, ref'[d] # ByID PROVE runs'[d] \in Serves[ref'[d]]
    <3>1. CASE ref'[d] = ref[d] /\ runs'[d] = runs[d]
      BY <2>2, <3>1 DEF InPlace
    <3>2. CASE d = c /\ runs'[c] = local[ref'[c]] /\ ref'[c] \in {ref[c], newRef[c]}
      <4>1. ref'[c] \in Refs /\ local[ref'[c]] # NoImage
        BY <1>0, <2>1, <2>2, <3>2 DEF Inv, NamesAnImage, TypeOK
      <4> QED BY <3>2, <4>1 DEF InPlace
    <3> QED BY <1>0, <1>7, <2>2, <3>1, <3>2, RestartEffect DEF Inv
  <2> QED BY <2>1, <2>2 DEF InPlace
<1>8. ASSUME NEW x \in Refs, Publish(x) PROVE InPlace'
  <2>1. UNCHANGED <<local, ref, runs, oldIDs>>
    BY <1>8 DEF Publish, daemon, plans
  <2>2. \A y \in Refs : remote'[y] \in Serves[y]
    BY <1>0, <1>8 DEF Publish, InPlace, TypeOK
  <2> QED BY <2>1, <2>2 DEF InPlace
<1>9. ASSUME NEW r \in Records, Detect(r) PROVE InPlace'
  BY <1>1, <1>9 DEF Detect, daemon, plans
<1>10. CASE UNCHANGED vars
  BY <1>1, <1>10 DEF vars, world, daemon, plans
<1>11. ASSUME NEW c \in Containers, SelfUpdate(c) PROVE InPlace'
  <2>1. UNCHANGED <<remote, local, oldIDs>> /\ handed[c] \in Refs \cup {ByID}
    BY <1>0, <1>11, SelfUpdateEffect DEF plans, TypeOK
  <2>2. ASSUME NEW d \in Containers, ref'[d] # ByID PROVE runs'[d] \in Serves[ref'[d]]
    <3>1. CASE d # c
      BY <1>0, <1>11, <2>2, <3>1, SelfUpdateEffect DEF InPlace
    <3>2. CASE d = c
      <4>1. ref'[c] = handed[c] /\ handed[c] \in Refs /\ runs'[c] = local[handed[c]]
        BY <1>0, <1>11, <2>1, <2>2, <3>2, SelfUpdateEffect
      <4>2. local[handed[c]] # NoImage
        BY <4>1, SentinelsAreOthers DEF Inv, NamesAnImage
      <4> QED BY <3>2, <4>1, <4>2 DEF InPlace
    <3> QED BY <3>1, <3>2
  <2> QED BY <2>1, <2>2 DEF InPlace
<1> QED BY <1>2, <1>3, <1>4, <1>5, <1>6, <1>7, <1>8, <1>9, <1>10, <1>11, StepCases

LEMMA TargetsFollowKept == ASSUME OwnImages, Inv, InPlace, TargetsFollow, [Next]_vars PROVE TargetsFollow'
<1>0. TypeOK
  BY DEF Inv
<1>1. ASSUME UNCHANGED <<ref, runs, newRef>>, updated \subseteq updated' PROVE TargetsFollow'
  BY <1>1 DEF TargetsFollow, FollowsUpdate
<1>2. ASSUME NEW m \in Modes, Begin(m) PROVE TargetsFollow'
  BY <1>1, <1>2 DEF Begin, world, daemon, restarts
<1>3. ASSUME NEW r \in Records, Skip(r) \/ StartPull(r) \/ PullFails(r) \/ Pull(r) \/ Clear(r) PROVE TargetsFollow'
  BY <1>1, <1>3 DEF Skip, StartPull, PullFails, Pull, Clear, world, daemon, plans, restarts
<1>4. CASE Scan
  <2>1. UNCHANGED <<ref, runs, updated>>
    BY <1>4 DEF Scan, world, daemon, plans
  <2>2. ASSUME NEW c \in Containers, newRef'[c] \notin {NoRef, ref[c]} PROVE FollowsUpdate(c, newRef'[c])
    <3>1. PICK r \in updated : NewRef[r] = newRef'[c] /\ (runs[c] \in oldIDs[r] \/ OldRef[r] = ref[c])
      BY <1>0, <1>4, <2>2, ScanFacts DEF Inv
    <3>2. r \in Records /\ OldRef[r] \in Refs /\ ref[c] \in Refs \cup {ByID}
      BY <1>0, OldRefTyped DEF TypeOK
    <3>3. CASE runs[c] \in oldIDs[r] /\ ref[c] # ByID
      <4>1. runs[c] \in Serves[OldRef[r]] /\ runs[c] \in Serves[ref[c]]
        BY <3>2, <3>3 DEF InPlace
      <4>2. OldRef[r] = ref[c]
        BY <3>2, <3>3, <4>1 DEF OwnImages
      <4> QED BY <3>1, <4>2 DEF FollowsUpdate
    <3>4. CASE runs[c] \in oldIDs[r] /\ ref[c] = ByID
      BY <3>1, <3>2, <3>4 DEF FollowsUpdate, InPlace
    <3> QED BY <3>1, <3>3, <3>4 DEF FollowsUpdate
  <2> QED BY <2>1, <2>2 DEF TargetsFollow, FollowsUpdate
<1>5. CASE ScanFails \/ End \/ Crash
  <2>1. \A c \in Containers : newRef'[c] = NoRef
    BY <1>5 DEF ScanFails, End, Crash, Idle
  <2> QED BY <2>1 DEF TargetsFollow
<1>6. ASSUME NEW c \in Containers, Restart(c) PROVE TargetsFollow'
  <2>1. updated' = updated /\ \A d \in Containers : newRef'[d] = IF d = c THEN NoRef ELSE newRef[d]
    BY <1>0, <1>6 DEF Restart, plans, TypeOK
  <2>2. \A d \in Containers \ {c} : ref'[d] = ref[d] /\ runs'[d] = runs[d]
    BY <1>0, <1>6, RestartEffect DEF Inv
  <2> QED BY <2>1, <2>2 DEF TargetsFollow, FollowsUpdate
<1>7. CASE EndRestarts
  BY <1>1, <1>7 DEF EndRestarts, world, daemon, plans, restarts
<1>8. ASSUME NEW x \in Refs, Publish(x) PROVE TargetsFollow'
  BY <1>1, <1>8 DEF Publish, daemon, plans, restarts
<1>9. ASSUME NEW r \in Records, Detect(r) PROVE TargetsFollow'
  BY <1>1, <1>9 DEF Detect, daemon, plans, restarts
<1>10. CASE UNCHANGED vars
  BY <1>1, <1>10 DEF vars, world, daemon, plans, restarts
<1>11. ASSUME NEW c \in Containers, SelfUpdate(c) PROVE TargetsFollow'
  <2>1. UNCHANGED <<updated, newRef>> /\ newRef[c] = NoRef
    BY <1>0, <1>11, SelfUpdateEffect DEF plans, restarts
  <2>2. \A d \in Containers \ {c} : ref'[d] = ref[d] /\ runs'[d] = runs[d]
    BY <1>0, <1>11, SelfUpdateEffect
  <2> QED BY <2>1, <2>2 DEF TargetsFollow, FollowsUpdate
<1> QED BY <1>2, <1>3, <1>4, <1>5, <1>6, <1>7, <1>8, <1>9, <1>10, <1>11, StepCases

LEMMA HandedIsRightKept == ASSUME Inv, TargetsFollow, HandedIsRight, [Next]_vars PROVE HandedIsRight'
<1>0. TypeOK
  BY DEF Inv
<1>1. ASSUME UNCHANGED <<ref, handed>> PROVE HandedIsRight'
  BY <1>1 DEF HandedIsRight
<1>2. ASSUME NEW c \in Containers, Restart(c) PROVE HandedIsRight'
  <2>1. ASSUME NEW d \in Containers, handed'[d] \notin {NoRef, ByID, ref'[d]}
        PROVE  \E r \in Records : NewRef[r] = handed'[d]
    <3>1. CASE handed'[d] = handed[d] /\ ref'[d] = ref[d]
      BY <2>1, <3>1 DEF HandedIsRight
    <3>2. CASE handed'[d] = newRef[d] /\ ref'[d] = ref[d]
      BY <1>0, <2>1, <3>2 DEF TargetsFollow, FollowsUpdate, TypeOK
    <3>3. CASE handed'[d] = handed[d] /\ ref'[d] # ref[d]
      BY <1>0, <1>2, <2>1, <3>3, RestartEffect DEF Inv, NamesAnImage
    <3> QED BY <1>0, <1>2, <3>1, <3>2, <3>3, RestartEffect DEF Inv
  <2> QED BY <2>1 DEF HandedIsRight
<1>3. ASSUME NEW c \in Containers, SelfUpdate(c) PROVE HandedIsRight'
  <2>1. \A d \in Containers : handed'[d] = NoRef \/ (handed'[d] = handed[d] /\ ref'[d] = ref[d])
    BY <1>0, <1>3, SelfUpdateEffect
  <2> QED BY <2>1 DEF HandedIsRight
<1> QED BY <1>1, <1>2, <1>3, StepCases DEF Begin, Skip, StartPull, PullFails, Pull, Clear, Scan, ScanFails,
           EndRestarts, End, Crash, Publish, Detect, world, daemon, vars

LEMMA InPlaceHolds == ASSUME OwnImages PROVE Spec => [](InPlace /\ TargetsFollow /\ HandedIsRight)
<1>1. Init => InPlace /\ TargetsFollow /\ HandedIsRight
  <2> SUFFICES ASSUME Init PROVE InPlace /\ TargetsFollow /\ HandedIsRight
    OBVIOUS
  <2>1. PICK unused \in SUBSET {x \in Refs : \A c \in Containers : ref[c] # x} :
          /\ local = [x \in Refs |-> IF x \in unused THEN NoImage ELSE remote[x]]
          /\ runs = [c \in Containers |-> local[ref[c]]]
    BY DEF Init
  <2>2. \A x \in Refs : remote[x] \in Serves[x]
    BY DEF Init
  <2>3. ref \in [Containers -> Refs] /\ handed = [c \in Containers |-> NoRef]
    BY ContainersAssumption DEF Init
  <2>4. \A c \in Containers : runs[c] = remote[ref[c]]
    BY <2>1, <2>3
  <2>5. oldIDs = [r \in Records |-> {}] /\ newRef = [c \in Containers |-> NoRef]
    BY DEF Init
  <2> QED BY <2>1, <2>2, <2>3, <2>4, <2>5 DEF InPlace, TargetsFollow, HandedIsRight
<1>2. Inv /\ InPlace /\ TargetsFollow /\ HandedIsRight /\ [Next]_vars
      => (InPlace /\ TargetsFollow /\ HandedIsRight)'
  BY InPlaceKept, TargetsFollowKept, HandedIsRightKept
<1> QED BY <1>1, <1>2, InvHolds, PTL DEF Spec

(* A container follows an update of its own reference, whatever fails, if  *)
(* no image belongs to two references: the maps from old images to new     *)
(* references (apply.go 72) then lead nobody astray.                       *)
THEOREM FollowsItsRecordHolds == ASSUME OwnImages PROVE Spec => FollowsItsRecord
<1> DEFINE Follows(c) == /\ ref'[c] \notin {ref[c], ByID, handed[c]} => FollowsUpdate(c, ref'[c])
                         /\ handed'[c] \notin {handed[c], NoRef, ByID, ref[c]} => FollowsUpdate(c, handed'[c])
           Good       == \A c \in Containers : Follows(c)
           All        == Inv /\ InPlace /\ TargetsFollow
<1>1. ASSUME All, [Next]_vars, NEW c \in Containers PROVE Follows(c)
  <2>1. CASE UNCHANGED <<ref, handed>>
    BY <2>1
  <2>2. ASSUME NEW d \in Containers, Restart(d) PROVE Follows(c)
    <3>1. newRef[d] # NoRef /\ ref'[c] \in {ref[c], ByID, newRef[c]} /\ handed'[c] \in {handed[c], newRef[c]}
      BY <1>1, <2>2, RestartEffect DEF Inv
    <3>2. c # d => ref'[c] = ref[c] /\ handed'[c] = handed[c]
      BY <1>1, <2>2, RestartEffect DEF Inv
    <3> QED BY <1>1, <3>1, <3>2 DEF TargetsFollow
  <2>3. ASSUME NEW d \in Containers, SelfUpdate(d) PROVE Follows(c)
    BY <1>1, <2>3, SelfUpdateEffect DEF Inv
  <2> QED BY <1>1, <2>1, <2>2, <2>3, StepCases DEF Begin, Skip, StartPull, PullFails, Pull, Clear, Scan, ScanFails,
             EndRestarts, End, Crash, Publish, Detect, world, daemon, vars
<1>2. All /\ [Next]_vars => [Good]_vars
  BY <1>1
<1>3. Spec => []All
  BY InvHolds, InPlaceHolds, PTL
<1>4. FollowsItsRecord <=> [][Good]_vars
  BY DEF FollowsItsRecord
<1> QED BY <1>2, <1>3, <1>4, PTL DEF Spec
-----------------------------------------------------------------------------
(***************************************************************************)
(* Records of failed restarts.  The argument: a container of an image that *)
(* an update replaces is led to the new reference of that update by both   *)
(* maps; until it runs the new image, it is on the list of those to        *)
(* restart, or its failure is.                                             *)
(***************************************************************************)

(* Each reference has one record, no update ends where another one begins, *)
(* and a failed restart names its image.                                   *)
SeparateRecords ==
  /\ \A r, s \in Records : OldRef[r] = OldRef[s] => r = s
  /\ \A r, s \in Records : NewRef[r] = OldRef[s] => r = s
  /\ ~LateInspects

(* The maps lead from what an update replaces to its new reference.        *)
UpdatesAreMapped ==
  \A r \in updated :
    /\ \A i \in oldIDs[r] : oldIDToNewRef[i] = NewRef[r]
    /\ oldRefToNewRef[OldRef[r]] = NewRef[r]

(* Nobody pulls the reference that a tag update leaves, so the containers  *)
(* of it run the image it names and are listed by it.                      *)
LeftTagsStand ==
  \A r \in Records, c \in Containers :
    NewRef[r] # OldRef[r] /\ ref[c] = OldRef[r] => ListedByRef(c)

(* Whoever runs an image of an update after the scan is up to date, on the *)
(* list, handed over, or failed; and the list leads nobody back to such an *)
(* image.                                                                  *)
RestartsGoOn ==
  phase \in {"restart", "clear"} =>
    \A r \in updated, c \in up :
      /\ runs[c] \in oldIDs[r] =>
           \/ runs[c] = local[NewRef[r]]
           \/ newRef[c] = NewRef[r]
           \/ newRef[c] = NoRef /\ handed[c] = NewRef[r]
           \/ NewRef[r] \in failedRefs
      /\ newRef[c] \notin {NoRef, ByID} /\ local[newRef[c]] \in oldIDs[r] =>
           local[newRef[c]] = local[NewRef[r]]

(* Restarts are over when records are cleared, and no failure is forgotten.*)
ListIsUsedUp ==
  /\ phase # "restart" => \A c \in Containers : newRef[c] = NoRef
  /\ \A r \in toClear : phase = "clear" /\ NewRef[r] \notin failedRefs

KeepsInv == UpdatesAreMapped /\ LeftTagsStand /\ RestartsGoOn /\ ListIsUsedUp

LEMMA KeepsBegin == Init => KeepsInv
<1> SUFFICES ASSUME Init PROVE KeepsInv
  OBVIOUS
<1>1. updated = {} /\ toClear = {} /\ phase = "idle" /\ newRef = [c \in Containers |-> NoRef]
  BY DEF Init
<1>2. LeftTagsStand
  <2>1. ref \in [Containers -> Refs] /\ runs = [c \in Containers |-> local[ref[c]]]
    BY ContainersAssumption DEF Init
  <2> QED BY <2>1, SentinelsAreOthers DEF LeftTagsStand, ListedByRef
<1> QED BY <1>1, <1>2 DEF KeepsInv, UpdatesAreMapped, RestartsGoOn, ListIsUsedUp

(* An image that a reference has and an update replaces is one of that     *)
(* update's old reference.                                                 *)
LEMMA OldImageTells ==
  ASSUME OwnImages, TypeOK, InPlace, NEW r \in Records, NEW x \in Refs, NEW i \in oldIDs[r], i \in Serves[x]
  PROVE  OldRef[r] = x
BY OldRefTyped DEF InPlace, OwnImages

(* Two updates replace different images.                                   *)
LEMMA OldImagesDiffer ==
  ASSUME OwnImages, SeparateRecords, TypeOK, InPlace,
         NEW r \in Records, NEW s \in Records, NEW i, i \in oldIDs[r], i \in oldIDs[s]
  PROVE  r = s
<1>1. i \in Serves[OldRef[s]] /\ OldRef[s] \in Refs
  BY OldRefTyped DEF InPlace
<1>2. OldRef[r] = OldRef[s]
  BY <1>1, OldImageTells
<1> QED BY <1>2 DEF SeparateRecords

LEMMA UpdatesAreMappedKept ==
  ASSUME OwnImages, SeparateRecords, Inv, InPlace, UpdatesAreMapped, [Next]_vars PROVE UpdatesAreMapped'
<1>0. TypeOK
  BY DEF Inv
<1>1. ASSUME UNCHANGED <<updated, oldIDs, oldIDToNewRef, oldRefToNewRef>> PROVE UpdatesAreMapped'
  BY <1>1 DEF UpdatesAreMapped
<1>2. ASSUME NEW m \in Modes, Begin(m) PROVE UpdatesAreMapped'
  <2>1. updated' = {}
    BY <1>2 DEF Begin, Inv, NothingLeft
  <2> QED BY <2>1 DEF UpdatesAreMapped
<1>3. ASSUME NEW r \in Records, Skip(r) \/ StartPull(r) \/ PullFails(r) \/ Clear(r) PROVE UpdatesAreMapped'
  BY <1>1, <1>3 DEF Skip, StartPull, PullFails, Clear, plans
<1>4. ASSUME NEW s \in Records, Pull(s) PROVE UpdatesAreMapped'
  <2>1. CASE UNCHANGED <<updated, oldIDToNewRef, oldRefToNewRef>>
    BY <1>1, <1>4, <2>1 DEF Pull
  <2>2. CASE /\ updated' = updated \cup {s}
             /\ oldIDToNewRef' = [i \in Images |-> IF i \in oldIDs[s] THEN NewRef[s] ELSE oldIDToNewRef[i]]
             /\ oldRefToNewRef' = [oldRefToNewRef EXCEPT ![OldRef[s]] = NewRef[s]]
    <3>1. oldIDs' = oldIDs
      BY <1>4 DEF Pull
    <3>2. ASSUME NEW r \in updated' PROVE r \in Records /\ oldIDs[r] \subseteq Images /\ OldRef[r] \in Refs
      BY <1>0, <2>2, OldRefTyped DEF TypeOK
    <3>3. \A i \in Images : oldIDToNewRef'[i] = IF i \in oldIDs[s] THEN NewRef[s] ELSE oldIDToNewRef[i]
      BY <2>2
    <3>4. \A x \in Refs : oldRefToNewRef'[x] = IF x = OldRef[s] THEN NewRef[s] ELSE oldRefToNewRef[x]
      BY <1>0, <2>2 DEF TypeOK
    <3>5. ASSUME NEW r \in updated', NEW i \in oldIDs[r] PROVE oldIDToNewRef'[i] = NewRef[r]
      <4>1. CASE i \in oldIDs[s]
        BY <1>0, <3>2, <3>3, <4>1, OldImagesDiffer
      <4>2. CASE i \notin oldIDs[s]
        BY <2>2, <3>2, <3>3, <3>5, <4>2 DEF UpdatesAreMapped
      <4> QED BY <4>1, <4>2
    <3>6. ASSUME NEW r \in updated' PROVE oldRefToNewRef'[OldRef[r]] = NewRef[r]
      <4>1. CASE r = s
        BY <3>2, <3>4, <4>1
      <4>2. CASE r # s
        <5>1. r \in updated /\ OldRef[r] # OldRef[s]
          BY <2>2, <3>2, <4>2 DEF SeparateRecords
        <5> QED BY <3>2, <3>4, <5>1 DEF UpdatesAreMapped
      <4> QED BY <4>1, <4>2
    <3> QED BY <3>1, <3>5, <3>6 DEF UpdatesAreMapped
  <2> QED BY <1>4, <2>1, <2>2 DEF Pull
<1>5. CASE Scan \/ EndRestarts
  BY <1>1, <1>5 DEF Scan, EndRestarts, plans
<1>6. CASE ScanFails \/ End \/ Crash
  BY <1>6 DEF ScanFails, End, Crash, Idle, UpdatesAreMapped
<1>7. ASSUME NEW c \in Containers, Restart(c) PROVE UpdatesAreMapped'
  BY <1>1, <1>7 DEF Restart, plans
<1>8. ASSUME NEW x \in Refs, Publish(x) PROVE UpdatesAreMapped'
  BY <1>1, <1>8 DEF Publish, plans
<1>9. ASSUME NEW r \in Records, Detect(r) PROVE UpdatesAreMapped'
  BY <1>1, <1>9 DEF Detect, plans
<1>10. CASE UNCHANGED vars
  BY <1>1, <1>10 DEF vars, plans
<1>11. ASSUME NEW c \in Containers, SelfUpdate(c) PROVE UpdatesAreMapped'
  BY <1>1, <1>11 DEF SelfUpdate, plans
<1> QED BY <1>2, <1>3, <1>4, <1>5, <1>6, <1>7, <1>8, <1>9, <1>10, <1>11, StepCases

LEMMA LeftTagsStandKept ==
  ASSUME SeparateRecords, Inv, LeftTagsStand, [Next]_vars PROVE LeftTagsStand'
<1>0. TypeOK /\ NewRef \in [Records -> Refs]
  BY NewRefTyped DEF Inv
<1>1. ASSUME UNCHANGED <<local, ref, runs>> PROVE LeftTagsStand'
  BY <1>1 DEF LeftTagsStand, ListedByRef
<1>2. ASSUME NEW m \in Modes, Begin(m) PROVE LeftTagsStand'
  BY <1>1, <1>2 DEF Begin, world, daemon
<1>3. ASSUME NEW r \in Records, Skip(r) \/ StartPull(r) \/ Clear(r) PROVE LeftTagsStand'
  BY <1>1, <1>3 DEF Skip, StartPull, Clear, world, daemon
<1>4. ASSUME NEW s \in Records, Pull(s) \/ PullFails(s) PROVE LeftTagsStand'
  <2>1. UNCHANGED <<ref, runs>>
    BY <1>4 DEF Pull, PullFails
  <2>2. \A x \in Refs : x # NewRef[s] => local'[x] = local[x]
    BY <1>0, <1>4 DEF Pull, PullFails, TypeOK
  <2>3. ASSUME NEW r \in Records, NEW c \in Containers, NewRef[r] # OldRef[r], ref[c] = OldRef[r]
        PROVE  ref[c] # ByID /\ local'[ref[c]] = runs[c]
    <3>1. ref[c] # ByID /\ local[ref[c]] = runs[c] /\ ref[c] \in Refs
      BY <2>3, OldRefTyped DEF LeftTagsStand, ListedByRef
    <3>2. ref[c] # NewRef[s]
      BY <2>3 DEF SeparateRecords
    <3> QED BY <2>2, <3>1, <3>2
  <2> QED BY <2>1, <2>3 DEF LeftTagsStand, ListedByRef
<1>5. CASE Scan \/ EndRestarts \/ ScanFails \/ End \/ Crash
  BY <1>1, <1>5 DEF Scan, EndRestarts, ScanFails, End, Crash, world, daemon
<1>6. ASSUME NEW d \in Containers, Restart(d) PROVE LeftTagsStand'
  <2>1. local' = local /\ newRef[d] # NoRef
    BY <1>6 DEF Restart
  <2>2. \A c \in Containers : \/ ref'[c] = ref[c] /\ runs'[c] = runs[c]
                              \/ ref'[c] = ByID
                              \/ runs'[c] = local[ref'[c]]
    BY <1>0, <1>6, RestartEffect DEF Inv
  <2>3. ASSUME NEW r \in Records, NEW c \in Containers, NewRef[r] # OldRef[r], ref'[c] = OldRef[r]
        PROVE  ref'[c] # ByID /\ local[ref'[c]] = runs'[c]
    <3>1. ref'[c] # ByID
      BY <2>3, OldRefTyped, SentinelsAreOthers
    <3> QED BY <2>2, <2>3, <3>1 DEF LeftTagsStand, ListedByRef
  <2> QED BY <2>1, <2>3 DEF LeftTagsStand, ListedByRef
<1>7. ASSUME NEW x \in Refs, Publish(x) PROVE LeftTagsStand'
  BY <1>1, <1>7 DEF Publish, daemon
<1>8. ASSUME NEW r \in Records, Detect(r) PROVE LeftTagsStand'
  BY <1>1, <1>8 DEF Detect, daemon
<1>9. CASE UNCHANGED vars
  BY <1>1, <1>9 DEF vars, world, daemon
<1>10. ASSUME NEW d \in Containers, SelfUpdate(d) PROVE LeftTagsStand'
  <2>1. local' = local
    BY <1>10 DEF SelfUpdate
  <2>2. \A c \in Containers : \/ ref'[c] = ref[c] /\ runs'[c] = runs[c]
                              \/ ref'[c] = ByID
                              \/ runs'[c] = local[ref'[c]]
    BY <1>0, <1>10, SelfUpdateEffect
  <2>3. ASSUME NEW r \in Records, NEW c \in Containers, NewRef[r] # OldRef[r], ref'[c] = OldRef[r]
        PROVE  ref'[c] # ByID /\ local[ref'[c]] = runs'[c]
    <3>1. ref'[c] # ByID
      BY <2>3, OldRefTyped, SentinelsAreOthers
    <3> QED BY <2>2, <2>3, <3>1 DEF LeftTagsStand, ListedByRef
  <2> QED BY <2>1, <2>3 DEF LeftTagsStand, ListedByRef
<1> QED BY <1>2, <1>3, <1>4, <1>5, <1>6, <1>7, <1>8, <1>9, <1>10, StepCases

LEMMA ListIsUsedUpKept ==
  ASSUME SeparateRecords, Inv, ListIsUsedUp, [Next]_vars PROVE ListIsUsedUp'
<1>0. TypeOK
  BY DEF Inv
<1>1. ASSUME UNCHANGED <<newRef, failedRefs, toClear, phase>> PROVE ListIsUsedUp'
  BY <1>1 DEF ListIsUsedUp
<1>2. ASSUME NEW m \in Modes, Begin(m) PROVE ListIsUsedUp'
  BY <1>2 DEF Begin, restarts, ListIsUsedUp
<1>3. ASSUME NEW r \in Records, Skip(r) \/ StartPull(r) \/ PullFails(r) \/ Pull(r) PROVE ListIsUsedUp'
  BY <1>3 DEF Skip, StartPull, PullFails, Pull, restarts, ListIsUsedUp
<1>4. ASSUME NEW r \in Records, Clear(r) PROVE ListIsUsedUp'
  BY <1>4 DEF Clear, restarts, ListIsUsedUp
<1>5. CASE Scan
  BY <1>5 DEF Scan, ListIsUsedUp
<1>6. CASE EndRestarts
  <2>1. /\ phase' = "clear" /\ UNCHANGED <<newRef, failedRefs>>
        /\ toClear' = {r \in pulled : NewRef[r] \notin failedRefs}
    BY <1>6 DEF EndRestarts, restarts
  <2>2. \A c \in Containers : newRef[c] = NoRef
    BY <1>6 DEF EndRestarts, ListIsUsedUp
  <2> QED BY <2>1, <2>2 DEF ListIsUsedUp
<1>7. CASE ScanFails \/ End \/ Crash
  BY <1>7 DEF ScanFails, End, Crash, Idle, ListIsUsedUp
<1>8. ASSUME NEW c \in Containers, Restart(c) PROVE ListIsUsedUp'
  BY <1>8 DEF Restart, ListIsUsedUp
<1>9. ASSUME NEW x \in Refs, Publish(x) PROVE ListIsUsedUp'
  BY <1>1, <1>9 DEF Publish, restarts
<1>10. ASSUME NEW r \in Records, Detect(r) PROVE ListIsUsedUp'
  BY <1>1, <1>10 DEF Detect, restarts
<1>11. CASE UNCHANGED vars
  BY <1>1, <1>11 DEF vars, restarts
<1>12. ASSUME NEW c \in Containers, SelfUpdate(c) PROVE ListIsUsedUp'
  BY <1>1, <1>12 DEF SelfUpdate, restarts
<1> QED BY <1>2, <1>3, <1>4, <1>5, <1>6, <1>7, <1>8, <1>9, <1>10, <1>11, <1>12, StepCases

(* What a container runs tells the scan which update it follows: one that  *)
(* runs an image of an update's old reference, and is the container of no  *)
(* other, matches that update.                                             *)
LEMMA MatchesItsUpdate ==
  ASSUME OwnImages, SeparateRecords, Inv, InPlace, KeepsInv, NEW blind,
         NEW r \in updated, NEW c \in Containers,
         runs[c] \in oldIDs[r] \/ (ref[c] = OldRef[r] /\ ListedByRef(c))
  PROVE  Match(c, blind) = NewRef[r]
<1>0. TypeOK /\ r \in Records /\ NewRef[r] # NoRef /\ runs[c] \in Images
  BY NewRefTyped, SentinelsAreOthers DEF Inv, TypeOK
<1>1. CASE runs[c] \in oldIDs[r]
  <2>1. oldIDToNewRef[runs[c]] = NewRef[r]
    BY <1>1 DEF KeepsInv, UpdatesAreMapped
  <2> QED BY <1>0, <2>1 DEF Match
<1>2. CASE ref[c] = OldRef[r] /\ ListedByRef(c)
  <2>1. CASE oldIDToNewRef[runs[c]] = NoRef
    <3>1. oldRefToNewRef[ref[c]] = NewRef[r] /\ ref[c] # ByID
      BY <1>2 DEF KeepsInv, UpdatesAreMapped, ListedByRef
    <3> QED BY <1>2, <2>1, <3>1 DEF Match
  <2>2. CASE oldIDToNewRef[runs[c]] # NoRef
    <3>1. PICK s \in updated : runs[c] \in oldIDs[s] /\ NewRef[s] = oldIDToNewRef[runs[c]]
      BY <1>0, <2>2 DEF Inv, MapsAreUpdates
    <3>2. runs[c] \in Serves[OldRef[r]] /\ OldRef[r] \in Refs
      BY <1>0, <1>2, OldRefTyped, SentinelsAreOthers DEF InPlace
    <3>3. s \in Records /\ OldRef[s] = OldRef[r]
      BY <1>0, <3>1, <3>2, OldImageTells DEF TypeOK
    <3>4. s = r
      BY <1>0, <3>3 DEF SeparateRecords
    <3> QED BY <2>2, <3>1, <3>4 DEF Match
  <2> QED BY <2>1, <2>2
<1> QED BY <1>1, <1>2

(* An image that the daemon has under a reference and an update replaces:  *)
(* the reference is the one the update leaves.                             *)
LEMMA OldReferenceTells ==
  ASSUME OwnImages, TypeOK, InPlace, NEW r \in Records, NEW x \in Refs, local[x] \in oldIDs[r]
  PROVE  OldRef[r] = x
<1>1. local[x] \in Images /\ local[x] # NoImage
  BY SentinelsAreOthers DEF TypeOK
<1>2. local[x] \in Serves[x]
  BY <1>1 DEF InPlace
<1> QED BY <1>2, OldImageTells

LEMMA ScanGoesOn ==
  ASSUME OwnImages, SeparateRecords, Inv, InPlace, KeepsInv, Scan PROVE RestartsGoOn'
<1>0. TypeOK
  BY DEF Inv
<1>1. PICK blind \in SUBSET {c \in up : ~ListedByRef(c)}, lost \in SUBSET {NewRef[r] : r \in updated} :
        \E implicit \in SUBSET ((Dependents \cap up) \ {c \in up : Explicit(c, blind, lost)}) :
             newRef' = [c \in Containers |-> IF c \in {d \in up : Explicit(d, blind, lost)} THEN Match(c, blind)
                                             ELSE IF c \in implicit THEN ref[c] ELSE NoRef]
  BY DEF Scan
<1> DEFINE explicit == {d \in up : Explicit(d, blind, lost)}
<1>2. PICK implicit \in SUBSET ((Dependents \cap up) \ explicit) :
        newRef' = [c \in Containers |-> IF c \in explicit THEN Match(c, blind)
                                        ELSE IF c \in implicit THEN ref[c] ELSE NoRef]
  BY <1>1
<1>3. \A c \in up : c \in explicit <=> Explicit(c, blind, lost)
  OBVIOUS
<1>a. \A c \in implicit : c \in up /\ c \notin explicit
  BY <1>2
<1> HIDE DEF explicit
<1>4. UNCHANGED <<local, ref, runs, up, updated, oldIDs>>
  BY DEF Scan, world, daemon, plans
<1>5. ASSUME NEW r \in updated, NEW c \in up, Match(c, blind) = NewRef[r], c \notin explicit
      PROVE  runs[c] = local[NewRef[r]]
  <2>1. NewRef[r] # NoRef
    BY <1>0, NewRefTyped, SentinelsAreOthers DEF TypeOK
  <2>2. runs[c] \in IDsForRef(NewRef[r], NewRef[r] \notin lost)
    BY <1>3, <1>5, <2>1 DEF Explicit
  <2> QED BY <2>2 DEF IDsForRef
<1>6. ASSUME NEW r \in updated, NEW c \in up, runs[c] \in oldIDs[r]
      PROVE  runs[c] = local[NewRef[r]] \/ newRef'[c] = NewRef[r]
  <2>1. c \in Containers /\ Match(c, blind) = NewRef[r]
    BY <1>0, <1>6, MatchesItsUpdate DEF TypeOK
  <2> QED BY <1>2, <1>5, <2>1
<1>7. ASSUME NEW r \in updated, NEW c \in up, newRef'[c] \notin {NoRef, ByID}, local[newRef'[c]] \in oldIDs[r]
      PROVE  local[newRef'[c]] = local[NewRef[r]]
  <2> DEFINE x == newRef'[c]
  <2>0. c \in Containers /\ r \in Records
    BY <1>0 DEF TypeOK
  <2>1. x \in Refs
    BY <1>0, <1>7, <2>0, ScanFacts DEF Inv
  <2>2. OldRef[r] = x
    BY <1>0, <1>7, <2>0, <2>1, OldReferenceTells
  <2>3. CASE c \in explicit
    <3>1. x = Match(c, blind) /\ Match(c, blind) # NoRef
      BY <1>2, <1>7, <2>0, <2>3
    <3>2. PICK s \in updated : NewRef[s] = x
      BY <1>0, <2>0, <3>1, MatchIsUpdate DEF Inv
    <3>3. s = r
      BY <1>0, <2>0, <2>2, <3>2 DEF SeparateRecords, TypeOK
    <3> QED BY <3>2, <3>3
  <2>4. CASE c \notin explicit
    <3>1. x = ref[c]
      BY <1>2, <1>7, <2>0, <2>4
    <3>2. CASE NewRef[r] = OldRef[r]
      BY <2>2, <3>2
    <3>3. CASE NewRef[r] # OldRef[r]
      <4>1. ListedByRef(c)
        BY <2>0, <2>2, <3>1, <3>3 DEF KeepsInv, LeftTagsStand
      <4>2. Match(c, blind) = NewRef[r]
        BY <2>0, <2>2, <3>1, <4>1, MatchesItsUpdate
      <4>3. runs[c] = local[NewRef[r]] /\ runs[c] = local[x]
        BY <1>5, <2>4, <3>1, <4>1, <4>2 DEF ListedByRef
      <4> QED BY <4>3
    <3> QED BY <3>2, <3>3
  <2> QED BY <2>3, <2>4
<1> QED BY <1>4, <1>6, <1>7 DEF RestartsGoOn

(* A container that is created again from the reference it has: it gets an *)
(* image of an update only when it had that one, or it is the new image.   *)
LEMMA FromItsReference ==
  ASSUME OwnImages, TypeOK, InPlace, LeftTagsStand, NEW r \in Records, NEW c \in Containers,
         ref[c] # ByID, local[ref[c]] \in oldIDs[r]
  PROVE  local[ref[c]] = local[NewRef[r]] \/ local[ref[c]] = runs[c]
<1>1. ref[c] \in Refs
  BY DEF TypeOK
<1>2. OldRef[r] = ref[c]
  BY <1>1, OldReferenceTells
<1> QED BY <1>2 DEF LeftTagsStand, ListedByRef

LEMMA RestartGoesOn ==
  ASSUME OwnImages, SeparateRecords, Inv, InPlace, KeepsInv, NEW c \in Containers, Restart(c) PROVE RestartsGoOn'
<1>0. TypeOK /\ phase = "restart" /\ newRef[c] # NoRef /\ UNCHANGED <<local, updated, oldIDs>>
  BY DEF Inv, Restart, plans
<1>1. \A d \in Containers : newRef'[d] = IF d = c THEN NoRef ELSE newRef[d]
  BY <1>0 DEF Restart, TypeOK
<1>2. failedRefs \subseteq failedRefs' /\ up' \subseteq up
  BY <1>0, RestartEffect DEF Inv
<1>3. \A d \in Containers \ {c} : runs'[d] = runs[d] /\ handed'[d] = handed[d]
  BY <1>0, RestartEffect DEF Inv
<1>4. ASSUME NEW r \in updated, runs'[c] = runs[c], newRef[c] = NewRef[r]
      PROVE  NewRef[r] \in failedRefs' \/ runs'[c] = local[NewRef[r]] \/ handed'[c] = NewRef[r]
  <2>1. NewRef[r] \in Refs /\ NewRef[r] # ByID
    BY <1>0, NewRefTyped, SentinelsAreOthers DEF TypeOK
  <2>2. CASE Fails(c)
    BY <1>4, <2>1, <2>2 DEF Fails
  <2>3. CASE Recreated(c, newRef[c])
    BY <1>0, <1>4, <2>1, <2>3 DEF Recreated, TypeOK
  <2>4. CASE handed' = [handed EXCEPT ![c] = newRef[c]]
    BY <1>0, <1>4, <2>4 DEF TypeOK
  <2> QED BY <1>4, <2>2, <2>3, <2>4 DEF Restart, RestartStandalone, RestartService, Trigger, SeparateRecords
<1>5. ASSUME NEW r \in updated, c \in up, runs'[c] \in oldIDs[r], runs'[c] = runs[c]
      PROVE  runs'[c] = local[NewRef[r]] \/ handed'[c] = NewRef[r] \/ NewRef[r] \in failedRefs'
  <2>1. runs[c] = local[NewRef[r]] \/ newRef[c] = NewRef[r] \/ NewRef[r] \in failedRefs
    BY <1>0, <1>5 DEF KeepsInv, RestartsGoOn
  <2> QED BY <1>2, <1>4, <1>5, <2>1
<1>6. ASSUME NEW r \in updated, NEW d \in up', runs'[d] \in oldIDs[r]
      PROVE  \/ runs'[d] = local[NewRef[r]]
             \/ newRef'[d] = NewRef[r]
             \/ newRef'[d] = NoRef /\ handed'[d] = NewRef[r]
             \/ NewRef[r] \in failedRefs'
  <2>0. d \in up /\ d \in Containers /\ r \in Records
    BY <1>0, <1>2 DEF TypeOK
  <2>1. CASE d # c
    BY <1>0, <1>1, <1>2, <1>3, <1>6, <2>0, <2>1 DEF KeepsInv, RestartsGoOn
  <2>2. CASE d = c /\ newRef[c] # ByID /\ runs'[c] = local[newRef[c]]
    BY <1>0, <1>6, <2>0, <2>2 DEF KeepsInv, RestartsGoOn
  <2>3. CASE d = c /\ runs'[c] = runs[c]
    BY <1>1, <1>5, <1>6, <2>0, <2>3
  <2>4. CASE d = c /\ ref[c] # ByID /\ runs'[c] = local[ref[c]]
    <3>1. runs'[c] = local[NewRef[r]] \/ runs'[c] = runs[c]
      BY <1>0, <1>6, <2>0, <2>4, FromItsReference DEF KeepsInv
    <3> QED BY <2>3, <2>4, <3>1
  <2> QED BY <1>0, <2>1, <2>2, <2>3, <2>4, RestartEffect DEF Inv
<1>7. ASSUME NEW r \in updated, NEW d \in up', newRef'[d] \notin {NoRef, ByID}, local[newRef'[d]] \in oldIDs[r]
      PROVE  local[newRef'[d]] = local[NewRef[r]]
  <2>0. d \in up /\ d \in Containers /\ newRef'[d] = newRef[d]
    BY <1>0, <1>1, <1>2, <1>7 DEF TypeOK
  <2> QED BY <1>0, <1>7, <2>0 DEF KeepsInv, RestartsGoOn
<1> QED BY <1>0, <1>6, <1>7 DEF RestartsGoOn

LEMMA SelfUpdateGoesOn ==
  ASSUME OwnImages, SeparateRecords, Inv, InPlace, HandedIsRight, KeepsInv, NEW c \in Containers, SelfUpdate(c)
  PROVE  RestartsGoOn'
<1>0. TypeOK /\ newRef[c] = NoRef /\ handed[c] # NoRef
      /\ UNCHANGED <<local, up, phase, updated, oldIDs, newRef, failedRefs>>
  BY SelfUpdateEffect DEF Inv, plans, restarts
<1>1. \A d \in Containers \ {c} : runs'[d] = runs[d] /\ handed'[d] = handed[d]
  BY <1>0, SelfUpdateEffect
<1>2. runs'[c] = IF handed[c] = ByID THEN runs[c] ELSE local[handed[c]]
  BY <1>0, SelfUpdateEffect
<1>3. ASSUME phase \in {"restart", "clear"}, NEW r \in updated, c \in up, runs'[c] \in oldIDs[r]
      PROVE  runs'[c] = local[NewRef[r]] \/ NewRef[r] \in failedRefs
  <2>0. r \in Records /\ NewRef[r] \in Refs
    BY <1>0, NewRefTyped DEF TypeOK
  <2>1. ASSUME runs[c] \in oldIDs[r]
        PROVE  runs[c] = local[NewRef[r]] \/ handed[c] = NewRef[r] \/ NewRef[r] \in failedRefs
    BY <1>0, <1>3, <2>0, <2>1, SentinelsAreOthers DEF KeepsInv, RestartsGoOn
  <2>2. CASE handed[c] = ByID
    BY <1>2, <1>3, <2>0, <2>1, <2>2, SentinelsAreOthers
  <2>3. CASE handed[c] = ref[c] /\ handed[c] # ByID
    <3>1. runs'[c] = local[NewRef[r]] \/ runs'[c] = runs[c]
      BY <1>0, <1>2, <1>3, <2>0, <2>3, FromItsReference DEF KeepsInv
    <3> QED BY <1>2, <1>3, <2>1, <2>3, <3>1
  <2>4. CASE handed[c] # ref[c] /\ handed[c] # ByID
    <3>1. PICK s \in Records : NewRef[s] = handed[c]
      BY <1>0, <2>4 DEF HandedIsRight
    <3>2. handed[c] \in Refs /\ local[handed[c]] \in oldIDs[r]
      BY <1>0, <1>2, <1>3, <2>4 DEF TypeOK
    <3>3. OldRef[r] = handed[c]
      BY <1>0, <2>0, <3>2, OldReferenceTells
    <3>4. s = r
      BY <2>0, <3>1, <3>3 DEF SeparateRecords
    <3> QED BY <1>2, <2>4, <3>1, <3>4
  <2> QED BY <2>2, <2>3, <2>4
<1>4. ASSUME phase \in {"restart", "clear"}, NEW r \in updated, NEW d \in up, runs'[d] \in oldIDs[r]
      PROVE  \/ runs'[d] = local[NewRef[r]]
             \/ newRef'[d] = NewRef[r]
             \/ newRef'[d] = NoRef /\ handed'[d] = NewRef[r]
             \/ NewRef[r] \in failedRefs
  <2>1. d \in Containers
    BY <1>0 DEF TypeOK
  <2>2. CASE d # c
    BY <1>0, <1>1, <1>4, <2>1, <2>2 DEF KeepsInv, RestartsGoOn
  <2> QED BY <1>3, <1>4, <2>2
<1>5. ASSUME phase \in {"restart", "clear"}, NEW r \in updated, NEW d \in up, newRef[d] \notin {NoRef, ByID},
             local[newRef[d]] \in oldIDs[r]
      PROVE  local[newRef[d]] = local[NewRef[r]]
  BY <1>5 DEF KeepsInv, RestartsGoOn
<1> QED BY <1>0, <1>4, <1>5 DEF RestartsGoOn

LEMMA RestartsGoOnKept ==
  ASSUME OwnImages, SeparateRecords, Inv, InPlace, HandedIsRight, KeepsInv, [Next]_vars PROVE RestartsGoOn'
<1>0. TypeOK
  BY DEF Inv
<1>1. ASSUME phase' \notin {"restart", "clear"} PROVE RestartsGoOn'
  BY <1>1 DEF RestartsGoOn
<1>2. ASSUME UNCHANGED <<phase, local, runs, up, handed, updated, oldIDs, newRef, failedRefs>> PROVE RestartsGoOn'
  BY <1>2 DEF KeepsInv, RestartsGoOn
<1>3. ASSUME NEW m \in Modes, Begin(m) PROVE RestartsGoOn'
  BY <1>1, <1>3 DEF Begin
<1>4. ASSUME NEW r \in Records, Skip(r) \/ StartPull(r) \/ PullFails(r) \/ Pull(r) PROVE RestartsGoOn'
  BY <1>1, <1>4 DEF Skip, StartPull, PullFails, Pull
<1>5. ASSUME NEW r \in Records, Clear(r) PROVE RestartsGoOn'
  BY <1>2, <1>5 DEF Clear, daemon, plans, restarts
<1>6. CASE EndRestarts
  <2>1. UNCHANGED <<local, runs, up, handed, updated, oldIDs, newRef, failedRefs>>
    BY <1>6 DEF EndRestarts, world, daemon, plans, restarts
  <2>2. phase = "restart" \/ updated = {}
    BY <1>6 DEF EndRestarts
  <2> QED BY <2>1, <2>2 DEF KeepsInv, RestartsGoOn
<1>7. CASE ScanFails \/ End \/ Crash
  BY <1>1, <1>7 DEF ScanFails, End, Crash, Idle
<1>8. ASSUME NEW x \in Refs, Publish(x) PROVE RestartsGoOn'
  BY <1>2, <1>8 DEF Publish, daemon, plans, restarts
<1>9. ASSUME NEW r \in Records, Detect(r) PROVE RestartsGoOn'
  BY <1>2, <1>9 DEF Detect, daemon, plans, restarts
<1>10. CASE UNCHANGED vars
  BY <1>2, <1>10 DEF vars, world, daemon, plans, restarts
<1> QED BY <1>3, <1>4, <1>5, <1>6, <1>7, <1>8, <1>9, <1>10, StepCases, ScanGoesOn, RestartGoesOn, SelfUpdateGoesOn

(* A record that goes leaves no container behind that still runs an image  *)
(* its update replaced, but those handed over (markRestartFailedPlans): for*)
(* any faults but those of late inspections, if records do not get into    *)
(* each other's way.                                                       *)
THEOREM FailedRestartKeepsRecordHolds ==
  ASSUME OwnImages, SeparateRecords PROVE Spec => FailedRestartKeepsRecord
<1> DEFINE Good == \A r \in updated \cap (pending \ pending'), c \in up :
                     runs[c] \in oldIDs[r] => runs[c] = local[NewRef[r]] \/ handed[c] = NewRef[r]
           All  == Inv /\ InPlace /\ HandedIsRight /\ KeepsInv
<1>1. KeepsInv /\ Inv /\ InPlace /\ HandedIsRight /\ [Next]_vars => KeepsInv'
  BY UpdatesAreMappedKept, LeftTagsStandKept, ListIsUsedUpKept, RestartsGoOnKept DEF KeepsInv
<1>2. ASSUME All, [Next]_vars, NEW r \in updated \cap (pending \ pending'), NEW c \in up, runs[c] \in oldIDs[r]
      PROVE  runs[c] = local[NewRef[r]] \/ handed[c] = NewRef[r]
  <2>1. r \in toClear
    BY <1>2, StepCases DEF Begin, Skip, StartPull, PullFails, Pull, Clear, Restart, Scan, ScanFails, EndRestarts,
                           End, Crash, Publish, Detect, SelfUpdate, world, vars
  <2>2. phase = "clear" /\ NewRef[r] \notin failedRefs
    BY <1>2, <2>1 DEF KeepsInv, ListIsUsedUp
  <2>3. newRef[c] = NoRef /\ NewRef[r] # NoRef
    BY <1>2, <2>2, NewRefTyped, SentinelsAreOthers DEF KeepsInv, ListIsUsedUp, Inv, TypeOK
  <2> QED BY <1>2, <2>2, <2>3 DEF KeepsInv, RestartsGoOn
<1>3. All /\ [Next]_vars => [Good]_vars
  BY <1>2
<1>4. Spec => []All
  BY <1>1, KeepsBegin, InvHolds, InPlaceHolds, PTL DEF Spec
<1>5. FailedRestartKeepsRecord <=> [][Good]_vars
  BY DEF FailedRestartKeepsRecord
<1> QED BY <1>3, <1>4, <1>5, PTL DEF Spec
=============================================================================
