---------------------------- MODULE StatusReader -----------------------------
(***************************************************************************)
(* Status of status.go beside the updates it reports: StatusTracking with  *)
(* a reader that loads the two pointers one after the other, while begins  *)
(* and ends go on between the two loads.  Reads change nothing, so that    *)
(* one reader stands for any number of them.                               *)
(***************************************************************************)
EXTENDS StatusTracking

VARIABLES
  reader,         \* what a call of Status has loaded so far, and where it is
  throughout,     \* the workers that have been updating since it began
  meanwhile       \* the ids of the updates it has met

readerVars == <<reader, throughout, meanwhile>>
allVars    == <<vars, readerVars>>

Reader == [pc : {"idle", "between", "returned"}, containers : SUBSET Ids, projects : SUBSET Ids]

ReaderTypeOK ==
  /\ TypeOK
  /\ reader \in Reader
  /\ throughout \subseteq Workers /\ meanwhile \subseteq Ids

NoCall    == [pc |-> "idle", containers |-> {}, projects |-> {}]
Updating  == {w \in Workers : stage[w] = "updating"}
UnderWay  == {id \in Ids : \E w \in Workers : stage[w] # "idle" /\ id \in {work[w].container, work[w].project}}

ReaderInit ==
  /\ Init
  /\ reader = NoCall /\ throughout = {} /\ meanwhile = {}

(* A step of the updates, and what of it a call of Status can tell.  What  *)
(* a call has returned is forgotten.                                       *)
Track ==
  /\ Next
  /\ IF reader.pc = "between"
     THEN /\ throughout' = throughout \cap Updating'
          /\ meanwhile' = meanwhile \cup UnderWay'
          /\ UNCHANGED reader
     ELSE throughout' = {} /\ meanwhile' = {} /\ reader' = NoCall

(* Wrong on purpose: what was loaded when the service was made.            *)
ReadContainersOnce ==
  /\ reader.pc = "idle"
  /\ reader' = [reader EXCEPT !.pc = "between"]
  /\ throughout' = Updating /\ meanwhile' = UnderWay
  /\ UNCHANGED vars

(* The first statusSnapshot of a call ...                                  *)
ReadContainers ==
  /\ reader.pc = "idle"
  /\ reader' = [reader EXCEPT !.pc = "between", !.containers = active["containers"].ids]
  /\ throughout' = Updating /\ meanwhile' = UnderWay
  /\ UNCHANGED vars

(* ... and the second one.                                                 *)
ReadProjects ==
  /\ reader.pc = "between"
  /\ reader' = [reader EXCEPT !.pc = "returned", !.projects = active["projects"].ids]
  /\ UNCHANGED <<vars, throughout, meanwhile>>

ReaderNext == Track \/ ReadContainers \/ ReadProjects
ReaderSpec == ReaderInit /\ [][ReaderNext]_allVars
FairReaderSpec == ReaderSpec /\ Fairness

-----------------------------------------------------------------------------
(* A Status tells what is going on, although it is not of one moment: it   *)
(* has every container (of workers with containers of their own) whose     *)
(* update was under way all through the call, and no container or project  *)
(* whose update was over before the call, or began after it.               *)
StatusIsCurrent ==
  reader.pc = "returned" =>
    /\ \A w \in throughout : work[w].container \in reader.containers
    /\ reader.containers \cup reader.projects \subseteq meanwhile
=============================================================================
