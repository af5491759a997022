--------------------------- MODULE MCRestartOrder ----------------------------
(* Model checking of RestartOrder: every acyclic dependency relation among *)
(* three containers (they have three dependencies at most), and those with *)
(* cycles and self-dependencies that have up to four.                      *)
EXTENDS RestartOrder, FiniteSets, TLC

CONSTANTS web, cache, db

ThreeContainers == <<db, cache, web>>
SmallGraphs ==
  {g \in [Names -> SUBSET Names] :
     Cardinality(g[web]) + Cardinality(g[cache]) + Cardinality(g[db]) <= 4}
AnySet == SUBSET Names
AllRoles == {"normal", "agent", "server"}
=============================================================================
