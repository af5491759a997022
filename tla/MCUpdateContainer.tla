-------------------------- MODULE MCUpdateContainer --------------------------
(* Model checking of UpdateContainer: two calls, on one container or two,  *)
(* which run different tags of an image.                                   *)
EXTENDS UpdateContainer, TLC

CONSTANTS u, v, c1, c2, app1, app2, same, next

TwoCalls == {u, v}
CallSymmetry == Permutations(Calls)
TwoContainers == {c1, c2}
TwoTags == {app1, app2}
OneOfEach == c1 :> app1 @@ c2 :> app2
RoutesOfEach == c1 :> {"standalone", "compose", "none"} @@ c2 :> {"compose", "self"}
AllModes == {"normal", "force", "dry"}

(* An update of app:1, and one from app:1 to app:2.                        *)
TwoRecords == {same, next}
Old == [r \in Records |-> app1]
New == same :> app1 @@ next :> app2
=============================================================================
