---------------------------- MODULE MCRestartPass ----------------------------
(* Model checking of RestartPass: small orders, projects and roles.        *)
EXTENDS RestartPass, TLC

CONSTANTS web, cache, db, shop, blog

ThreeInOrder == <<db, cache, web>>
TwoInOrder == <<db, web>>
OneProject == {shop}
TwoProjects == {shop, blog}
AllLabelled == {"normal", "agent", "server"}
WithOwn == {"normal", "own"}
Normal == {"normal"}
ProjectSymmetry == Permutations(Projects)
ExplicitOrImplicit == {"explicit", "implicit"}
AllPlans == {"explicit", "retagged", "implicit", "none"}
=============================================================================
