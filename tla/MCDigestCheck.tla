---------------------------- MODULE MCDigestCheck ----------------------------
(* Model checking of DigestCheck: one call, since others act on it as the  *)
(* environment does; two manifests of one image and one of another.        *)
EXTENDS DigestCheck, TLC

CONSTANTS only, a1, a2, b1, a, b

OneCall == {only}
ThreeDigests == {a1, a2, b1}
TwoImages == {a, b}
Stands == a1 :> a @@ a2 :> a @@ b1 :> b
AllKinds == {"check", "known", "pull"}
AllAccesses == {"open", "basic", "token", "private"}
AllLogins == {"none", "wrong", "right", "identity"}
=============================================================================
