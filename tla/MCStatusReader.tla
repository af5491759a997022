--------------------------- MODULE MCStatusReader ---------------------------
(* Model checking of StatusTracking and StatusReader: two workers, each    *)
(* with a container of its own to update; they share a compose project.    *)
EXTENDS StatusReader, TLC

CONSTANTS w1, w2, c1, c2, p1

TwoWorkers == {w1, w2}
TwoContainers == {c1, c2}
OneProject == {p1}
OwnContainers == w1 :> {c1} @@ w2 :> {c2}
=============================================================================
