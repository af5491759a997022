--------------------------- MODULE MCApplyPending ---------------------------
(* Model checking of ApplyPending: a few references, images and records.   *)
EXTENDS ApplyPending, TLC

CONSTANTS app1, app2, db,            \* references
          a1, a2, b1, b2, d1, d2,    \* images
          c1, c2, c3,                \* containers
          same, next, dbs            \* records: app:1, app:1 -> app:2, db

TwoRefs == {app1, db}
TagRefs == {app1, app2, db}
AllImages == {a1, a2, b1, b2, d1, d2}
TwoContainers == {c1, c2}
ThreeContainers == {c1, c2, c3}
Services == {c1}
Targeted == {c3}
SomeDependents == {c1, c2}
SameAndDb == {same, dbs}
NextAndDb == {next, dbs}
Normal == {"normal"}
AllModes == {"normal", "force", "dry"}

Old == [r \in Records |-> IF r = dbs THEN db ELSE app1]
Tags == [r \in Records |-> IF r = next THEN app2 ELSE NoRef]
NoIDs == [r \in Records |-> NoImage]
FirstIDs == [r \in Records |-> IF r = dbs THEN d1 ELSE a1]

(* Each reference has images of its own.                                   *)
Own == [x \in Refs |-> CASE x = app1 -> {a1, a2} [] x = app2 -> {b1, b2} [] x = db -> {d1, d2}]
=============================================================================
