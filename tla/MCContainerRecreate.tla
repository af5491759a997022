------------------------- MODULE MCContainerRecreate -------------------------
(* Model checking of ContainerRecreate: the sets of faults of each run.    *)
EXTENDS ContainerRecreate, TLC

CONSTANTS r1, r2, r3

ThreeRuns == {r1, r2, r3}
Running == {"running"}
RunningOrStopped == {"running", "stopped"}
RunSymmetry == Permutations(Runs)

AllFaults == (Calls \X Kinds) \cup {<<"context", "cancel">>, <<"process", "crash">>}
=============================================================================
