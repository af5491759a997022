----------------------- MODULE MCDockerClientProvider ------------------------
(* Model checking of DockerClientProvider: three callers; a fourth call is *)
(* made by whoever returns first.                                          *)
EXTENDS DockerClientProvider, TLC

CONSTANTS a, b, c, k1, k2, k3

ThreeCallers == {a, b, c}
ThreeClients == {k1, k2, k3}
=============================================================================
