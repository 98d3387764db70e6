---------------------------- MODULE MCMpmcQueue ----------------------------
(* Instances of MpmcQueue for TLC. *)
EXTENDS MpmcQueue, TLC

CONSTANTS p1, p2, c1, c2, m1, m2

TwoProducers == {p1, p2}
TwoConsumers == {c1, c2}
TwoValues    == {m1, m2}
AliveThreads == {p1, c1}
=============================================================================
