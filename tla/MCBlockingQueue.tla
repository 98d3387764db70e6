-------------------------- MODULE MCBlockingQueue --------------------------
(* Instances of BlockingQueue for TLC. *)
EXTENDS BlockingQueue, TLC

CONSTANTS p1, p2, c1, c2, s1, m1

TwoProducers == {p1, p2}
OneProducer  == {p1}
TwoConsumers == {c1, c2}
OneStopper   == {s1}
NoStopper    == {}
OneValue     == {m1}
=============================================================================
