---------------------------- MODULE MCRingBuffer ----------------------------
(* Instances of RingBuffer for TLC. *)
EXTENDS RingBuffer, TLC

CONSTANTS a, b

TwoValues == {a, b}
=============================================================================
