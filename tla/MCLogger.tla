------------------------------ MODULE MCLogger ------------------------------
(* Instances of Logger for TLC. *)
EXTENDS Logger, TLC

CONSTANTS p1, p2, f1, main, m1

ASSUME RolesAssumption == LoggerRoles

TwoThreads == {p1, p2}
OneFlusher == {f1}
OneMain    == {main}
OneMessage == {m1}
=============================================================================
