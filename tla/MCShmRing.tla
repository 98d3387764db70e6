----------------------------- MODULE MCShmRing -----------------------------
(* Instances of ShmRing for TLC. *)
EXTENDS ShmRing, TLC

CONSTANTS canReader, shmWriter, dashboard

OneWriter == {canReader}
TwoWriters == {canReader, shmWriter}
OneReader == {dashboard}

Alike == Permutations(TwoWriters)
=============================================================================
