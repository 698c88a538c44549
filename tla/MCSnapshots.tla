---------------------------- MODULE MCSnapshots ----------------------------
(* Instances of Snapshots for TLC.                                         *)
EXTENDS Snapshots
=============================================================================
