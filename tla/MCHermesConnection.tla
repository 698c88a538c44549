------------------------- MODULE MCHermesConnection -------------------------
(* Instances of HermesConnection for TLC.  Calls, sessions and handles are *)
(* interchangeable, and no liveness property is checked, so symmetry is    *)
(* sound.                                                                  *)
EXTENDS HermesConnection, TLC

CONSTANTS c1, c2, s1, s2, h1, h2

Symmetry == Permutations(Calls) \cup Permutations(Sessions) \cup Permutations(Handles)
=============================================================================
