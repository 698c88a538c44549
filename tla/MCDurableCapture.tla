-------------------------- MODULE MCDurableCapture --------------------------
(* Instances of DurableCapture for TLC.                                    *)
EXTENDS DurableCapture

CONSTANTS h1, s1, s2
=============================================================================
