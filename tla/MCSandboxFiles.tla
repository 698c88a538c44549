---------------------------- MODULE MCSandboxFiles ----------------------------
(* SandboxFiles with two saves of one file, by name.                       *)
EXTENDS SandboxFiles

CONSTANTS s1, s2
=============================================================================
