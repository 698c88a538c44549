--------------------------- MODULE MCBackgroundLedger ---------------------------
(***************************************************************************)
(* What reaches the gateway beside the frames of its turns: completions of *)
(* background tasks, and the hooks of the host; each on its own small      *)
(* instance: `part' says which one a behaviour is about.                   *)
(***************************************************************************)
EXTENDS BackgroundLedger, HookCapture

CONSTANTS t1, t2, s1, s2

VARIABLE part

besideVars == <<part, vars, hookVars>>

BesideInit == part \in {"tasks", "hooks"} /\ Init /\ HookInit

OfTasks(A) == part = "tasks" /\ A /\ UNCHANGED <<part, hookVars>>
OfHooks(A) == part = "hooks" /\ A /\ UNCHANGED <<part, vars>>

BesideNext == OfTasks(Next) \/ OfHooks(HookNext)

(* The fairness of FairSpec and HookFair.                                  *)
BesideSpec ==
  /\ BesideInit /\ [][BesideNext]_besideVars
  /\ WF_besideVars(OfTasks(\E failed \in BOOLEAN : NoteGeneration(failed)))
  /\ WF_besideVars(OfTasks(\E failed \in BOOLEAN : StartRescue(failed)))
  /\ \A s \in Sessions : WF_besideVars(OfTasks(\E failed \in BOOLEAN : RescueSession(s, failed)))
  /\ WF_besideVars(OfHooks(DrainStep))
=============================================================================
