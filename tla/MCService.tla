------------------------------- MODULE MCService -------------------------------
(***************************************************************************)
(* What the apps ask for: prompts in a chat, answers to the prompts of     *)
(* Hermes, files of the sandbox to edit, and settings; each on its own     *)
(* small instance: `part' says which one a behaviour is about.             *)
(***************************************************************************)
EXTENDS ChatPrompts, PromptAnswers, SandboxFiles, RuntimeConfig, TLC

CONSTANTS a1, f1, f2, s1, s2, r1, r2

VARIABLE part

Init ==
  /\ part \in {"chat", "answers", "sandbox", "config"}
  /\ PromptInit /\ PromptsInit /\ SandboxInit /\ ConfigInit
  /\ part # "sandbox" => direct

serviceVars == <<part, chatVars, promptVars, sandboxVars, configVars>>

(* Bound: a behaviour has a compaction or a restart, not both.             *)
OneTrouble == stops = 0 \/ \A i \in DOMAIN log : log[i] # Summary

Next ==
  \/ /\ part = "chat" /\ PromptNext /\ OneTrouble'
     /\ UNCHANGED <<part, promptVars, sandboxVars, configVars>>
  \/ /\ part = "answers" /\ PromptsNext
     /\ UNCHANGED <<part, chatVars, sandboxVars, configVars>>
  \/ /\ part = "sandbox" /\ SandboxNext
     /\ UNCHANGED <<part, chatVars, promptVars, configVars>>
  \/ /\ part = "config" /\ ConfigNext
     /\ UNCHANGED <<part, chatVars, promptVars, sandboxVars>>

Spec == Init /\ [][Next]_serviceVars

-----------------------------------------------------------------------------
TwoSettings == {"voice", "model"}
Sets(k, v) == [values |-> [n \in {k} |-> v], reset |-> {}, delete |-> FALSE]
SomeBodies ==
  {Sets("voice", "new"), Sets("other", "new"), Sets("model", "bad"),
   [values |-> Empty, reset |-> {"model"}, delete |-> TRUE],
   [values |-> [n \in {"model"} |-> "new"], reset |-> {"model"}, delete |-> FALSE]}
OneEdit ==
  {[n \in TwoSettings \cup {"other"} |-> IF n = "voice" THEN "bad" ELSE "old"]}

Sym == Permutations(ForeignPrompts) \cup Permutations(Savers) \cup Permutations(Apps)
=============================================================================
