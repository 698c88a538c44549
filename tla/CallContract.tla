---------------------------- MODULE CallContract ----------------------------
(***************************************************************************)
(* What a route may tell an app about a call to Hermes (a prompt, an       *)
(* interrupt, a compression), without connections, handles or retries: it  *)
(* is done at most once, "done" is said only of a call that was done, and  *)
(* a call that was given up may have been done all the same.               *)
(***************************************************************************)
EXTENDS Naturals

CONSTANTS Calls

VARIABLES
  outcome,  \* what the app has been told of each call
  times     \* how often Hermes has acted on it

vars == <<outcome, times>>

Init ==
  /\ outcome = [c \in Calls |-> "idle"]
  /\ times = [c \in Calls |-> 0]

Ask(c) ==
  /\ outcome[c] # "asked"
  /\ outcome' = [outcome EXCEPT ![c] = "asked"]
  /\ times' = [times EXCEPT ![c] = 0]

(* Hermes acts on a call it has not acted on; nobody may have been told    *)
(* that it did.                                                            *)
Act(c) ==
  /\ outcome[c] \in {"asked", "failed"}
  /\ times[c] = 0
  /\ times' = [times EXCEPT ![c] = 1]
  /\ UNCHANGED outcome

Confirm(c) ==
  /\ outcome[c] = "asked"
  /\ times[c] = 1
  /\ outcome' = [outcome EXCEPT ![c] = "done"]
  /\ UNCHANGED times

GiveUp(c) ==
  /\ outcome[c] = "asked"
  /\ outcome' = [outcome EXCEPT ![c] = "failed"]
  /\ UNCHANGED times

Next == \E c \in Calls : Ask(c) \/ Act(c) \/ Confirm(c) \/ GiveUp(c)

Spec == Init /\ [][Next]_vars
=============================================================================
