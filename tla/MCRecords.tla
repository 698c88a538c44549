------------------------------- MODULE MCRecords -------------------------------
(***************************************************************************)
(* What the gateway writes down of its sessions and reads again (the run   *)
(* ledger, the reasoning of the chat, the records a spoken question is     *)
(* answered from), and the settings of the profiles they run under; each   *)
(* on its own small instance: `part' says which one a behaviour is about.  *)
(***************************************************************************)
EXTENDS RunRecorder, Reasoning, Converse, ProfileAdmin, TLC

CONSTANTS s1, s2, q1, a1, a2, x, y

VARIABLE part

recordVars == <<part, vars, reasoningVars, converseVars, adminVars>>

RecordsInit ==
  /\ part \in {"runs", "reasoning", "converse", "admin"}
  /\ Init /\ ReasoningInit /\ ConverseInit /\ AdminInit

RecordsNext ==
  \/ /\ part = "runs" /\ Next
     /\ UNCHANGED <<part, reasoningVars, converseVars, adminVars>>
  \/ /\ part = "reasoning" /\ ReasoningNext
     /\ UNCHANGED <<part, vars, converseVars, adminVars>>
  \/ /\ part = "converse" /\ ConverseNext
     /\ UNCHANGED <<part, vars, reasoningVars, adminVars>>
  \/ /\ part = "admin" /\ AdminNext
     /\ UNCHANGED <<part, vars, reasoningVars, converseVars>>

RecordsSpec == RecordsInit /\ [][RecordsNext]_recordVars

-----------------------------------------------------------------------------
Recordings(kind, score, len) == [kind |-> kind, score |-> score, len |-> len]
SomeShapes ==
  {Recordings("message", 0, 1), Recordings("message", 2, 1), Recordings("run", 1, 1),
   Recordings("event", 2, 2), Recordings("event", 1, 1), Recordings("artifact", 1, 5),
   Recordings("chunk", 1, 2), Recordings("project", 0, 1)}
SomeReplies ==
  {[leads |-> {"ANSWER"}, sources |-> {1, 3}], [leads |-> {}, sources |-> {}],
   [leads |-> {"ANSWER", "NOANSWER"}, sources |-> {1}]}

Symmetry == Permutations(Sessions) \cup Permutations(Texts) \cup Permutations(Admins)
=============================================================================
