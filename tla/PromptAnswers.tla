------------------------------ MODULE PromptAnswers ------------------------------
(***************************************************************************)
(* Answering what Hermes asks a person in the middle of a turn, and        *)
(* stopping the turn (gateway/api/prompts.py): approvals, which go through *)
(* the session's live handle, and clarify, sudo and secret prompts, which  *)
(* go by the prompt's id alone.  Several apps may answer one prompt, it    *)
(* may expire or be superseded while its card is still on a screen, and    *)
(* the connection may close before the request or before its reply.        *)
(* Recording the resolution is RunRecorder's Answer.                       *)
(***************************************************************************)
EXTENDS Naturals, FiniteSets

CONSTANTS
  Approvals,       (* prompts that ask to permit a command                 *)
  Questions,       (* clarify, sudo and secret prompts                     *)
  Choices,         (* APPROVAL_CHOICES: "once", "deny", ...                *)
  Apps,            (* one answer each                                      *)
  MaxDrops                                                 (* bound        *)

ASSUME ChoicesAssumption == {"once", "deny"} \subseteq Choices
ASSUME PromptsAssumption == Approvals \cap Questions = {}

Prompts == Approvals \cup Questions
NotAsked == [is |-> "not asked"]
Waiting == [is |-> "waiting"]
Moved == [is |-> "moved on"]
AnsweredBy(r, a) == [is |-> "answered", by |-> r, answer |-> a]
(* The bodies an app may send.  For an approval a choice, the older        *)
(* boolean, both, neither, or a choice Hermes does not know; otherwise one *)
(* text (a password, a secret), a batch of them by question, or both,      *)
(* neither, or a blank somewhere among them.                               *)
ApprovalBodies ==
  [choice : Choices \cup {"none", "unknown"}, approved : {"none", "yes", "no"}]
TextBodies == [text : {"none", "told", "blank"}, batch : {"none", "told", "blank"}]

VARIABLES
  prompt,    \* what Hermes knows of each prompt
  answering,     \* what each app's request is about, and in the end its outcome
  drops
promptVars == <<prompt, answering, drops>>

PromptsInit ==
  /\ prompt = [p \in Prompts |-> NotAsked]
  /\ answering = [r \in Apps |-> [at |-> "idle"]]
  /\ drops = 0

-----------------------------------------------------------------------------
(* Hermes.                                                                 *)

AsksPerson(p) ==
  /\ prompt[p] = NotAsked
  /\ prompt' = [prompt EXCEPT ![p] = Waiting]
  /\ UNCHANGED <<answering, drops>>

(* It times out, a newer one takes its place, or the turn is interrupted.  *)
MovesOn(p) ==
  /\ prompt[p] = Waiting
  /\ prompt' = [prompt EXCEPT ![p] = Moved]
  /\ UNCHANGED <<answering, drops>>

(* interrupt_session: every prompt of the turn is over.                    *)
Interrupts ==
  /\ \E p \in Prompts : prompt[p] = Waiting
  /\ prompt' = [p \in Prompts |-> IF prompt[p] = Waiting THEN Moved ELSE prompt[p]]
  /\ UNCHANGED <<answering, drops>>

-----------------------------------------------------------------------------
(* The routes.                                                             *)

(* Exactly one of the two forms, and a choice Hermes knows: it takes any   *)
(* other for "deny".                                                       *)
WellFormed(body) ==
  /\ (body.choice = "none") # (body.approved = "none")
  /\ body.choice \in Choices \cup {"none"}
ResolvedChoice(body) ==
  IF body.choice # "none" THEN body.choice
  ELSE IF body.approved = "yes" THEN "once" ELSE "deny"

Requests(r, p, meant, answer) ==
  /\ answering[r].at = "idle" /\ prompt[p] # NotAsked
  /\ answering' = [answering EXCEPT ![r] =
       [at |-> "send", prompt |-> p, meant |-> meant, answer |-> answer, tries |-> 1,
        result |-> "none"]]
  /\ UNCHANGED <<prompt, drops>>

Approves(r) == \E p \in Approvals, body \in ApprovalBodies :
  /\ WellFormed(body)
  /\ Requests(r, p, body, ResolvedChoice(body))
(* Exactly one of the two forms, and nothing blank in it.                  *)
TellsSomething(body) ==
  /\ (body.text = "none") # (body.batch = "none")
  /\ "blank" \notin {body.text, body.batch}
TextOf(body) == IF body.text # "none" THEN body.text ELSE body.batch
AnswersText(r) == \E p \in Questions, body \in TextBodies :
  /\ TellsSomething(body)
  /\ Requests(r, p, body, TextOf(body))

Told(r, status) == answering' = [answering EXCEPT ![r] =
  [at |-> "told", status |-> status, prompt |-> answering[r].prompt, meant |-> answering[r].meant]]

(* The frame goes out.                                                     *)
Sends(r) ==
  /\ answering[r].at = "send"
  /\ answering' = [answering EXCEPT ![r].at = "sent"]
  /\ UNCHANGED <<prompt, drops>>

(* The socket was dead, or the live handle no longer known: Hermes never   *)
(* took the request, and it is tried once more.                            *)
NotTaken(r) ==
  /\ answering[r].at = "send"
  /\ drops < MaxDrops /\ drops' = drops + 1
  /\ IF answering[r].tries = 1 THEN answering' = [answering EXCEPT ![r].tries = 2]
     ELSE Told(r, 502)
  /\ UNCHANGED prompt

(* Hermes takes it: the first answer to a waiting prompt counts.           *)
Taken(r) ==
  /\ answering[r].at = "sent"
  /\ LET p == answering[r].prompt
         first == prompt[p] = Waiting IN
       /\ prompt' = IF first
                    THEN [prompt EXCEPT ![p] = AnsweredBy(r, answering[r].answer)] ELSE prompt
       /\ answering' = [answering EXCEPT ![r].at = "replied",
                                 ![r].result = IF first THEN "ok" ELSE "expired"]
  /\ UNCHANGED drops

(* The connection closes, or the call times out, before the reply: it is   *)
(* not sent again.                                                         *)
AfterLossAgain(r) ==
  IF answering[r].tries = 1
  THEN answering' = [answering EXCEPT ![r].at = "send", ![r].tries = 2]
  ELSE Told(r, 502)
AfterLoss(r) == Told(r, 502)
ReplyLost(r) ==
  /\ answering[r].at \in {"sent", "replied"}
  /\ drops < MaxDrops /\ drops' = drops + 1
  /\ AfterLoss(r)
  /\ UNCHANGED prompt

(* _respond_status, and `resolved` of an approval: ok, 409, or a reply the *)
(* gateway cannot read, which is reported as neither.                      *)
StatusOf(result) == IF result = "ok" THEN 200 ELSE 409
Replied(r) ==
  /\ answering[r].at = "replied"
  /\ Told(r, StatusOf(answering[r].result))
  /\ UNCHANGED <<prompt, drops>>
Unrecognized(r) ==
  /\ answering[r].at = "replied"
  /\ drops < MaxDrops /\ drops' = drops + 1
  /\ Told(r, 502)
  /\ UNCHANGED prompt

PromptsNext ==
  \/ Interrupts
  \/ \E p \in Prompts : AsksPerson(p) \/ MovesOn(p)
  \/ \E r \in Apps : \/ Approves(r) \/ AnswersText(r) \/ Sends(r) \/ NotTaken(r)
                     \/ Taken(r) \/ ReplyLost(r) \/ Replied(r) \/ Unrecognized(r)

PromptsSpec == PromptsInit /\ [][PromptsNext]_promptVars

-----------------------------------------------------------------------------
(* An app is told the truth: it is told that its answer counted only when  *)
(* the agent went on with that answer, and with what the person meant by   *)
(* it; and that it came too late only when it did not count and the prompt *)
(* is over, never for its own answer sent a second time (_already_resolved,*)
(* _with_reconnect).                                                       *)
Means(p, meant, answer) ==
  \/ p \in Questions /\ answer = "told"
  \/ p \in Approvals /\ \/ meant.choice = answer
                        \/ meant.approved = "yes" /\ answer = "once"
                        \/ meant.approved = "no" /\ answer = "deny"
AppsAreToldTheTruth ==
  \A r \in Apps : answering[r].at = "told" =>
    LET p == prompt[answering[r].prompt]
        counted == p.is = "answered" /\ p.by = r
    IN /\ answering[r].status = 200 =>
            counted /\ Means(answering[r].prompt, answering[r].meant, p.answer)
       /\ answering[r].status = 409 => p.is # "waiting" /\ ~counted
=============================================================================
