----------------------------- MODULE ServiceProofs ----------------------------
(***************************************************************************)
(* Theorems about the routes that serve the app's requests: the answers to *)
(* prompts, the rows of the chat, the models of the profiles, the runtime  *)
(* configuration, the texts of the sandbox, and the answers to spoken      *)
(* questions.                                                              *)
(***************************************************************************)
EXTENDS PromptAnswers, ChatPrompts, ProfileAdmin, RuntimeConfig, SandboxFiles,
        Converse, FiniteSetTheorems, WellFoundedInduction, Integers, TLAPS

-----------------------------------------------------------------------------
(* PromptAnswers. For any apps, prompts and choices, and however often     *)
(* connections are lost: what an app is told of its answer is true.        *)

PromptBodies  == ApprovalBodies \cup TextBodies
Choosable == Choices \cup {"told"}
Underway    == {"send", "sent", "replied"}

PromptStates ==
  {NotAsked, Waiting, Moved} \cup {AnsweredBy(r, a) : r \in Apps, a \in Choosable}
Idle    == [at : {"idle"}]
OnItsWay ==
  [at : Underway, prompt : Prompts, meant : PromptBodies, answer : Choosable, tries : {1, 2},
   result : {"none", "ok", "expired"}]
ToldApp == [at : {"told"}, status : {200, 409, 502}, prompt : Prompts, meant : PromptBodies]

AnswerTypes ==
  /\ prompt \in [Prompts -> PromptStates]
  /\ answering \in [Apps -> Idle \cup OnItsWay \cup ToldApp]

Counted(r, p) == prompt[p].is = "answered" /\ prompt[p].by = r

(* An answer that Hermes has not taken counts nowhere; one it has taken    *)
(* counts for its prompt if the reply is ok, and else for none.            *)
Answering(r) ==
  LET a == answering[r] IN
  /\ a.at \in {"idle", "send", "sent"} => \A p \in Prompts : ~Counted(r, p)
  /\ a.at \in Underway => prompt[a.prompt] # NotAsked /\ Means(a.prompt, a.meant, a.answer)
  /\ a.at = "replied" /\ a.result = "ok" => prompt[a.prompt] = AnsweredBy(r, a.answer)
  /\ a.at = "replied" /\ a.result # "ok" =>
       prompt[a.prompt] \notin {NotAsked, Waiting} /\ ~Counted(r, a.prompt)
  /\ a.at = "told" =>
       /\ a.status = 200 =>
            Counted(r, a.prompt) /\ Means(a.prompt, a.meant, prompt[a.prompt].answer)
       /\ a.status = 409 => prompt[a.prompt] \notin {NotAsked, Waiting} /\ ~Counted(r, a.prompt)

AnswerIInv == AnswerTypes /\ \A r \in Apps : Answering(r)

(* What may happen to a prompt behind the back of app r.                   *)
Elapses(r, p) ==
  \/ prompt'[p] = prompt[p]
  \/ prompt[p] = NotAsked /\ prompt'[p] = Waiting
  \/ prompt[p] = Waiting /\ prompt'[p] = Moved
  \/ prompt[p] = Waiting /\ \E x \in Apps \ {r}, a \in Choosable : prompt'[p] = AnsweredBy(x, a)

(* A prompt's states are different, and an answered one says by whom.      *)
LEMMA States ==
  /\ NotAsked.is = "not asked" /\ Waiting.is = "waiting" /\ Moved.is = "moved on"
  /\ \A r, a : /\ AnsweredBy(r, a).is = "answered"
              /\ AnsweredBy(r, a).by = r /\ AnsweredBy(r, a).answer = a
  BY DEF NotAsked, Waiting, Moved, AnsweredBy

(* It holds at the start.                                                  *)
LEMMA InitIInv == PromptsInit => AnswerIInv
<1> SUFFICES ASSUME PromptsInit PROVE AnswerIInv
  OBVIOUS
<1>1. \A p \in Prompts : prompt[p] = NotAsked
  BY DEF PromptsInit
<1>2. \A r \in Apps : answering[r] = [at |-> "idle"]
  BY DEF PromptsInit
<1>3. AnswerTypes
  BY DEF PromptsInit, AnswerTypes, PromptStates, Idle, OnItsWay, ToldApp
<1>4. ASSUME NEW r \in Apps PROVE Answering(r)
  <2>1. answering[r].at = "idle"
    BY <1>2
  <2>2. \A p \in Prompts : ~Counted(r, p)
    BY <1>1, States DEF Counted
  <2> QED BY <2>1, <2>2 DEF Answering, Underway
<1> QED BY <1>3, <1>4 DEF AnswerIInv

(* An app whose request does not move keeps its part of the invariant.     *)
LEMMA OthersKeep ==
  ASSUME AnswerTypes, NEW r \in Apps, Answering(r), answering'[r] = answering[r],
         \A p \in Prompts : Elapses(r, p)
  PROVE  Answering(r)'
<1> DEFINE a == answering[r]
<1>1. a.at \in Underway \cup {"told"} => a.prompt \in Prompts
  BY DEF AnswerTypes, PromptStates, Idle, OnItsWay, ToldApp, Underway
<1>2. ASSUME NEW p \in Prompts PROVE Counted(r, p)' <=> Counted(r, p)
  <2>1. CASE prompt'[p] = prompt[p]
    BY <2>1 DEF Counted
  <2>2. CASE prompt[p] = NotAsked /\ prompt'[p] = Waiting
    BY <2>2, States DEF Counted
  <2>3. CASE prompt[p] = Waiting /\ prompt'[p] = Moved
    BY <2>3, States DEF Counted
  <2>4. ASSUME prompt[p] = Waiting, NEW x \in Apps \ {r}, NEW y \in Choosable,
               prompt'[p] = AnsweredBy(x, y)
        PROVE  Counted(r, p)' <=> Counted(r, p)
    <3>1. AnsweredBy(x, y).by = x
      BY States
    <3>2. Waiting.is # "answered"
      BY States
    <3> QED BY <2>4, <3>1, <3>2 DEF Counted
  <2> QED BY <2>1, <2>2, <2>3, <2>4 DEF Elapses
<1>3. ASSUME NEW p \in Prompts
      PROVE  /\ prompt[p] # NotAsked => prompt'[p] # NotAsked
             /\ prompt[p] \notin {NotAsked, Waiting} => prompt'[p] = prompt[p]
  <2>1. /\ NotAsked # Waiting /\ Moved # NotAsked /\ Waiting # Moved
        /\ \A x, y : AnsweredBy(x, y) # NotAsked
    BY States
  <2> QED BY <2>1 DEF Elapses
<1>4. \A p \in Prompts : Counted(r, p) => prompt'[p] = prompt[p]
  BY <1>3, States DEF Counted
<1>5. \A m, x : AnsweredBy(m, x) \notin {NotAsked, Waiting}
  BY States
<1>6. a' = a
  OBVIOUS
<1>7. (a.at \in {"idle", "send", "sent"} => \A p \in Prompts : ~Counted(r, p))'
  BY <1>2 DEF Answering
<1>8. (a.at \in Underway => prompt[a.prompt] # NotAsked /\ Means(a.prompt, a.meant, a.answer))'
  BY <1>1, <1>3 DEF Answering, Means
<1>9. (a.at = "replied" /\ a.result = "ok" => prompt[a.prompt] = AnsweredBy(r, a.answer))'
  BY <1>1, <1>3, <1>5 DEF Answering, Underway
<1>10. (a.at = "replied" /\ a.result # "ok" =>
          prompt[a.prompt] \notin {NotAsked, Waiting} /\ ~Counted(r, a.prompt))'
  BY <1>1, <1>2, <1>3 DEF Answering, Underway
<1>11. (a.at = "told" =>
          /\ a.status = 200 =>
               Counted(r, a.prompt) /\ Means(a.prompt, a.meant, prompt[a.prompt].answer)
          /\ a.status = 409 =>
               prompt[a.prompt] \notin {NotAsked, Waiting} /\ ~Counted(r, a.prompt))'
  BY <1>1, <1>2, <1>3, <1>4 DEF Answering, Means
<1> QED BY <1>7, <1>8, <1>9, <1>10, <1>11 DEF Answering

(* Hermes alone.                                                           *)
LEMMA PromptsPass ==
  ASSUME AnswerIInv, Interrupts \/ \E p \in Prompts : AsksPerson(p) \/ MovesOn(p)
  PROVE  AnswerIInv'
<1>1. answering' = answering /\ \A r \in Apps, p \in Prompts : Elapses(r, p)
  BY DEF AnswerIInv, AnswerTypes, PromptStates, Idle, OnItsWay, ToldApp, Interrupts, AsksPerson, MovesOn, Elapses
<1>2. AnswerTypes'
  BY <1>1 DEF AnswerIInv, AnswerTypes, PromptStates, Idle, OnItsWay, ToldApp, Interrupts, AsksPerson, MovesOn
<1> QED BY <1>1, <1>2, OthersKeep DEF AnswerIInv

(* A request comes in: what is sent is what the person meant.              *)
LEMMA RequestsKeep ==
  ASSUME AnswerIInv, NEW r \in Apps, Approves(r) \/ AnswersText(r)
  PROVE  AnswerIInv'
<1>1. PICK p \in Prompts, body \in PromptBodies, answer \in Choosable :
        Requests(r, p, body, answer) /\ Means(p, body, answer)
  <2>1. CASE Approves(r)
    <3>1. PICK p \in Approvals, body \in ApprovalBodies :
            WellFormed(body) /\ Requests(r, p, body, ResolvedChoice(body))
      BY <2>1 DEF Approves
    <3>2. ResolvedChoice(body) \in Choices
      BY <3>1, ChoicesAssumption DEF WellFormed, ResolvedChoice, ApprovalBodies
    <3>3. Means(p, body, ResolvedChoice(body))
      BY <3>1 DEF Means, WellFormed, ResolvedChoice, ApprovalBodies
    <3> QED BY <3>1, <3>2, <3>3 DEF Prompts, PromptBodies, Choosable
  <2>2. CASE AnswersText(r)
    <3>1. PICK p \in Questions, body \in TextBodies :
            TellsSomething(body) /\ Requests(r, p, body, TextOf(body))
      BY <2>2 DEF AnswersText
    <3>2. TextOf(body) = "told"
      BY <3>1 DEF TellsSomething, TextOf, TextBodies
    <3> QED BY <3>1, <3>2 DEF Prompts, PromptBodies, Choosable, Means
  <2> QED BY <2>1, <2>2
<1>2. AnswerTypes'
  BY <1>1 DEF AnswerIInv, AnswerTypes, PromptStates, Idle, OnItsWay, ToldApp, Requests, Underway
<1>3. Answering(r)'
  BY <1>1 DEF AnswerIInv, AnswerTypes, PromptStates, Idle, OnItsWay, ToldApp, Requests, Answering, Counted, Underway
<1>4. \A x \in Apps \ {r} : Answering(x)'
  BY <1>1, OthersKeep DEF AnswerIInv, AnswerTypes, PromptStates, Idle, OnItsWay, ToldApp, Requests, Elapses
<1> QED BY <1>2, <1>3, <1>4 DEF AnswerIInv

(* The request is sent, or was not taken and is sent again, or given up.   *)
LEMMA TransportKeeps ==
  ASSUME AnswerIInv, NEW r \in Apps,
         Sends(r) \/ NotTaken(r) \/ ReplyLost(r) \/ Unrecognized(r)
  PROVE  AnswerIInv'
<1>1. prompt' = prompt /\ \A x \in Apps \ {r} : answering'[x] = answering[x]
  BY DEF AnswerIInv, AnswerTypes, PromptStates, Idle, OnItsWay, ToldApp, Sends, NotTaken, ReplyLost, Unrecognized, AfterLoss, Told
<1>2. answering[r].at \in Underway
  BY DEF Sends, NotTaken, ReplyLost, Unrecognized, Underway
<1>3. AnswerTypes' /\ Answering(r)'
  <2>1. CASE Sends(r)
    BY <1>2, <2>1 DEF Sends, AnswerIInv, AnswerTypes, PromptStates, Idle, OnItsWay, ToldApp, Answering, Counted, Underway
  <2>2. CASE NotTaken(r) /\ answering[r].tries = 1
    BY <1>2, <2>2 DEF NotTaken, AnswerIInv, AnswerTypes, PromptStates, Idle, OnItsWay, ToldApp, Answering, Counted, Underway
  <2>3. CASE ~(Sends(r) \/ (NotTaken(r) /\ answering[r].tries = 1))
    <3>1. Told(r, 502)
      BY <2>3 DEF NotTaken, ReplyLost, Unrecognized, AfterLoss
    <3> QED BY <1>1, <1>2, <3>1 DEF Told, AnswerIInv, AnswerTypes, PromptStates, Idle, OnItsWay, ToldApp, Answering, Underway
  <2> QED BY <2>1, <2>2, <2>3
<1>4. \A x \in Apps \ {r} : Answering(x)'
  BY <1>1, OthersKeep DEF AnswerIInv, Elapses
<1> QED BY <1>3, <1>4 DEF AnswerIInv

(* Hermes takes an answer: it counts if the prompt was waiting.            *)
LEMMA TakenKeeps ==
  ASSUME AnswerIInv, NEW r \in Apps, Taken(r)
  PROVE  AnswerIInv'
<1> DEFINE p == answering[r].prompt
           given == answering[r].answer
<1>0. answering[r] \in OnItsWay
  <2>1. answering[r].at = "sent"
    BY DEF Taken
  <2> QED BY <2>1 DEF AnswerIInv, AnswerTypes, Idle, ToldApp
<1>1. p \in Prompts /\ given \in Choosable /\ prompt[p] # NotAsked /\ Means(p, answering[r].meant, given)
  BY DEF AnswerIInv, AnswerTypes, PromptStates, Idle, OnItsWay, ToldApp, Answering, Taken, Underway
<1>2. \A x \in Apps \ {r} : answering'[x] = answering[x] /\ \A q \in Prompts : Elapses(x, q)
  BY <1>1 DEF AnswerIInv, AnswerTypes, PromptStates, Idle, OnItsWay, ToldApp, Taken, Elapses
<1>3. CASE prompt[p] = Waiting
  <2>1. prompt' = [prompt EXCEPT ![p] = AnsweredBy(r, given)]
    BY <1>3 DEF Taken
  <2>2. answering' = [answering EXCEPT ![r].at = "replied", ![r].result = "ok"]
    BY <1>3 DEF Taken
  <2>3. AnswerTypes'
    <3>1. AnsweredBy(r, given) \in PromptStates
      BY <1>1 DEF PromptStates
    <3>2. prompt' \in [Prompts -> PromptStates]
      BY <1>1, <2>1, <3>1 DEF AnswerIInv, AnswerTypes
    <3>3. [answering[r] EXCEPT !.at = "replied", !.result = "ok"] \in OnItsWay
      BY <1>0 DEF OnItsWay, Underway
    <3>4. answering' = [answering EXCEPT ![r] = [@ EXCEPT !.at = "replied", !.result = "ok"]]
      BY <2>2 DEF AnswerIInv, AnswerTypes
    <3> QED BY <3>2, <3>3, <3>4 DEF AnswerIInv, AnswerTypes
  <2>4. answering'[r].at = "replied" /\ answering'[r].result = "ok"
        /\ answering'[r].prompt = p /\ answering'[r].answer = given
        /\ answering'[r].meant = answering[r].meant
    BY <2>2 DEF AnswerIInv, AnswerTypes, PromptStates, Idle, OnItsWay, ToldApp, Taken, Underway
  <2>5. prompt'[p] = AnsweredBy(r, given) /\ AnsweredBy(r, given) # NotAsked
    <3>1. AnsweredBy(r, given).is # NotAsked.is
      BY States
    <3> QED BY <1>1, <2>1, <3>1 DEF AnswerIInv, AnswerTypes
  <2>6. Answering(r)'
    BY <1>1, <2>4, <2>5 DEF Answering, Underway
  <2> QED BY <1>2, <2>3, <2>6, OthersKeep DEF AnswerIInv
<1>4. CASE prompt[p] # Waiting
  <2>1. prompt' = prompt
        /\ answering' = [answering EXCEPT ![r].at = "replied", ![r].result = "expired"]
    BY <1>4 DEF Taken
  <2>2. AnswerTypes'
    <3>1. [answering[r] EXCEPT !.at = "replied", !.result = "expired"] \in OnItsWay
      BY <1>0 DEF OnItsWay, Underway
    <3>2. answering' = [answering EXCEPT ![r] = [@ EXCEPT !.at = "replied", !.result = "expired"]]
      BY <2>1 DEF AnswerIInv, AnswerTypes
    <3> QED BY <2>1, <3>1, <3>2 DEF AnswerIInv, AnswerTypes
  <2>3. Answering(r)'
    BY <1>1, <1>4, <2>1 DEF AnswerIInv, AnswerTypes, PromptStates, Idle, OnItsWay, ToldApp, Taken, Answering, Counted, Underway
  <2> QED BY <1>2, <2>2, <2>3, OthersKeep DEF AnswerIInv
<1> QED BY <1>3, <1>4

(* The reply arrives.                                                      *)
LEMMA RepliedKeeps ==
  ASSUME AnswerIInv, NEW r \in Apps, Replied(r)
  PROVE  AnswerIInv'
<1> DEFINE a == answering[r]
<1>1. a.at = "replied" /\ a.prompt \in Prompts /\ a.meant \in PromptBodies
  BY DEF Replied, AnswerIInv, AnswerTypes, PromptStates, Idle, OnItsWay, ToldApp, Underway
<1>2. answering' = [answering EXCEPT ![r] =
        [at |-> "told", status |-> StatusOf(a.result), prompt |-> a.prompt, meant |-> a.meant]]
  BY DEF Replied, Told
<1>3. prompt' = prompt
  BY DEF Replied
<1>4. AnswerTypes'
  BY <1>1, <1>2, <1>3 DEF AnswerIInv, AnswerTypes, PromptStates, Idle, OnItsWay, ToldApp, StatusOf
<1>5. a.result = "ok" => Counted(r, a.prompt) /\ prompt[a.prompt].answer = a.answer
                         /\ Means(a.prompt, a.meant, a.answer)
  <2>1. Means(a.prompt, a.meant, a.answer)
    BY <1>1 DEF AnswerIInv, Answering, Underway
  <2>2. a.result = "ok" => prompt[a.prompt] = AnsweredBy(r, a.answer)
    BY <1>1 DEF AnswerIInv, Answering
  <2>3. /\ AnsweredBy(r, a.answer).is = "answered" /\ AnsweredBy(r, a.answer).by = r
        /\ AnsweredBy(r, a.answer).answer = a.answer
    BY States
  <2> QED BY <2>1, <2>2, <2>3 DEF Counted
<1>6. a.result # "ok" => prompt[a.prompt] \notin {NotAsked, Waiting} /\ ~Counted(r, a.prompt)
  BY <1>1 DEF AnswerIInv, Answering
<1>7. Answering(r)'
  BY <1>2, <1>3, <1>5, <1>6 DEF AnswerIInv, AnswerTypes, PromptStates, Idle, OnItsWay, ToldApp, Answering, Counted, StatusOf, Underway
<1>8. \A x \in Apps \ {r} : Answering(x)'
  BY <1>2, <1>3, OthersKeep DEF AnswerIInv, AnswerTypes, PromptStates, Idle, OnItsWay, ToldApp, Elapses
<1> QED BY <1>4, <1>7, <1>8 DEF AnswerIInv

(* Every step keeps it.                                                    *)
LEMMA NextIInv == AnswerIInv /\ [PromptsNext]_promptVars => AnswerIInv'
<1> SUFFICES ASSUME AnswerIInv, [PromptsNext]_promptVars PROVE AnswerIInv'
  OBVIOUS
<1>1. CASE UNCHANGED promptVars
  BY <1>1, OthersKeep DEF promptVars, AnswerIInv, AnswerTypes, PromptStates, Idle, OnItsWay, ToldApp, Elapses
<1>2. CASE Interrupts \/ \E p \in Prompts : AsksPerson(p) \/ MovesOn(p)
  BY <1>2, PromptsPass
<1>3. ASSUME NEW r \in Apps, Approves(r) \/ AnswersText(r) PROVE AnswerIInv'
  BY <1>3, RequestsKeep
<1>4. ASSUME NEW r \in Apps, Sends(r) \/ NotTaken(r) \/ ReplyLost(r) \/ Unrecognized(r) PROVE AnswerIInv'
  BY <1>4, TransportKeeps
<1>5. ASSUME NEW r \in Apps, Taken(r) PROVE AnswerIInv'
  BY <1>5, TakenKeeps
<1>6. ASSUME NEW r \in Apps, Replied(r) PROVE AnswerIInv'
  BY <1>6, RepliedKeeps
<1> QED BY <1>1, <1>2, <1>3, <1>4, <1>5, <1>6 DEF PromptsNext

(* It implies the property.                                                *)
LEMMA IInvSuffices == AnswerIInv => AppsAreToldTheTruth
<1> SUFFICES ASSUME AnswerIInv, NEW r \in Apps, answering[r].at = "told"
             PROVE  LET p == prompt[answering[r].prompt]
                        counted == p.is = "answered" /\ p.by = r
                    IN /\ answering[r].status = 200 =>
                            counted /\ Means(answering[r].prompt, answering[r].meant, p.answer)
                       /\ answering[r].status = 409 => p.is # "waiting" /\ ~counted
  BY DEF AppsAreToldTheTruth
<1>1. prompt[answering[r].prompt] \in PromptStates
  BY DEF AnswerIInv, AnswerTypes, PromptStates, Idle, OnItsWay, ToldApp, Underway
<1>2. \A state \in PromptStates : state # Waiting => state.is # "waiting"
  <2>1. \A x, a : AnsweredBy(x, a).is # "waiting"
    BY States
  <2>2. NotAsked.is # "waiting" /\ Moved.is # "waiting"
    BY States
  <2> QED BY <2>1, <2>2 DEF PromptStates
<1> QED BY <1>1, <1>2 DEF AnswerIInv, Answering, Counted

(* An app is told that its answer counted only when the agent went on with *)
(* it and it is what the person meant, and that it came too late only when *)
(* it did not count (respond_to_approval, respond_to_clarify,              *)
(* _already_resolved, _with_reconnect).                                    *)
THEOREM ToldTheTruth == PromptsSpec => []AppsAreToldTheTruth
<1>1. PromptsSpec => []AnswerIInv
  BY InitIInv, NextIInv, PTL DEF PromptsSpec
<1> QED BY <1>1, IInvSuffices, PTL

-----------------------------------------------------------------------------
(* ChatPrompts: prompts find the runs they start.                          *)

IsSeq(s) == Len(s) \in Nat /\ s = [i \in 1..Len(s) |-> s[i]]

IsRow(r) == r = [seq |-> r.seq, prompt |-> r.prompt, run |-> r.run, source |-> r.source, id |-> r.id]
IsRun(u) == u = [prompt |-> u.prompt, first |-> u.first, last |-> u.last]

(* What is known while every client waits for the prompt before its own.   *)
PromptRows ==
  /\ asked = [p \in AppPrompts |-> asked[p]]
  /\ IsSeq(log) /\ IsSeq(runs) /\ lastSeq \in Nat
  /\ \A i \in DOMAIN runs : IsRun(runs[i])
  /\ \A r \in rows :
       /\ IsRow(r)
       /\ r.seq \in 1..lastSeq /\ r.id \in 0..Len(log) /\ r.run \in 0..Len(runs)
       /\ r.run # 0 => r.prompt = runs[r.run].prompt
       /\ r.run = 0 => r.source = "submit"

(* Every run has its row, is about to, or never will.                      *)
RowOf(i) == {r \in rows : r.run = i}
Lacks(i) == i \in missed \cup {c.run : c \in captures} \/ runs[i].prompt \in discarded
RunsHaveRows ==
  \A i \in DOMAIN runs : (\E r \in rows : RowOf(i) = {r}) \/ (RowOf(i) = {} /\ Lacks(i))

(* The place of the newest prompt in the transcript of Hermes.             *)
LastAt(i, p) ==
  /\ i \in DOMAIN log /\ log[i] = p /\ p # Summary
  /\ \A j \in DOMAIN log : j > i => log[j] = Summary
StartOf(p, f) == f.kind = "start" /\ f.prompt = p /\ f.at \in Nat
EndOf(f) == f.kind = "end" /\ f.at \in Nat

(* The one prompt under way: its row waits, or nothing does, until the     *)
(* first frame of its turn is handled.                                     *)
WaitsFor(p) == \A r, q \in Unlinked : r = q /\ r.prompt = p

Coming(p) ==
  /\ WaitsFor(p) /\ captures = {} /\ OpenRun = 0
  /\ \/ queue = <<p>> /\ active = Nobody /\ frames = <<>>
     \/ /\ queue = <<>> /\ (\E i \in DOMAIN log : LastAt(i, p) /\ \A r \in rows : r.id < i)
        /\ \E s : /\ StartOf(p, s)
                  /\ \/ active = p /\ frames = <<s>>
                     \/ \E e : EndOf(e) /\ active = Nobody /\ frames = <<s, e>>

Handled ==
  /\ Unlinked = {} /\ queue = <<>>
  /\ \/ active # Nobody /\ active # Summary /\ frames = <<>>
     \/ \E e : EndOf(e) /\ active = Nobody /\ frames = <<e>>

AtRest ==
  /\ queue = <<>> /\ active = Nobody /\ frames = <<>> /\ OpenRun = 0
  /\ (\A p \in AppPrompts : asked[p] # "written") => Unlinked = {}

(* A capture under way is of the last run, and reads the prompt of its     *)
(* turn.                                                                   *)
CaptureFits(c) ==
  /\ c = [run |-> Len(runs), got |-> c.got]
  /\ Len(runs) \in DOMAIN runs /\ RowOf(Len(runs)) = {}
  /\ \E i \in DOMAIN log : /\ LastAt(i, runs[Len(runs)].prompt) /\ c.got \in {Unread, Failed, i}
                           /\ \A r \in rows : r.id < i
CapturesFit ==
  /\ \A c, d \in captures : c = d
  /\ \A c \in captures : CaptureFits(c)

AsksOnce ==
  \A p \in AppPrompts : asked[p] = "written" =>
    /\ AtRest /\ WaitsFor(p) /\ captures = {} /\ ~watching
    /\ \A q \in AppPrompts : asked[q] = "written" => p = q

Serial ==
  /\ PromptRows /\ RunsHaveRows /\ CapturesFit /\ AsksOnce
  /\ AtRest \/ Handled \/ \E p \in UserPrompts : Coming(p)
  /\ watching => Unlinked = {} /\ OpenRun = 0

PromptIInv == alone => Serial

(* It holds at the start.                                                  *)
LEMMA PromptStarts == PromptInit => PromptIInv
<1> SUFFICES ASSUME PromptInit PROVE Serial
  BY DEF PromptIInv
<1>1. IsSeq(<<>>) /\ DOMAIN <<>> = {}
  BY DEF IsSeq
<1>2. OpenRun = 0 /\ Unlinked = {} /\ AtRest /\ CapturesFit /\ AsksOnce
  BY DEF PromptInit, OpenRun, Unlinked, AtRest, CapturesFit, AsksOnce
<1>3. PromptRows /\ RunsHaveRows
  BY <1>1 DEF PromptInit, PromptRows, RunsHaveRows
<1> QED BY <1>2, <1>3 DEF Serial, PromptInit

(* A sequence after one more element, by places.                           *)
LEMMA OneMore ==
  ASSUME NEW s, IsSeq(s), NEW e
  PROVE  /\ IsSeq(Append(s, e)) /\ Len(Append(s, e)) = Len(s) + 1 /\ Len(s) \in Nat
         /\ DOMAIN s = 1..Len(s) /\ DOMAIN Append(s, e) = 1..(Len(s) + 1)
         /\ Append(s, e)[Len(s) + 1] = e
         /\ \A i \in 1..Len(s) : Append(s, e)[i] = s[i]
<1> DEFINE S == {s[i] : i \in 1..Len(s)} \cup {e}
<1>1. s \in Seq(S) /\ e \in S
  <2>1. \A i \in 1..Len(s) : s[i] \in S
    OBVIOUS
  <2> HIDE DEF S
  <2>2. [i \in 1..Len(s) |-> s[i]] \in Seq(S)
    BY <2>1 DEF IsSeq
  <2> QED BY <2>2 DEF IsSeq, S
<1> HIDE DEF S
<1>2. /\ Append(s, e) \in Seq(S) /\ Len(Append(s, e)) = Len(s) + 1
      /\ Append(s, e)[Len(s) + 1] = e
      /\ \A i \in 1..Len(s) : Append(s, e)[i] = s[i]
  BY <1>1
<1>3. \A q \in Seq(S) : IsSeq(q)
  BY DEF IsSeq
<1>4. \A q : IsSeq(q) => DOMAIN q = 1..Len(q) /\ Len(q) \in Nat
  BY DEF IsSeq
<1>5. IsSeq(Append(s, e))
  BY <1>2, <1>3
<1> QED BY <1>2, <1>4, <1>5

(* With nothing under way nothing waits either.                            *)
LEMMA SettledIsRest ==
  ASSUME Serial, Settled
  PROVE  AtRest /\ Unlinked = {} /\ captures = {} /\ \A p \in AppPrompts : asked[p] # "written"
<1>1. ~Handled
  BY DEF Settled, Handled
<1>2. \A p \in UserPrompts : ~Coming(p)
  BY DEF Settled, Coming
<1>3. AtRest
  BY <1>1, <1>2 DEF Serial
<1> QED BY <1>3 DEF Settled, AtRest

(* A prompt is sent.                                                       *)
LEMMA WritesKeeps ==
  ASSUME Serial, alone', NEW p \in AppPrompts, SubmitWrites(p)
  PROVE  Serial'
<1>1. Settled /\ UNCHANGED <<queue, active, log, frames, runs, captures, discarded, missed>>
  BY DEF SubmitWrites, hermes
<1>2. /\ AtRest /\ Unlinked = {} /\ captures = {} /\ \A q \in AppPrompts : asked[q] # "written"
      /\ PromptRows /\ RunsHaveRows
  BY <1>1, SettledIsRest DEF Serial
<1>3. PICK new : new = Row(p, 0, "submit", 0)
  OBVIOUS
<1>4. /\ rows' = rows \cup {new} /\ lastSeq' = lastSeq + 1 /\ asked' = [asked EXCEPT ![p] = "written"]
      /\ watching' = FALSE
      /\ new.run = 0 /\ new.seq = lastSeq + 1 /\ new.prompt = p /\ new.id = 0 /\ new.source = "submit"
  BY <1>3 DEF SubmitWrites, Inserted, Row
<1>5. PromptRows'
  <2>1. Len(log) \in Nat /\ Len(runs) \in Nat
    BY <1>2 DEF PromptRows, IsSeq
  <2>2. IsRow(new)
    BY <1>3 DEF Row, IsRow
  <2>3. /\ asked' = [q \in AppPrompts |-> asked'[q]] /\ lastSeq' \in Nat /\ \A r \in rows : r.seq \in 1..lastSeq'
        /\ lastSeq + 1 \in 1..lastSeq'
    BY <1>2, <1>4 DEF PromptRows
  <2> QED BY <1>1, <1>2, <1>4, <2>1, <2>2, <2>3 DEF PromptRows
<1>6. Unlinked' = {new}
  BY <1>2, <1>4 DEF Unlinked
<1>7. \A i \in DOMAIN runs : RowOf(i)' = RowOf(i)
  <2>1. \A i \in DOMAIN runs : i # 0
    BY <1>2 DEF PromptRows, IsSeq
  <2> QED BY <1>4, <2>1 DEF RowOf
<1>8. RunsHaveRows'
  BY <1>1, <1>2, <1>4, <1>7 DEF RunsHaveRows, Lacks
<1>9. asked'[p] = "written" /\ \A q \in AppPrompts : asked'[q] = "written" => p = q
  BY <1>2, <1>4 DEF PromptRows
<1>10. OpenRun' = 0
  BY <1>1, <1>2 DEF AtRest, OpenRun
<1>11. AtRest'
  BY <1>1, <1>2, <1>9, <1>10 DEF AtRest
<1>12. CapturesFit' /\ captures' = {}
  BY <1>1, <1>2 DEF CapturesFit
<1>13. AsksOnce'
  BY <1>4, <1>6, <1>9, <1>11, <1>12 DEF AsksOnce, WaitsFor
<1> QED BY <1>4, <1>5, <1>8, <1>11, <1>12, <1>13 DEF Serial

(* Another client of Hermes sends a prompt.                                *)
LEMMA ForeignKeeps ==
  ASSUME Serial, alone', NEW p \in ForeignPrompts, ForeignPrompt(p)
  PROVE  Serial'
<1>1. /\ Settled /\ queue' = Append(queue, p)
      /\ UNCHANGED <<active, log, frames, rows, lastSeq, runs, asked, captures, watching, discarded, missed>>
  BY DEF ForeignPrompt, history
<1>2. /\ AtRest /\ Unlinked = {} /\ captures = {} /\ \A q \in AppPrompts : asked[q] # "written"
      /\ PromptRows /\ RunsHaveRows /\ CapturesFit /\ AsksOnce /\ (watching => Unlinked = {} /\ OpenRun = 0)
  BY <1>1, SettledIsRest DEF Serial
<1>3. queue' = <<p>> /\ p \in UserPrompts
  BY <1>1, <1>2 DEF AtRest, UserPrompts
<1>4. Unlinked' = {} /\ OpenRun' = 0
  BY <1>1, <1>2 DEF Unlinked, OpenRun, AtRest
<1>5. Coming(p)'
  BY <1>1, <1>2, <1>3, <1>4 DEF Coming, AtRest, WaitsFor
<1>6. PromptRows' /\ RunsHaveRows' /\ CapturesFit' /\ AsksOnce'
  BY <1>1, <1>2 DEF PromptRows, RunsHaveRows, Lacks, RowOf, CapturesFit, AsksOnce
<1> QED BY <1>3, <1>4, <1>5, <1>6 DEF Serial

(* Hermes has the prompt: from here on it is coming.                       *)
LEMMA AcceptsKeeps ==
  ASSUME Serial, alone', NEW p \in AppPrompts, HermesAccepts(p)
  PROVE  Serial'
<1>1. /\ asked[p] = "written" /\ asked' = [asked EXCEPT ![p] = "accepted"]
      /\ UNCHANGED <<active, log, frames, rows, lastSeq, runs, captures, watching, discarded, missed>>
  BY DEF HermesAccepts, history, observed
<1>2. /\ AtRest /\ WaitsFor(p) /\ captures = {} /\ ~watching
      /\ \A q \in AppPrompts : asked[q] = "written" => p = q
      /\ PromptRows /\ RunsHaveRows /\ CapturesFit
  BY <1>1 DEF Serial, AsksOnce
<1>3. queue' = <<p>> /\ p \in UserPrompts
  BY <1>2 DEF AtRest, UserPrompts, HermesAccepts
<1>4. Unlinked' = Unlinked /\ OpenRun' = 0
  BY <1>1, <1>2 DEF Unlinked, OpenRun, AtRest
<1>5. Coming(p)'
  BY <1>1, <1>2, <1>3, <1>4 DEF Coming, AtRest, WaitsFor
<1>6. PromptRows' /\ RunsHaveRows' /\ CapturesFit'
  BY <1>1, <1>2 DEF PromptRows, RunsHaveRows, Lacks, RowOf, CapturesFit
<1>7. AsksOnce'
  BY <1>1, <1>2 DEF AsksOnce, PromptRows
<1> QED BY <1>1, <1>2, <1>3, <1>5, <1>6, <1>7 DEF Serial

(* The answer to a send changes nothing else.                              *)
LEMMA AnsweredKeeps ==
  ASSUME Serial, alone', NEW p \in AppPrompts, SubmitAnswered(p)
  PROVE  Serial'
<1>1. /\ asked[p] = "accepted" /\ asked' = [asked EXCEPT ![p] = "answered"]
      /\ UNCHANGED <<queue, active, log, frames, rows, lastSeq, runs, captures, watching, discarded, missed>>
  BY DEF SubmitAnswered, hermes, history, observed
<1>2. /\ PromptRows /\ RunsHaveRows /\ CapturesFit /\ AsksOnce
      /\ AtRest \/ Handled \/ \E q \in UserPrompts : Coming(q)
      /\ (watching => Unlinked = {} /\ OpenRun = 0)
  BY DEF Serial
<1>3. PromptRows' /\ \A q \in AppPrompts : asked'[q] = "written" <=> asked[q] = "written"
  BY <1>1, <1>2 DEF PromptRows
<1>4. Unlinked' = Unlinked /\ OpenRun' = OpenRun /\ (\A i : RowOf(i)' = RowOf(i)) /\ \A i : Lacks(i)' = Lacks(i)
  BY <1>1 DEF Unlinked, OpenRun, RowOf, Lacks
<1>5. RunsHaveRows'
  BY <1>1, <1>2, <1>4 DEF RunsHaveRows
<1>6. CapturesFit'
  BY <1>1, <1>2, <1>4 DEF CapturesFit, CaptureFits, LastAt
<1>7. AtRest' <=> AtRest
  BY <1>1, <1>3, <1>4 DEF AtRest
<1>8. Handled' <=> Handled
  BY <1>1, <1>4 DEF Handled
<1>9. \A q : WaitsFor(q)' <=> WaitsFor(q)
  BY <1>4 DEF WaitsFor
<1>10. \A q : Coming(q) => Coming(q)'
  BY <1>1, <1>4, <1>9 DEF Coming, LastAt
<1>11. AsksOnce'
  BY <1>1, <1>2, <1>3, <1>7, <1>9 DEF AsksOnce
<1> QED BY <1>1, <1>2, <1>3, <1>4, <1>5, <1>6, <1>7, <1>8, <1>10, <1>11 DEF Serial

(* A send that failed takes the row of its prompt back.                    *)
LEMMA FailsKeeps ==
  ASSUME Serial, alone', NEW p \in AppPrompts, SubmitFails(p)
  PROVE  Serial'
<1>1. /\ asked[p] \in {"written", "accepted"} /\ asked' = [asked EXCEPT ![p] = "failed"]
      /\ rows' = {r \in rows : ~(r.prompt = p /\ r.source = "submit")}
      /\ discarded' = discarded \cup {p}
      /\ UNCHANGED <<queue, active, log, frames, lastSeq, runs, captures, watching, missed>>
  BY DEF SubmitFails, hermes
<1>2. /\ PromptRows /\ RunsHaveRows /\ CapturesFit /\ AsksOnce
      /\ AtRest \/ Handled \/ \E q \in UserPrompts : Coming(q)
      /\ (watching => Unlinked = {} /\ OpenRun = 0)
  BY DEF Serial
<1>3. PromptRows' /\ \A q \in AppPrompts : asked'[q] = "written" <=> asked[q] = "written" /\ q # p
  BY <1>1, <1>2 DEF PromptRows
<1>4. OpenRun' = OpenRun /\ Unlinked' \subseteq Unlinked
  BY <1>1 DEF Unlinked, OpenRun
<1>5. RunsHaveRows'
  <2> SUFFICES ASSUME NEW i \in DOMAIN runs
               PROVE  (\E r \in rows' : RowOf(i)' = {r}) \/ (RowOf(i)' = {} /\ Lacks(i)')
    BY <1>1 DEF RunsHaveRows
  <2>1. RowOf(i)' \subseteq RowOf(i) /\ (Lacks(i) => Lacks(i)')
    BY <1>1 DEF RowOf, Lacks
  <2>2. CASE RowOf(i) = {}
    BY <1>2, <2>1, <2>2 DEF RunsHaveRows
  <2>3. CASE RowOf(i) # {}
    <3>1. PICK r \in rows : RowOf(i) = {r}
      BY <1>2, <2>3 DEF RunsHaveRows
    <3>2. CASE r \in rows'
      BY <2>1, <3>1, <3>2 DEF RowOf
    <3>3. CASE r \notin rows'
      <4>1. r.prompt = p /\ r.run = i /\ RowOf(i)' = {}
        BY <1>1, <2>1, <3>1, <3>3 DEF RowOf
      <4>2. i # 0
        BY <1>2 DEF PromptRows, IsSeq
      <4>3. runs[i].prompt = p
        BY <1>2, <4>1, <4>2 DEF PromptRows
      <4> QED BY <1>1, <4>1, <4>3 DEF Lacks
    <3> QED BY <3>2, <3>3
  <2> QED BY <2>2, <2>3
<1>6. CapturesFit'
  <2> SUFFICES ASSUME NEW c \in captures PROVE CaptureFits(c)'
    BY <1>1, <1>2 DEF CapturesFit
  <2>1. CaptureFits(c)
    BY <1>2 DEF CapturesFit
  <2>2. RowOf(Len(runs))' = {}
    BY <1>1, <2>1 DEF CaptureFits, RowOf
  <2>3. PICK i \in DOMAIN log : /\ LastAt(i, runs[Len(runs)].prompt) /\ c.got \in {Unread, Failed, i}
                                /\ \A r \in rows : r.id < i
    BY <2>1 DEF CaptureFits
  <2>4. LastAt(i, runs[Len(runs)].prompt)' /\ \A r \in rows' : r.id < i
    BY <1>1, <2>3 DEF LastAt
  <2> QED BY <1>1, <2>1, <2>2, <2>3, <2>4 DEF CaptureFits
<1>7. ASSUME AtRest PROVE AtRest'
  <2> SUFFICES ASSUME \A q \in AppPrompts : asked'[q] # "written" PROVE Unlinked' = {}
    BY <1>1, <1>4, <1>7 DEF AtRest
  <2>1. CASE asked[p] = "written"
    <3>1. \A r \in Unlinked : r.prompt = p /\ r.source = "submit"
      BY <1>2, <2>1 DEF AsksOnce, WaitsFor, PromptRows, Unlinked
    <3> QED BY <1>1, <1>4, <3>1 DEF Unlinked
  <2>2. CASE asked[p] # "written"
    <3>1. \A q \in AppPrompts : asked[q] # "written"
      BY <1>3, <2>2
    <3> QED BY <1>4, <1>7, <3>1 DEF AtRest
  <2> QED BY <2>1, <2>2
<1>8. Handled => Handled'
  BY <1>1, <1>4 DEF Handled
<1>9. \A q : WaitsFor(q) => WaitsFor(q)'
  BY <1>4 DEF WaitsFor
<1>10. ASSUME NEW q, Coming(q) PROVE Coming(q)'
  <2>1. \A i \in DOMAIN log : LastAt(i, q) /\ (\A r \in rows : r.id < i)
          => LastAt(i, q)' /\ \A r \in rows' : r.id < i
    BY <1>1 DEF LastAt
  <2> QED BY <1>1, <1>4, <1>9, <1>10, <2>1 DEF Coming
<1>11. AsksOnce'
  BY <1>1, <1>2, <1>3, <1>7, <1>9 DEF AsksOnce
<1> QED BY <1>1, <1>2, <1>3, <1>4, <1>5, <1>6, <1>7, <1>8, <1>10, <1>11 DEF Serial

(* Hermes moves on: rows, runs and sends stay.                             *)
LEMMA StoreKeeps ==
  ASSUME Serial, IsSeq(log'), Len(log) <= Len(log'),
         UNCHANGED <<history, asked, captures, discarded, missed>>,
         \A c \in captures : CaptureFits(c)'
  PROVE  /\ PromptRows' /\ RunsHaveRows' /\ CapturesFit'
         /\ Unlinked' = Unlinked /\ OpenRun' = OpenRun /\ \A q : WaitsFor(q)' <=> WaitsFor(q)
<1>1. UNCHANGED <<rows, runs, lastSeq>> /\ PromptRows /\ RunsHaveRows /\ CapturesFit
  BY DEF history, Serial
<1>2. PromptRows'
  <2>1. Len(log) \in Nat /\ Len(log') \in Nat
    BY <1>1 DEF PromptRows, IsSeq
  <2> QED BY <1>1, <2>1 DEF PromptRows
<1>3. RunsHaveRows'
  BY <1>1 DEF RunsHaveRows, RowOf, Lacks
<1>4. CapturesFit'
  BY <1>1 DEF CapturesFit
<1>5. Unlinked' = Unlinked /\ OpenRun' = OpenRun
  BY <1>1 DEF Unlinked, OpenRun
<1> QED BY <1>2, <1>3, <1>4, <1>5 DEF WaitsFor

(* The transcript after one more row.                                      *)
LEMMA LogGrows ==
  ASSUME IsSeq(log), NEW e, log' = Append(log, e)
  PROVE  /\ IsSeq(log') /\ Len(log') = Len(log) + 1 /\ Len(log) \in Nat
         /\ DOMAIN log = 1..Len(log) /\ DOMAIN log' = 1..(Len(log) + 1)
         /\ log'[Len(log) + 1] = e /\ \A i \in DOMAIN log : log'[i] = log[i]
<1>1. PICK more : more = Append(log, e)
  OBVIOUS
<1>2. /\ IsSeq(more) /\ Len(more) = Len(log) + 1 /\ Len(log) \in Nat
      /\ DOMAIN log = 1..Len(log) /\ DOMAIN more = 1..(Len(log) + 1)
      /\ more[Len(log) + 1] = e /\ \A i \in 1..Len(log) : more[i] = log[i]
  BY <1>1, OneMore
<1> QED BY <1>1, <1>2

(* A summary is not taken for a prompt.                                    *)
LEMMA CompactionKeeps ==
  ASSUME Serial, alone', Compaction
  PROVE  Serial'
<1>1. /\ log' = Append(log, Summary)
      /\ UNCHANGED <<queue, active, frames, history, rows, runs, asked, captures, watching, discarded, missed>>
  BY DEF Compaction, history, observed
<1>2. /\ PromptRows /\ CapturesFit /\ AsksOnce
      /\ AtRest \/ Handled \/ \E q \in UserPrompts : Coming(q)
      /\ (watching => Unlinked = {} /\ OpenRun = 0)
  BY DEF Serial
<1>3. /\ IsSeq(log') /\ Len(log') = Len(log) + 1 /\ Len(log) \in Nat
      /\ DOMAIN log = 1..Len(log) /\ DOMAIN log' = 1..(Len(log) + 1)
      /\ log'[Len(log) + 1] = Summary /\ \A i \in DOMAIN log : log'[i] = log[i]
  BY <1>1, <1>2, LogGrows DEF PromptRows
<1>4. \A i \in DOMAIN log : i \in DOMAIN log' /\ \A q : LastAt(i, q) => LastAt(i, q)'
  BY <1>3 DEF LastAt
<1>5. \A c \in captures : CaptureFits(c)'
  BY <1>1, <1>2, <1>4 DEF CapturesFit, CaptureFits, RowOf
<1>6. /\ PromptRows' /\ RunsHaveRows' /\ CapturesFit'
      /\ Unlinked' = Unlinked /\ OpenRun' = OpenRun /\ \A q : WaitsFor(q)' <=> WaitsFor(q)
  <2>1. Len(log) <= Len(log')
    BY <1>3
  <2> QED BY <1>1, <1>3, <1>5, <2>1, StoreKeeps
<1>7. (AtRest => AtRest') /\ (Handled => Handled')
  BY <1>1, <1>6 DEF AtRest, Handled
<1>8. \A q : Coming(q) => Coming(q)'
  BY <1>1, <1>4, <1>6 DEF Coming
<1>9. AsksOnce'
  BY <1>1, <1>2, <1>6, <1>7 DEF AsksOnce
<1> QED BY <1>1, <1>2, <1>6, <1>7, <1>8, <1>9 DEF Serial

(* The first frame of the turn is sent, behind the row of its prompt.      *)
LEMMA BeginsKeeps ==
  ASSUME Serial, alone', TurnBegins
  PROVE  Serial'
<1>1. /\ active = Nobody /\ queue # <<>> /\ active' = Head(queue) /\ queue' = Tail(queue)
      /\ log' = Append(log, active')
      /\ frames' = Append(frames, [kind |-> "start", prompt |-> active', at |-> lastSeq])
      /\ UNCHANGED <<history, rows, runs, asked, captures, watching, discarded, missed>>
  BY DEF TurnBegins, history, observed
<1>2. /\ PromptRows /\ AsksOnce /\ (watching => Unlinked = {} /\ OpenRun = 0)
  BY DEF Serial
<1>3. PICK p \in UserPrompts : Coming(p)
  BY <1>1 DEF Serial, AtRest, Handled
<1>4. queue = <<p>> /\ frames = <<>> /\ captures = {} /\ WaitsFor(p) /\ OpenRun = 0 /\ p # Summary
  BY <1>1, <1>3, ChatAssumption DEF Coming
<1>5. active' = p /\ queue' = <<>>
  BY <1>1, <1>4
<1>6. PICK s : s = [kind |-> "start", prompt |-> p, at |-> lastSeq]
  OBVIOUS
<1>7. frames' = <<s>> /\ StartOf(p, s)
  BY <1>1, <1>2, <1>4, <1>5, <1>6 DEF StartOf, PromptRows
<1>8. /\ IsSeq(log') /\ Len(log') = Len(log) + 1 /\ Len(log) \in Nat
      /\ DOMAIN log = 1..Len(log) /\ DOMAIN log' = 1..(Len(log) + 1)
      /\ log'[Len(log) + 1] = p /\ \A i \in DOMAIN log : log'[i] = log[i]
  BY <1>1, <1>2, <1>5, LogGrows DEF PromptRows
<1>9. PICK n : n = Len(log) + 1
  OBVIOUS
<1>10. n \in DOMAIN log' /\ LastAt(n, p)' /\ \A r \in rows' : r.id < n
  BY <1>1, <1>2, <1>4, <1>8, <1>9 DEF LastAt, PromptRows
<1>11. /\ PromptRows' /\ RunsHaveRows' /\ CapturesFit'
       /\ Unlinked' = Unlinked /\ OpenRun' = OpenRun /\ \A q : WaitsFor(q)' <=> WaitsFor(q)
  <2>1. Len(log) <= Len(log')
    BY <1>8
  <2> QED BY <1>1, <1>4, <1>8, <2>1, StoreKeeps
<1>12. Coming(p)'
  BY <1>1, <1>4, <1>5, <1>7, <1>10, <1>11 DEF Coming
<1>13. AsksOnce'
  BY <1>1, <1>2, <1>4 DEF AsksOnce, AtRest
<1> QED BY <1>1, <1>2, <1>11, <1>12, <1>13 DEF Serial

(* A pair is a sequence.                                                   *)
LEMMA TwoFrames ==
  ASSUME NEW s, NEW e
  PROVE  Append(<<s>>, e) = <<s, e>>
<1>1. <<s>> \in Seq({s, e}) /\ e \in {s, e} /\ <<s, e>> \in Seq({s, e})
  OBVIOUS
<1>2. PICK q \in Seq({s, e}) : q = <<s>>
  BY <1>1
<1>3. /\ Append(q, e) \in Seq({s, e}) /\ Len(Append(q, e)) = Len(q) + 1
      /\ Append(q, e)[Len(q) + 1] = e /\ \A i \in 1..Len(q) : Append(q, e)[i] = q[i]
  OBVIOUS
<1>4. Len(q) = 1 /\ q[1] = s
  BY <1>2
<1>5. PICK a \in Seq({s, e}) : a = Append(q, e)
  BY <1>3
<1>6. Len(a) = 2 /\ a[1] = s /\ a[2] = e
  BY <1>3, <1>4, <1>5
<1>7. a = <<s, e>>
  BY <1>6
<1> QED BY <1>2, <1>5, <1>7

(* The last frame of the turn is sent: its first may still be on the way.  *)
LEMMA TurnEndsKeeps ==
  ASSUME Serial, alone', TurnEnds
  PROVE  Serial'
<1>1. /\ active # Nobody /\ active' = Nobody /\ frames' = Append(frames, Frame("end"))
      /\ UNCHANGED <<queue, log, history, rows, runs, asked, captures, watching, discarded, missed>>
  BY DEF TurnEnds, history, observed
<1>2. /\ PromptRows /\ AsksOnce /\ CapturesFit /\ (watching => Unlinked = {} /\ OpenRun = 0)
      /\ Handled \/ \E q \in UserPrompts : Coming(q)
  BY <1>1 DEF Serial, AtRest
<1>3. PICK e : e = Frame("end")
  OBVIOUS
<1>4. EndOf(e)
  BY <1>2, <1>3 DEF EndOf, Frame, PromptRows
<1>5. \A i, q : LastAt(i, q) => LastAt(i, q)'
  BY <1>1 DEF LastAt
<1>6. \A c \in captures : CaptureFits(c)'
  BY <1>1, <1>2, <1>5 DEF CapturesFit, CaptureFits, RowOf
<1>7. /\ PromptRows' /\ RunsHaveRows' /\ CapturesFit'
      /\ Unlinked' = Unlinked /\ OpenRun' = OpenRun /\ \A q : WaitsFor(q)' <=> WaitsFor(q)
  <2>1. IsSeq(log') /\ Len(log) <= Len(log')
    BY <1>1, <1>2 DEF PromptRows, IsSeq
  <2> QED BY <1>1, <1>6, <2>1, StoreKeeps
<1>8. Handled => Handled'
  <2> SUFFICES ASSUME Handled PROVE Handled'
    OBVIOUS
  <2>1. frames = <<>>
    BY <1>1 DEF Handled
  <2>2. frames' = <<e>>
    BY <1>1, <1>3, <2>1
  <2> QED BY <1>1, <1>4, <1>7, <2>2 DEF Handled
<1>9. ASSUME NEW q \in UserPrompts, Coming(q) PROVE Coming(q)'
  <2>1. PICK s : StartOf(q, s) /\ frames = <<s>> /\ active = q /\ queue = <<>>
    BY <1>1, <1>9 DEF Coming
  <2>2. frames' = <<s, e>>
    BY <1>1, <1>3, <2>1, TwoFrames
  <2>3. \E i \in DOMAIN log' : LastAt(i, q)' /\ \A r \in rows' : r.id < i
    BY <1>1, <1>5, <1>9, <2>1 DEF Coming
  <2> QED BY <1>1, <1>4, <1>7, <1>9, <2>1, <2>2, <2>3 DEF Coming
<1>10. AsksOnce'
  BY <1>1, <1>2 DEF AsksOnce, AtRest
<1> QED BY <1>1, <1>2, <1>7, <1>8, <1>9, <1>10 DEF Serial

(* What does not move in a transcript that stays.                          *)
LEMMA LogStays ==
  ASSUME log' = log
  PROVE  \A i, q : LastAt(i, q)' <=> LastAt(i, q)
  BY DEF LastAt

(* The first frame of a turn is handled: the row that waits gets the run,  *)
(* or a capture is spawned for it.                                         *)
LEMMA OpensKeeps ==
  ASSUME Serial, alone', RunOpens
  PROVE  Serial'
<1>1. /\ frames # <<>> /\ Head(frames).kind = "start" /\ frames' = Tail(frames)
      /\ UNCHANGED <<queue, active, log, lastSeq, asked, watching, discarded, missed>>
  BY DEF RunOpens, observed
<1>2. /\ PromptRows /\ RunsHaveRows /\ AsksOnce /\ (watching => Unlinked = {} /\ OpenRun = 0)
  BY DEF Serial
<1>3. ~AtRest /\ ~Handled
  <2>1. ASSUME Handled PROVE FALSE
    <3>1. PICK e : EndOf(e) /\ frames = <<e>>
      BY <1>1, <2>1 DEF Handled
    <3> QED BY <1>1, <3>1 DEF EndOf
  <2> QED BY <1>1, <2>1 DEF AtRest
<1>4. PICK p \in UserPrompts : Coming(p)
  BY <1>3 DEF Serial
<1>5. /\ WaitsFor(p) /\ captures = {} /\ OpenRun = 0 /\ queue = <<>>
      /\ \E i \in DOMAIN log : LastAt(i, p) /\ \A r \in rows : r.id < i
  BY <1>1, <1>4 DEF Coming
<1>6. PICK s : /\ StartOf(p, s)
               /\ \/ active = p /\ frames = <<s>>
                  \/ \E e : EndOf(e) /\ active = Nobody /\ frames = <<s, e>>
  BY <1>1, <1>4 DEF Coming
<1>7. Head(frames) = s /\ (\/ active = p /\ frames' = <<>>
                           \/ \E e : EndOf(e) /\ active = Nobody /\ frames' = <<e>>)
  <2>1. CASE active = p /\ frames = <<s>>
    BY <1>1, <2>1
  <2>2. ASSUME NEW e, EndOf(e), active = Nobody, frames = <<s, e>>
        PROVE  Head(frames) = s /\ frames' = <<e>>
    BY <1>1, <2>2
  <2> QED BY <1>6, <2>1, <2>2
<1>8. p # Nobody /\ p # Summary
  BY ChatAssumption
<1>9. Unlinked' = {} => Handled'
  BY <1>1, <1>5, <1>7, <1>8 DEF Handled
<1>10. \A q \in AppPrompts : asked[q] # "written"
  BY <1>2, <1>3 DEF AsksOnce
<1>11. AsksOnce'
  BY <1>1, <1>10 DEF AsksOnce
<1>12. CASE watching
  <2>1. UNCHANGED <<rows, runs, captures>> /\ Unlinked = {}
    BY <1>2, <1>12 DEF RunOpens
  <2>2. Unlinked' = {} /\ OpenRun' = 0
    BY <1>5, <2>1 DEF Unlinked, OpenRun
  <2>3. PromptRows' /\ RunsHaveRows' /\ CapturesFit'
    BY <1>1, <1>2, <1>5, <2>1 DEF PromptRows, RunsHaveRows, Lacks, RowOf, CapturesFit
  <2> QED BY <1>9, <1>11, <2>2, <2>3 DEF Serial
<1>13. CASE ~watching
  <2>1. PICK run : run = [prompt |-> s.prompt, first |-> s.at, last |-> -1]
    OBVIOUS
  <2>2. PICK n : n = Len(runs) + 1
    OBVIOUS
  <2>3. /\ runs' = Append(runs, run) /\ run.prompt = p
        /\ AttachTurn(n) /\ Spawns(n)
    BY <1>5, <1>6, <1>7, <1>13, <2>1, <2>2 DEF RunOpens, StartOf
  <2>4. PICK all : all = Append(runs, run)
    OBVIOUS
  <2>5. /\ IsSeq(all) /\ Len(all) = n /\ Len(runs) \in Nat /\ n = Len(runs) + 1
        /\ DOMAIN runs = 1..Len(runs) /\ DOMAIN all = 1..n
        /\ all[n] = run /\ \A i \in 1..Len(runs) : all[i] = runs[i]
    BY <1>2, <2>2, <2>4, OneMore DEF PromptRows
  <2>6. /\ IsSeq(runs') /\ Len(runs') = n /\ DOMAIN runs' = DOMAIN runs \cup {n} /\ n \notin DOMAIN runs
        /\ runs'[n].prompt = p /\ \A i \in DOMAIN runs : runs'[i] = runs[i]
    BY <2>3, <2>4, <2>5
  <2>7. \A i \in DOMAIN runs : i # 0 /\ i # n
    BY <2>5
  <2>11. \A i \in DOMAIN runs' : IsRun(runs'[i])
    <3>1. runs'[n] = run
      BY <2>3, <2>4, <2>5
    <3>2. IsRun(run)
      BY <2>1 DEF IsRun
    <3> QED BY <1>2, <2>6, <3>1, <3>2 DEF PromptRows
  <2>8. ASSUME NEW w, Unlinked = {w} PROVE Serial'
    <3>1. /\ w \in rows /\ w.run = 0 /\ w.prompt = p /\ w.source = "submit" /\ Newest(Unlinked) = w
          /\ w.seq \in 1..lastSeq
      <4>1. w \in Unlinked
        BY <2>8
      <4>2. w \in rows /\ w.run = 0 /\ w.prompt = p /\ w.source = "submit" /\ w.seq \in 1..lastSeq
        BY <1>2, <1>5, <4>1 DEF Unlinked, PromptRows, WaitsFor
      <4>3. w.seq <= w.seq
        BY <1>2, <4>2 DEF PromptRows
      <4>4. Newest({w}) = w
        BY <4>3 DEF Newest
      <4> QED BY <2>8, <4>2, <4>4
    <3>2. PICK v : v = [w EXCEPT !.run = n]
      OBVIOUS
    <3>3. rows' = (rows \ {w}) \cup {v} /\ captures' = captures
      BY <2>3, <2>8, <3>1, <3>2 DEF AttachTurn, Spawns
    <3>4. v.run = n /\ v.prompt = p /\ v.seq = w.seq /\ v.id = w.id
      <4>1. IsRow(w)
        BY <1>2, <3>1 DEF PromptRows
      <4> QED BY <3>1, <3>2, <4>1 DEF IsRow
    <3>6. Unlinked' = {}
      BY <2>5, <2>8, <3>3, <3>4 DEF Unlinked
    <3>7. PromptRows'
      <4>1. w.id \in 0..Len(log)
        BY <1>2, <3>1 DEF PromptRows
      <4>2. v.run \in 0..Len(runs') /\ (v.run # 0 => v.prompt = runs'[v.run].prompt) /\ v.run # 0
        BY <2>5, <2>6, <3>4
      <4>3. ASSUME NEW r \in rows
            PROVE  /\ r.seq \in 1..lastSeq' /\ r.id \in 0..Len(log') /\ r.run \in 0..Len(runs')
                   /\ r.run # 0 => r.prompt = runs'[r.run].prompt
                   /\ r.run = 0 => r.source = "submit"
        <5>1. r.run # 0 => r.run \in DOMAIN runs
          BY <1>2, <2>5 DEF PromptRows
        <5> QED BY <1>1, <1>2, <2>5, <2>6, <5>1 DEF PromptRows
      <4>4. IsRow(v)
        <5>1. IsRow(w)
          BY <1>2, <3>1 DEF PromptRows
        <5> QED BY <3>2, <5>1 DEF IsRow
      <4>5. \A r \in rows' : IsRow(r)
        BY <1>2, <3>3, <4>4 DEF PromptRows
      <4>6. \A r \in rows' :
              /\ r.seq \in 1..lastSeq' /\ r.id \in 0..Len(log') /\ r.run \in 0..Len(runs')
              /\ r.run # 0 => r.prompt = runs'[r.run].prompt
              /\ r.run = 0 => r.source = "submit"
        BY <1>1, <3>1, <3>3, <3>4, <4>1, <4>2, <4>3
      <4>7. asked' = [q \in AppPrompts |-> asked'[q]] /\ IsSeq(log') /\ lastSeq' \in Nat
        BY <1>1, <1>2 DEF PromptRows
      <4> QED BY <2>6, <2>11, <4>5, <4>6, <4>7 DEF PromptRows
    <3>8. RowOf(n)' = {v} /\ v \in rows'
      <4>1. \A r \in rows : r.run # n
        BY <1>2, <2>5 DEF PromptRows
      <4> QED BY <3>3, <3>4, <4>1 DEF RowOf
    <3>9. \A i \in DOMAIN runs : RowOf(i)' = RowOf(i)
      BY <2>7, <3>1, <3>3, <3>4 DEF RowOf
    <3>10. \A i \in DOMAIN runs : Lacks(i) => Lacks(i)'
      BY <1>1, <2>6, <3>3 DEF Lacks
    <3>11. RunsHaveRows'
      <4>1. ASSUME NEW i \in DOMAIN runs
            PROVE  (\E r \in rows' : RowOf(i)' = {r}) \/ (RowOf(i)' = {} /\ Lacks(i)')
        <5>1. CASE RowOf(i) = {}
          BY <1>2, <3>9, <3>10, <5>1 DEF RunsHaveRows
        <5>2. CASE RowOf(i) # {}
          <6>1. PICK r \in rows : RowOf(i) = {r}
            BY <1>2, <5>2 DEF RunsHaveRows
          <6>2. r.run = i /\ r # w
            BY <2>7, <3>1, <6>1 DEF RowOf
          <6> QED BY <3>3, <3>9, <6>1, <6>2
        <5> QED BY <5>1, <5>2
      <4> QED BY <2>6, <3>8, <4>1 DEF RunsHaveRows
    <3>12. CapturesFit'
      BY <1>5, <3>3 DEF CapturesFit
    <3> QED BY <1>1, <1>9, <1>11, <1>13, <3>6, <3>7, <3>11, <3>12 DEF Serial
  <2>9. CASE Unlinked = {}
    <3>1. rows' = rows /\ captures' = {[run |-> n, got |-> Unread]}
      BY <1>5, <2>3, <2>9 DEF AttachTurn, Spawns
    <3>2. Unlinked' = {}
      BY <2>9, <3>1 DEF Unlinked
    <3>3. RowOf(n)' = {} /\ \A i : RowOf(i)' = RowOf(i)
      BY <1>2, <2>5, <3>1 DEF RowOf, PromptRows
    <3>4. PromptRows'
      <4>1. ASSUME NEW r \in rows
            PROVE  r.run \in 0..Len(runs') /\ (r.run # 0 => r.prompt = runs'[r.run].prompt)
        <5>1. r.run # 0 => r.run \in DOMAIN runs
          BY <1>2, <2>5 DEF PromptRows
        <5> QED BY <1>2, <2>5, <2>6, <5>1 DEF PromptRows
      <4> QED BY <1>1, <1>2, <2>6, <2>11, <3>1, <4>1 DEF PromptRows
    <3>5. RunsHaveRows'
      <4>1. \A i \in DOMAIN runs : Lacks(i) => Lacks(i)'
        BY <1>1, <1>5, <2>6 DEF Lacks
      <4>2. Lacks(n)'
        BY <3>1 DEF Lacks
      <4> QED BY <1>2, <2>6, <3>1, <3>3, <4>1, <4>2 DEF RunsHaveRows
    <3>6. CapturesFit'
      <4>1. PICK c : c = [run |-> n, got |-> Unread]
        OBVIOUS
      <4>2. PICK i \in DOMAIN log : LastAt(i, p) /\ \A r \in rows : r.id < i
        BY <1>5
      <4>3. i \in DOMAIN log' /\ LastAt(i, p)' /\ \A r \in rows' : r.id < i
        BY <1>1, <3>1, <4>2, LogStays
      <4>4. CaptureFits(c)'
        BY <2>6, <3>3, <4>1, <4>3 DEF CaptureFits
      <4> QED BY <3>1, <4>1, <4>4 DEF CapturesFit
    <3> QED BY <1>1, <1>9, <1>11, <1>13, <3>2, <3>4, <3>5, <3>6 DEF Serial
  <2>10. Unlinked = {} \/ \E w : Unlinked = {w}
    <3>1. \A r, q \in Unlinked : r = q
      BY <1>5 DEF WaitsFor
    <3>2. ASSUME NEW w \in Unlinked PROVE Unlinked = {w}
      BY <3>1
    <3> QED BY <3>2
  <2> QED BY <2>8, <2>9, <2>10
<1> QED BY <1>12, <1>13

(* The last frame of the run closes it, and all is at rest.                *)
LEMMA ClosesKeeps ==
  ASSUME Serial, alone', RunCloses
  PROVE  Serial'
<1>1. /\ frames # <<>> /\ Head(frames).kind = "end" /\ frames' = Tail(frames)
      /\ runs' = IF watching \/ OpenRun = 0 THEN runs
                 ELSE [runs EXCEPT ![OpenRun].last = Head(frames).at]
      /\ UNCHANGED <<queue, active, log, rows, lastSeq, asked, captures, watching, discarded, missed>>
  BY DEF RunCloses, observed
<1>2. /\ PromptRows /\ RunsHaveRows /\ CapturesFit /\ AsksOnce /\ (watching => Unlinked = {} /\ OpenRun = 0)
  BY DEF Serial
<1>3. Handled
  <2>1. ASSUME NEW p, Coming(p) PROVE FALSE
    <3>1. PICK s : StartOf(p, s) /\ Head(frames) = s
      <4>1. PICK s : /\ StartOf(p, s)
                     /\ \/ active = p /\ frames = <<s>>
                        \/ \E e : EndOf(e) /\ active = Nobody /\ frames = <<s, e>>
        BY <1>1, <2>1 DEF Coming
      <4>2. Head(frames) = s
        BY <4>1
      <4> QED BY <4>1, <4>2
    <3> QED BY <1>1, <3>1 DEF StartOf
  <2> QED BY <1>1, <2>1 DEF Serial, AtRest
<1>4. PICK e : EndOf(e) /\ active = Nobody /\ frames = <<e>> /\ queue = <<>> /\ Unlinked = {}
  BY <1>1, <1>3 DEF Handled
<1>5. Head(frames) = e /\ frames' = <<>> /\ e.at \in Nat
  BY <1>1, <1>4 DEF EndOf
<1>6. \A p \in AppPrompts : asked[p] # "written"
  BY <1>1, <1>2 DEF AsksOnce, AtRest
<1>7. Unlinked' = {}
  BY <1>1, <1>4 DEF Unlinked
<1>8. /\ IsSeq(runs') /\ Len(runs') = Len(runs) /\ DOMAIN runs' = DOMAIN runs
      /\ \A i \in DOMAIN runs : IsRun(runs'[i]) /\ runs'[i].prompt = runs[i].prompt
      /\ OpenRun' = 0
  <2>1. CASE OpenRun = 0
    BY <1>1, <1>2, <2>1 DEF PromptRows, OpenRun
  <2>2. CASE OpenRun # 0
    <3>1. PICK n : n = Len(runs)
      OBVIOUS
    <3>2. OpenRun = n /\ runs # <<>> /\ ~watching
      BY <1>2, <2>2, <3>1 DEF OpenRun
    <3>3. IsSeq(runs) /\ n \in Nat /\ DOMAIN runs = 1..n /\ \A i \in DOMAIN runs : IsRun(runs[i])
      BY <1>2, <3>1 DEF PromptRows, IsSeq
    <3>4. n # 0
      BY <3>1, <3>2, <3>3 DEF IsSeq
    <3>5. PICK run : run = [runs[n] EXCEPT !.last = e.at]
      OBVIOUS
    <3>6. runs' = [runs EXCEPT ![n] = run]
      BY <1>1, <1>5, <2>2, <3>2, <3>5
    <3>7. n \in DOMAIN runs /\ IsRun(runs[n])
      BY <3>3, <3>4
    <3>8. IsRun(run) /\ run.prompt = runs[n].prompt /\ run.last = e.at
      BY <3>5, <3>7 DEF IsRun
    <3>9. runs' = [i \in 1..n |-> IF i = n THEN run ELSE runs[i]]
      BY <3>3, <3>6
    <3>10. IsSeq(runs') /\ Len(runs') = n /\ DOMAIN runs' = 1..n /\ runs'[n] = run
           /\ \A i \in 1..n : i # n => runs'[i] = runs[i]
      BY <3>3, <3>7, <3>9 DEF IsSeq
    <3>11. OpenRun' = 0
      BY <1>5, <3>8, <3>10 DEF OpenRun
    <3> QED BY <3>1, <3>3, <3>8, <3>10, <3>11
  <2> QED BY <2>1, <2>2
<1>9. AtRest'
  BY <1>1, <1>4, <1>5, <1>7, <1>8 DEF AtRest
<1>10. PromptRows'
  <2>1. \A r \in rows : r.run # 0 => r.run \in DOMAIN runs
    BY <1>2 DEF PromptRows, IsSeq
  <2> QED BY <1>1, <1>2, <1>8, <2>1 DEF PromptRows
<1>11. \A i \in DOMAIN runs : RowOf(i)' = RowOf(i) /\ (Lacks(i)' <=> Lacks(i))
  BY <1>1, <1>8 DEF RowOf, Lacks
<1>12. RunsHaveRows'
  BY <1>1, <1>2, <1>8, <1>11 DEF RunsHaveRows
<1>13. ASSUME NEW c \in captures PROVE CaptureFits(c)'
  <2>1. CaptureFits(c)
    BY <1>2 DEF CapturesFit
  <2>2. \A i, q : LastAt(i, q)' <=> LastAt(i, q)
    BY <1>1, LogStays
  <2> QED BY <1>1, <1>8, <1>11, <2>1, <2>2 DEF CaptureFits
<1>14. CapturesFit'
  BY <1>1, <1>2, <1>13 DEF CapturesFit
<1>15. AsksOnce'
  BY <1>1, <1>6 DEF AsksOnce
<1> QED BY <1>7, <1>8, <1>9, <1>10, <1>12, <1>14, <1>15 DEF Serial

(* The newest prompt a transcript shows is the one at its last place.      *)
LEMMA NewestIs ==
  ASSUME IsSeq(log), NEW i \in DOMAIN log, NEW p, LastAt(i, p)
  PROVE  NewestPrompt = i
<1>1. DOMAIN log = 1..Len(log) /\ Len(log) \in Nat
  BY DEF IsSeq
<1>2. PICK real : real = {j \in DOMAIN log : log[j] # Summary}
  OBVIOUS
<1>3. i \in real /\ \A j \in real : j <= i /\ j \in Nat
  BY <1>1, <1>2 DEF LastAt
<1>4. (CHOOSE m \in real : \A j \in real : j <= m) = i
  <2>1. \A m \in real : (\A j \in real : j <= m) => m = i
    BY <1>3
  <2> QED BY <1>3, <2>1
<1>5. real # {} /\ NewestPrompt = IF real = {} THEN 0 ELSE CHOOSE m \in real : \A j \in real : j <= m
  BY <1>2, <1>3 DEF NewestPrompt
<1> QED BY <1>4, <1>5

(* With a capture under way no prompt is coming, and none waits.           *)
LEMMA CapturesAlone ==
  ASSUME Serial, NEW c \in captures
  PROVE  /\ captures = {c} /\ CaptureFits(c) /\ (AtRest \/ Handled)
         /\ \A p \in AppPrompts : asked[p] # "written"
  BY DEF Serial, CapturesFit, Coming, AsksOnce

(* A capture reads its prompt, or fails ...                                *)
LEMMA ResumesKeeps ==
  ASSUME Serial, alone', NEW c \in captures, NEW id \in {NewestPrompt, Failed}, CaptureResumes(c, id)
  PROVE  Serial'
<1>1. /\ captures' = (captures \ {c}) \cup {[c EXCEPT !.got = id]} /\ watching' = FALSE
      /\ UNCHANGED <<queue, active, log, frames, rows, lastSeq, runs, asked, discarded, missed>>
  BY DEF CaptureResumes, hermes, history, observed
<1>2. /\ PromptRows /\ RunsHaveRows /\ captures = {c} /\ CaptureFits(c) /\ (AtRest \/ Handled)
      /\ \A p \in AppPrompts : asked[p] # "written"
  BY CapturesAlone DEF Serial
<1>3. PICK d : d = [c EXCEPT !.got = id]
  OBVIOUS
<1>4. captures' = {d} /\ d = [run |-> Len(runs), got |-> id] /\ c.run = Len(runs)
  BY <1>1, <1>2, <1>3 DEF CaptureFits
<1>5. PICK i \in DOMAIN log : LastAt(i, runs[Len(runs)].prompt) /\ \A r \in rows : r.id < i
  BY <1>2 DEF CaptureFits
<1>6. id \in {Unread, Failed, i}
  BY <1>2, <1>5, NewestIs DEF PromptRows
<1>7. LastAt(i, runs[Len(runs)].prompt)'
  BY <1>1, <1>5 DEF LastAt
<1>8. CaptureFits(d)'
  BY <1>1, <1>2, <1>4, <1>5, <1>6, <1>7 DEF CaptureFits, RowOf
<1>9. CapturesFit'
  BY <1>4, <1>8 DEF CapturesFit
<1>10. PromptRows' /\ Unlinked' = Unlinked /\ OpenRun' = OpenRun
  BY <1>1, <1>2 DEF PromptRows, Unlinked, OpenRun
<1>11. \A i_1 : Lacks(i_1) => Lacks(i_1)'
  BY <1>1, <1>2, <1>4 DEF Lacks
<1>12. RunsHaveRows'
  BY <1>1, <1>2, <1>11 DEF RunsHaveRows, RowOf
<1>13. AtRest' \/ Handled'
  BY <1>1, <1>2, <1>10 DEF AtRest, Handled
<1>14. AsksOnce'
  BY <1>1, <1>2 DEF AsksOnce
<1> QED BY <1>1, <1>9, <1>10, <1>12, <1>13, <1>14 DEF Serial

(* ... and gives its run the row, or leaves it without one.                *)
LEMMA StoresKeeps ==
  ASSUME Serial, alone', NEW c \in captures, CaptureStores(c)
  PROVE  Serial'
<1>1. /\ captures' = captures \ {c}
      /\ UNCHANGED <<queue, active, log, frames, runs, asked, watching, discarded>>
      /\ missed' = IF c.got = Failed THEN missed \cup {c.run} ELSE missed
      /\ c.got # Unread
  BY DEF CaptureStores, hermes
<1>2. /\ PromptRows /\ RunsHaveRows /\ captures = {c} /\ CaptureFits(c) /\ (AtRest \/ Handled)
      /\ \A p \in AppPrompts : asked[p] # "written"
      /\ (watching => Unlinked = {} /\ OpenRun = 0)
  BY CapturesAlone DEF Serial
<1>3. PICK n : n = Len(runs)
  OBVIOUS
<1>4. /\ c.run = n /\ n \in DOMAIN runs /\ RowOf(n) = {} /\ n \in Nat \ {0}
      /\ DOMAIN runs = 1..n /\ DOMAIN log = 1..Len(log) /\ Len(log) \in Nat
  <2>1. c.run = Len(runs)
    BY <1>2 DEF CaptureFits
  <2> QED BY <1>2, <1>3, <2>1 DEF CaptureFits, PromptRows, IsSeq
<1>5. PICK i \in DOMAIN log : LastAt(i, runs[n].prompt) /\ c.got \in {Failed, i} /\ \A r \in rows : r.id < i
  BY <1>1, <1>2, <1>3 DEF CaptureFits
<1>6. captures' = {} /\ CapturesFit'
  BY <1>1, <1>2 DEF CapturesFit
<1>7. AsksOnce' /\ OpenRun' = OpenRun
  BY <1>1, <1>2 DEF AsksOnce, OpenRun
<1>8. i # 0 /\ i # Failed /\ i \in Nat
  BY <1>4, <1>5 DEF Failed
<1>9. CASE c.got = Failed
  <2>1. rows' = rows /\ lastSeq' = lastSeq /\ missed' = missed \cup {n}
    BY <1>1, <1>4, <1>9 DEF CaptureStores
  <2>2. PromptRows' /\ Unlinked' = Unlinked
    BY <1>1, <1>2, <2>1 DEF PromptRows, Unlinked
  <2>3. \A k : RowOf(k)' = RowOf(k) /\ (Lacks(k) => Lacks(k)')
    BY <1>1, <1>2, <1>4, <2>1 DEF RowOf, Lacks
  <2>4. RunsHaveRows'
    BY <1>1, <1>2, <2>1, <2>3 DEF RunsHaveRows
  <2>5. AtRest' \/ Handled'
    BY <1>1, <1>2, <1>7, <2>2 DEF AtRest, Handled
  <2> QED BY <1>1, <1>2, <1>6, <1>7, <2>2, <2>4, <2>5 DEF Serial
<1>10. CASE c.got = i
  <2>1. PICK new : new = Row(log[i], n, "backfill", i)
    OBVIOUS
  <2>2. rows' = rows \cup {new} /\ lastSeq' = lastSeq + 1 /\ missed' = missed
    <3>1. ~(\E r \in rows : r.id = i)
      <4>1. \A r \in rows : r.id \in 0..Len(log) /\ r.id < i
        BY <1>2, <1>5 DEF PromptRows
      <4> QED BY <1>8, <4>1
    <3> QED BY <1>1, <1>4, <1>8, <1>10, <2>1, <3>1 DEF CaptureStores, Backfilled, Inserted
  <2>3. /\ IsRow(new) /\ new.run = n /\ new.seq = lastSeq + 1 /\ new.id = i /\ new.source = "backfill"
        /\ new.prompt = runs[n].prompt
    BY <1>5, <2>1 DEF Row, IsRow, LastAt
  <2>4. PromptRows'
    <3>1. /\ lastSeq' \in Nat /\ (\A r \in rows : r.seq \in 1..lastSeq') /\ new.seq \in 1..lastSeq'
      BY <1>2, <2>2, <2>3 DEF PromptRows
    <3>2. new.id \in 0..Len(log) /\ new.run \in 0..Len(runs) /\ new.run # 0
      BY <1>3, <1>4, <2>3
    <3> QED BY <1>1, <1>2, <2>2, <2>3, <3>1, <3>2 DEF PromptRows
  <2>5. Unlinked' = Unlinked
    BY <1>4, <2>2, <2>3 DEF Unlinked
  <2>6. RowOf(n)' = {new} /\ \A k \in DOMAIN runs : k # n => RowOf(k)' = RowOf(k)
    BY <1>4, <2>2, <2>3 DEF RowOf
  <2>7. \A k \in DOMAIN runs : k # n => (Lacks(k) => Lacks(k)')
    BY <1>1, <1>2, <1>4, <2>2 DEF Lacks
  <2>8. RunsHaveRows'
    BY <1>1, <1>2, <2>2, <2>6, <2>7 DEF RunsHaveRows
  <2>9. AtRest' \/ Handled'
    BY <1>1, <1>2, <1>7, <2>5 DEF AtRest, Handled
  <2> QED BY <1>1, <1>2, <1>6, <1>7, <2>4, <2>5, <2>8, <2>9 DEF Serial
<1> QED BY <1>5, <1>9, <1>10

(* Watching, and restarts, which happen while nothing is under way.        *)
LEMMA SameButWatching ==
  ASSUME Serial,
         UNCHANGED <<queue, active, log, frames, rows, lastSeq, runs, asked, captures, discarded, missed>>,
         watching' => Unlinked = {} /\ OpenRun = 0,
         watching' = TRUE => \A p \in AppPrompts : asked[p] # "written"
  PROVE  Serial'
<1>1. /\ PromptRows /\ RunsHaveRows /\ CapturesFit /\ AsksOnce
      /\ AtRest \/ Handled \/ \E q \in UserPrompts : Coming(q)
  BY DEF Serial
<1>2. Unlinked' = Unlinked /\ OpenRun' = OpenRun /\ (\A i : RowOf(i)' = RowOf(i)) /\ \A i : Lacks(i)' <=> Lacks(i)
  BY DEF Unlinked, OpenRun, RowOf, Lacks
<1>3. \A i, q : LastAt(i, q)' <=> LastAt(i, q)
  BY LogStays
<1>4. PromptRows' /\ RunsHaveRows'
  BY <1>1, <1>2 DEF PromptRows, RunsHaveRows
<1>5. CapturesFit'
  BY <1>1, <1>2, <1>3 DEF CapturesFit, CaptureFits
<1>6. (AtRest => AtRest') /\ (Handled => Handled')
  BY <1>2 DEF AtRest, Handled
<1>7. \A q : WaitsFor(q)' <=> WaitsFor(q)
  BY <1>2 DEF WaitsFor
<1>8. \A q : Coming(q) => Coming(q)'
  BY <1>2, <1>3, <1>7 DEF Coming
<1>9. AsksOnce'
  BY <1>1, <1>2, <1>6, <1>7 DEF AsksOnce
<1> QED BY <1>1, <1>2, <1>4, <1>5, <1>6, <1>8, <1>9 DEF Serial

(* A stop with nothing under way changes nothing of the history.           *)
LEMMA RestartKeeps ==
  ASSUME Serial, alone', NEW near \in BOOLEAN, GatewayRestarts(near)
  PROVE  Serial'
<1>1. Settled /\ watching' = FALSE /\ UNCHANGED <<queue, active, log, frames, lastSeq, discarded>>
  BY DEF GatewayRestarts
<1>2. /\ AtRest /\ Unlinked = {} /\ captures = {} /\ PromptRows
      /\ \A p \in AppPrompts : asked[p] # "written"
  BY <1>1, SettledIsRest DEF Serial
<1>3. asked' = asked
  <2>1. \A p \in AppPrompts : asked[p] \notin {"written", "accepted"}
    BY <1>1 DEF Settled
  <2>2. asked' = [p \in AppPrompts |-> asked[p]]
    BY <2>1 DEF GatewayRestarts
  <2> QED BY <1>2, <2>2 DEF PromptRows
<1>4. captures' = captures /\ missed' = missed
  BY <1>2 DEF GatewayRestarts
<1>5. runs' = runs
  BY <1>2 DEF GatewayRestarts, AtRest
<1>6. rows' = rows
  <2>1. \A r \in rows : r.run # 0
    BY <1>2 DEF Unlinked
  <2>2. PICK place : place = [r \in rows |-> Placed(r, near)']
    OBVIOUS
  <2>3. rows' = {IF r.run = 0 THEN [r EXCEPT !.run = place[r]] ELSE r : r \in rows}
    BY <2>1 DEF GatewayRestarts
  <2> QED BY <2>1, <2>3
<1> QED BY <1>1, <1>2, <1>3, <1>4, <1>5, <1>6, SameButWatching

(* A session is watched, or no longer.                                     *)
LEMMA WatchKeeps ==
  ASSUME Serial, alone', Watch \/ Unwatch
  PROVE  Serial'
<1>1. UNCHANGED <<queue, active, log, frames, rows, lastSeq, runs, asked, captures, discarded, missed>>
  BY DEF Watch, Unwatch, hermes, history, observed
<1>2. CASE Watch
  <2>1. Settled
    BY <1>2 DEF Watch
  <2>2. OpenRun = 0 /\ Unlinked = {} /\ \A p \in AppPrompts : asked[p] # "written"
    BY <2>1, SettledIsRest DEF AtRest
  <2> QED BY <1>1, <2>2, SameButWatching
<1>3. CASE Unwatch
  <2>1. watching' = FALSE
    BY <1>3 DEF Unwatch
  <2> QED BY <1>1, <2>1, SameButWatching
<1> QED BY <1>2, <1>3

(* Every step keeps it.                                                    *)
LEMMA PromptStep ==
  ASSUME PromptIInv, [PromptNext]_chatVars
  PROVE  PromptIInv'
<1> SUFFICES ASSUME alone' PROVE Serial'
  BY DEF PromptIInv
<1>1. CASE UNCHANGED chatVars
  <2>1. alone /\ UNCHANGED <<queue, active, log, frames, rows, lastSeq, runs, asked, captures,
                            watching, discarded, missed>>
    BY <1>1 DEF chatVars, hermes, history, observed
  <2>2. Serial
    BY <2>1 DEF PromptIInv
  <2>3. (watching => Unlinked = {} /\ OpenRun = 0) /\ AsksOnce
    BY <2>2 DEF Serial
  <2> QED BY <2>1, <2>2, <2>3, SameButWatching DEF AsksOnce
<1>2. CASE PromptNext
  <2>1. alone
    BY <1>2 DEF PromptNext, TurnBegins, TurnEnds, Compaction, ForeignPrompt, SubmitWrites,
                HermesAccepts, SubmitAnswered, SubmitFails, RunOpens, RunCloses, CaptureResumes,
                CaptureStores, Watch, Unwatch, GatewayRestarts, observed
  <2>2. Serial
    BY <2>1 DEF PromptIInv
  <2>3. CASE TurnBegins \/ TurnEnds \/ Compaction
    BY <2>2, <2>3, BeginsKeeps, TurnEndsKeeps, CompactionKeeps
  <2>4. CASE RunOpens \/ RunCloses
    BY <2>2, <2>4, OpensKeeps, ClosesKeeps
  <2>5. CASE \E p \in ForeignPrompts : ForeignPrompt(p)
    BY <2>2, <2>5, ForeignKeeps
  <2>6. CASE \E p \in AppPrompts :
               SubmitWrites(p) \/ HermesAccepts(p) \/ SubmitAnswered(p) \/ SubmitFails(p)
    BY <2>2, <2>6, WritesKeeps, AcceptsKeeps, AnsweredKeeps, FailsKeeps
  <2>7. CASE \E c \in captures :
               CaptureResumes(c, NewestPrompt) \/ CaptureResumes(c, Failed) \/ CaptureStores(c)
    BY <2>2, <2>7, ResumesKeeps, StoresKeeps
  <2>8. CASE Watch \/ Unwatch
    BY <2>2, <2>8, WatchKeeps
  <2>9. CASE \E near \in BOOLEAN : GatewayRestarts(near)
    BY <2>2, <2>9, RestartKeeps
  <2> QED BY <1>2, <2>3, <2>4, <2>5, <2>6, <2>7, <2>8, <2>9 DEF PromptNext
<1> QED BY <1>1, <1>2

(* It implies the property.                                                *)
LEMMA PromptShows == PromptIInv => OwnPrompt
<1> SUFFICES ASSUME Serial PROVE
      /\ \A r \in rows : r.run # 0 => r.prompt = runs[r.run].prompt
      /\ \A i \in DOMAIN runs :
           LET shown == {r \in rows : r.run = i}
           IN \/ Cardinality(shown) = 1
              \/ /\ shown = {}
                 /\ \/ i \in missed \cup {c.run : c \in captures}
                    \/ runs[i].prompt \in discarded
  BY DEF PromptIInv, OwnPrompt
<1>1. \A r \in rows : r.run # 0 => r.prompt = runs[r.run].prompt
  BY DEF Serial, PromptRows
<1>2. ASSUME NEW i \in DOMAIN runs
      PROVE  Cardinality(RowOf(i)) = 1 \/ (RowOf(i) = {} /\ Lacks(i))
  <2>1. \A r : Cardinality({r}) = 1
    BY FS_Singleton
  <2> QED BY <2>1 DEF Serial, RunsHaveRows
<1> QED BY <1>1, <1>2 DEF RowOf, Lacks

(* While every client waits for the prompt before its own, each row of the *)
(* history belongs to the run its prompt started, and each run has the     *)
(* row of its prompt: however long the runs, the transcripts and their     *)
(* compactions, and wherever the gateway stops.                            *)
THEOREM PromptsFindTheirRuns == PromptSpec => []OwnPrompt
<1>1. PromptInit => PromptIInv
  BY PromptStarts
<1>2. PromptIInv /\ [PromptNext]_chatVars => PromptIInv'
  BY PromptStep
<1>3. PromptIInv => OwnPrompt
  BY PromptShows
<1> QED BY <1>1, <1>2, <1>3, PTL DEF PromptSpec

-----------------------------------------------------------------------------
(* ProfileAdmin: the models that were chosen can be used.                  *)

AgentRows == [provider : Providers, by : Nat, defined : SUBSET Providers, since : Nat]
Calls ==
  [at : {"write", "mirror", "read"}, op : {"create", "model", "rename", "delete"},
   name : AgentNames, to : AgentNames, provider : Providers, number : Nat \ {0}]
Resolutions ==
  [at : {"profiles"}, name : AgentNames, began : Nat, asked : Nat]
    \cup [at : {"options"}, name : AgentNames, began : Nat, asked : Nat, provider : Providers]
LastUses == [at : {"used"}, name : AgentNames, provider : Providers, now : Nat]

AdminTypes ==
  /\ agents \in [DOMAIN agents -> AgentRows]
  /\ call \in [Admins -> {NoCall} \cup Calls]
  /\ endpoints \in [DOMAIN endpoints -> [provider : Providers, at : Nat]]
  /\ DOMAIN endpoints \subseteq AgentNames
  /\ resolving \in {NoCall} \cup Resolutions
  /\ used \in {NoCall} \cup LastUses
  /\ answered \subseteq Nat /\ now \in Nat /\ writes \in Nat

(* Every write has a number of its own, and an agent names the last write  *)
(* that gave it its model, 0 for none.                                     *)
NumbersKept ==
  /\ answered \subseteq 1 .. writes
  /\ \A n \in DOMAIN agents : agents[n].by \in 0 .. writes
  /\ \A r \in Admins : call[r] # NoCall =>
       /\ call[r].number \in (1 .. writes) \ answered
       /\ \A s \in Admins : call[s] # NoCall /\ call[s].number = call[r].number => s = r

Usable(n) == agents[n].provider \in Mirrorable => agents[n].provider \in agents[n].defined

(* Before its write no agent has a call's number; while the provider is    *)
(* still to be mirrored only the agent of that name; and from then on one  *)
(* that has it is usable.                                                  *)
CallKept(r) ==
  \A n \in DOMAIN agents : call[r] # NoCall /\ agents[n].by = call[r].number =>
    /\ call[r].at # "write"
    /\ call[r].at = "mirror" => n = call[r].name /\ agents[n].provider = call[r].provider
    /\ call[r].at = "read" => Usable(n)

WritesKept ==
  /\ \A r \in Admins : CallKept(r)
  /\ \A n \in DOMAIN agents : agents[n].by \in answered => Usable(n)

(* If n has another model by now than p, it was changed at t or later.     *)
ChangedSince(n, p, t) == There(n) /\ agents[n].provider # p => agents[n].since >= t

EndpointsKept ==
  /\ \A n \in DOMAIN agents : agents[n].since <= now
  /\ \A n \in DOMAIN endpoints :
       endpoints[n].at <= now /\ ChangedSince(n, endpoints[n].provider, endpoints[n].at)
  /\ resolving # NoCall =>
       resolving.began <= resolving.asked /\ resolving.asked <= now /\ now <= resolving.asked + CallTimeout
  /\ resolving.at = "options" => ChangedSince(resolving.name, resolving.provider, resolving.asked)
  /\ used # NoCall =>
       used.now <= now /\ ChangedSince(used.name, used.provider, used.now + 1 - Staleness)

AdminIInv == AdminTypes /\ NumbersKept /\ WritesKept /\ EndpointsKept

(* It holds at the start.                                                  *)
LEMMA AdminInitIInv == AdminInit => AdminIInv
<1> SUFFICES ASSUME AdminInit PROVE AdminIInv
  OBVIOUS
<1>1. PICK p \in Hosted :
        agents = [n \in FirstAgents |-> [provider |-> p, by |-> 0, defined |-> {}, since |-> 0]]
  BY DEF AdminInit
<1>2. AdminTypes
  BY <1>1 DEF AdminInit, AdminTypes, AgentRows, Providers
<1>3. NumbersKept /\ WritesKept /\ EndpointsKept
  BY <1>1 DEF AdminInit, NumbersKept, WritesKept, CallKept, EndpointsKept, ChangedSince, NoCall
<1> QED BY <1>2, <1>3 DEF AdminIInv

(* What a write makes of the agents: each is as it was, or has the model   *)
(* of the call, or is the one that was renamed, whose writer is forgotten  *)
(* while the provider is still to be mirrored.                             *)
AsItWas(after, n) == n \in DOMAIN agents /\ after[n] = agents[n]
HasModelOf(after, n, c) ==
  /\ c.op \in {"create", "model"} /\ n = c.name
  /\ after[n].provider = c.provider /\ after[n].by = c.number /\ after[n].since = now
IsRenamed(after, n, c) ==
  /\ c.op = "rename" /\ c.name \in DOMAIN agents /\ after[n].since = now
  /\ after[n].provider = agents[c.name].provider /\ after[n].defined = agents[c.name].defined
  /\ after[n].by = WriterOf(c.name)

(* A call that is applied writes a profile's model, its providers, or      *)
(* both.                                                                   *)
LEMMA WriteIsOneOfThree ==
  ASSUME AdminTypes, NEW c \in Calls, Applies(c)
  PROVE  /\ Applied(c) \in [DOMAIN Applied(c) -> AgentRows]
         /\ \A n \in DOMAIN Applied(c) :
              AsItWas(Applied(c), n) \/ HasModelOf(Applied(c), n, c) \/ IsRenamed(Applied(c), n, c)
<1> USE DEF AsItWas, HasModelOf, IsRenamed
<1>1. c.op \in {"create", "model", "rename", "delete"}
  BY DEF Calls
<1>2. c.provider \in Providers /\ c.number \in Nat /\ now \in Nat
  BY DEF Calls, AdminTypes
<1>3. CASE c.op = "create"
  BY <1>2, <1>3 DEF Applied, AdminTypes, AgentRows
<1>4. CASE c.op = "model"
  <2>1. c.name \in DOMAIN agents
    BY <1>4 DEF Applies, Accepts, There
  <2>2. Applied(c) = [agents EXCEPT ![c.name] =
          [provider |-> c.provider, by |-> c.number, defined |-> @.defined, since |-> now]]
    BY <1>4 DEF Applied
  <2> QED BY <1>2, <1>4, <2>1, <2>2 DEF AdminTypes, AgentRows
<1>5. CASE c.op = "rename"
  <2>1. c.name \in DOMAIN agents
    BY <1>5 DEF Applies, Accepts, There
  <2>2. WriterOf(c.name) \in Nat
    BY <2>1 DEF WriterOf, AdminTypes, AgentRows
  <2>3. Applied(c) = [n \in (DOMAIN agents \ {c.name}) \cup {c.to} |-> IF n = c.to
              THEN [agents[c.name] EXCEPT !.since = now, !.by = WriterOf(c.name)]
              ELSE agents[n]]
    BY <1>5 DEF Applied
  <2> DEFINE moved == [agents[c.name] EXCEPT !.since = now, !.by = WriterOf(c.name)]
  <2>4. /\ moved \in AgentRows /\ moved.since = now /\ moved.by = WriterOf(c.name)
        /\ moved.provider = agents[c.name].provider /\ moved.defined = agents[c.name].defined
    <3> HIDE DEF WriterOf
    <3> QED BY <1>2, <2>1, <2>2 DEF AdminTypes, AgentRows
  <2> HIDE DEF moved
  <2>5. Applied(c) = [n \in (DOMAIN agents \ {c.name}) \cup {c.to} |-> IF n = c.to THEN moved ELSE agents[n]]
    BY <2>3 DEF moved
  <2> QED BY <1>5, <2>1, <2>4, <2>5 DEF AdminTypes
<1>6. CASE c.op = "delete"
  BY <1>6 DEF Applied, AdminTypes
<1> QED BY <1>1, <1>3, <1>4, <1>5, <1>6

(* A write changes models now, so that who had a model before has it, or   *)
(* was changed late enough.                                                *)
LEMMA WriteKeepsEndpoints ==
  ASSUME AdminIInv, NEW c \in Calls, Applies(c), agents' = Applied(c),
         UNCHANGED <<endpoints, resolving, used, now>>
  PROVE  EndpointsKept'
<1>1. AdminTypes /\ EndpointsKept
  BY DEF AdminIInv
<1>2. agents' \in [DOMAIN agents' -> AgentRows]
  BY <1>1, WriteIsOneOfThree
<1>3. \A n \in DOMAIN agents' : (n \in DOMAIN agents /\ agents'[n] = agents[n]) \/ agents'[n].since = now
  BY <1>1, WriteIsOneOfThree DEF AsItWas, HasModelOf, IsRenamed
<1>4. now \in Nat /\ Staleness \in Nat /\ Staleness > 0
  BY <1>1, TtlAssumption DEF AdminTypes, Staleness
<1>5. \A n, p : \A t \in Int : t <= now /\ ChangedSince(n, p, t) => ChangedSince(n, p, t)'
  BY <1>3, <1>4 DEF ChangedSince, There
<1>6. \A n \in DOMAIN agents' : agents'[n].since <= now
  BY <1>1, <1>3, <1>4 DEF EndpointsKept
<1>7. \A n \in DOMAIN endpoints :
        endpoints[n].at <= now /\ ChangedSince(n, endpoints[n].provider, endpoints[n].at)'
  BY <1>1, <1>5 DEF EndpointsKept, AdminTypes
<1>8. resolving.at = "options" => ChangedSince(resolving.name, resolving.provider, resolving.asked)'
  <2>1. SUFFICES ASSUME resolving.at = "options"
                 PROVE  ChangedSince(resolving.name, resolving.provider, resolving.asked)'
    OBVIOUS
  <2>2. resolving # NoCall /\ resolving.asked \in Nat
    BY <1>1, <2>1 DEF AdminTypes, Resolutions, NoCall
  <2> QED BY <1>1, <1>5, <2>1, <2>2 DEF EndpointsKept
<1>9. used # NoCall => used.now <= now /\ ChangedSince(used.name, used.provider, used.now + 1 - Staleness)'
  <2>1. SUFFICES ASSUME used # NoCall
                 PROVE  used.now <= now /\ ChangedSince(used.name, used.provider, used.now + 1 - Staleness)'
    OBVIOUS
  <2>2. used.now \in Nat
    BY <1>1, <2>1 DEF AdminTypes, LastUses
  <2>3. used.now <= now /\ ChangedSince(used.name, used.provider, used.now + 1 - Staleness)
    BY <1>1, <2>1 DEF EndpointsKept
  <2>4. used.now + 1 - Staleness \in Int /\ used.now + 1 - Staleness <= now
    BY <1>4, <2>2, <2>3
  <2> HIDE DEF ChangedSince
  <2> QED BY <1>5, <2>3, <2>4
<1> QED BY <1>1, <1>6, <1>7, <1>8, <1>9 DEF EndpointsKept, ChangedSince

(* The agents after a write, of a call that goes on or of one that ends    *)
(* badly.                                                                  *)
LEMMA WriteKeepsNumbers ==
  ASSUME AdminIInv, NEW r \in Admins, call[r].at = "write", Applies(call[r]),
         agents' = Applied(call[r]), UNCHANGED <<answered, writes>>,
         \A s \in Admins \ {r} : call'[s] = call[s],
         \/ call'[r] = NoCall
         \/ call'[r] = [call[r] EXCEPT !.at = IF MustMirror(call[r]) THEN "mirror" ELSE "read"]
  PROVE  NumbersKept' /\ WritesKept'
<1> DEFINE c == call[r]
<1>1. AdminTypes /\ NumbersKept /\ WritesKept
  BY DEF AdminIInv
<1>2. c \in Calls /\ c # NoCall
  BY <1>1 DEF AdminTypes, NoCall
<1>3. /\ agents' \in [DOMAIN agents' -> AgentRows]
      /\ \A n \in DOMAIN agents' :
           AsItWas(agents', n) \/ HasModelOf(agents', n, c) \/ IsRenamed(agents', n, c)
  BY <1>1, <1>2, WriteIsOneOfThree
<1>4. \A n \in DOMAIN agents : agents[n].by # c.number
  BY <1>1, <1>2 DEF WritesKept, CallKept
<1>5. c.number \in (1 .. writes) \ answered /\ writes \in Nat
  BY <1>1, <1>2 DEF NumbersKept, AdminTypes
<1>6. \A n \in DOMAIN agents : WriterOf(n) \in {0, agents[n].by}
  BY DEF WriterOf
<1>7. \A n \in DOMAIN agents' : agents'[n].by \in 0 .. writes
  BY <1>1, <1>3, <1>5, <1>6 DEF AsItWas, HasModelOf, IsRenamed, NumbersKept
<1>8. \A s \in Admins : call'[s] # NoCall => call[s] # NoCall /\ call'[s].number = call[s].number
  BY <1>2 DEF Calls
<1>9. NumbersKept'
  BY <1>1, <1>7, <1>8 DEF NumbersKept
<1>10. ASSUME NEW n \in DOMAIN agents', agents'[n].by \in answered PROVE Usable(n)'
  <2>1. 0 \notin answered
    BY <1>1, <1>5 DEF NumbersKept
  <2>2. CASE AsItWas(agents', n)
    BY <1>1, <1>10, <2>2 DEF AsItWas, WritesKept, Usable
  <2>3. CASE HasModelOf(agents', n, c)
    BY <1>5, <1>10, <2>3 DEF HasModelOf
  <2>4. CASE IsRenamed(agents', n, c)
    BY <1>1, <1>6, <1>10, <2>1, <2>4 DEF IsRenamed, WritesKept, Usable
  <2> QED BY <1>3, <2>2, <2>3, <2>4
<1>11. ASSUME NEW s \in Admins \ {r} PROVE CallKept(s)'
  <2> SUFFICES ASSUME NEW n \in DOMAIN agents', call[s] # NoCall, agents'[n].by = call[s].number
               PROVE  /\ call[s].at # "write"
                      /\ call[s].at = "mirror" => n = call[s].name /\ agents'[n].provider = call[s].provider
                      /\ call[s].at = "read" => Usable(n)'
    BY DEF CallKept
  <2>1. call[s].number \in 1 .. writes /\ call[s].number # c.number
    BY <1>1, <1>2, <1>5 DEF NumbersKept
  <2>2. CASE AsItWas(agents', n)
    BY <1>1, <2>2 DEF AsItWas, WritesKept, CallKept, Usable
  <2>3. CASE HasModelOf(agents', n, c)
    BY <2>1, <2>3 DEF HasModelOf
  <2>4. CASE IsRenamed(agents', n, c)
    <3>1. c.name \in DOMAIN agents /\ agents'[n].by = WriterOf(c.name)
      BY <2>4 DEF IsRenamed
    <3>2. agents[c.name].by = call[s].number
      BY <1>6, <2>1, <3>1
    <3>3. ~(call[s].at = "mirror")
      BY <2>1, <3>1, <3>2 DEF WriterOf
    <3> QED BY <1>1, <2>4, <3>1, <3>2, <3>3 DEF IsRenamed, WritesKept, CallKept, Usable
  <2> QED BY <1>3, <2>2, <2>3, <2>4
<1>12. CallKept(r)'
  <2> SUFFICES ASSUME NEW n \in DOMAIN agents', call'[r] # NoCall, agents'[n].by = call'[r].number
               PROVE  /\ call'[r].at # "write"
                      /\ call'[r].at = "mirror" => n = call'[r].name /\ agents'[n].provider = call'[r].provider
                      /\ call'[r].at = "read" => Usable(n)'
    BY DEF CallKept
  <2>1. /\ call'[r].number = c.number /\ call'[r].name = c.name /\ call'[r].provider = c.provider
        /\ call'[r].at = IF MustMirror(c) THEN "mirror" ELSE "read"
    BY <1>2 DEF Calls
  <2>2. HasModelOf(agents', n, c)
    BY <1>3, <1>4, <1>5, <1>6, <2>1 DEF AsItWas, IsRenamed
  <2>3. MustMirror(c) <=> c.provider \in Mirrorable
    BY <2>2 DEF MustMirror, HasModelOf
  <2> QED BY <2>1, <2>2, <2>3 DEF HasModelOf, Usable
<1>13. WritesKept'
  BY <1>10, <1>11, <1>12 DEF WritesKept
<1> QED BY <1>9, <1>13

(* A call comes in, with a number nobody has.                              *)
LEMMA AsksKeep ==
  ASSUME AdminIInv, NEW r \in Admins, CreateProfile(r) \/ SetModel(r) \/ Rename(r) \/ Delete(r)
  PROVE  AdminIInv'
<1>1. AdminTypes /\ NumbersKept /\ WritesKept /\ EndpointsKept
  BY DEF AdminIInv
<1>2. PICK op \in {"create", "model", "rename", "delete"}, n \in AgentNames, to \in AgentNames,
           p \in Providers : AdminAsks(r, op, n, to, p)
  BY DEF CreateProfile, SetModel, Rename, Delete, Providers
<1> DEFINE c == [at |-> "write", op |-> op, name |-> n, to |-> to, provider |-> p, number |-> writes + 1]
<1>3. /\ call[r] = NoCall /\ call' = [call EXCEPT ![r] = c] /\ writes' = writes + 1
      /\ UNCHANGED <<agents, answered, endpoints, resolving, used, now>>
  BY <1>2 DEF AdminAsks, rewriteVars
<1>4. c \in Calls /\ writes \in Nat
  BY <1>1 DEF Calls, AdminTypes
<1>5. AdminTypes'
  BY <1>1, <1>3, <1>4 DEF AdminTypes
<1>6. NumbersKept'
  BY <1>1, <1>3, <1>4 DEF NumbersKept, AdminTypes
<1>7. WritesKept'
  <2>1. \A s \in Admins \ {r} : CallKept(s)'
    BY <1>1, <1>3 DEF WritesKept, CallKept, Usable, AdminTypes
  <2>2. CallKept(r)'
    BY <1>1, <1>3, <1>4 DEF CallKept, NumbersKept, AdminTypes
  <2> QED BY <1>1, <1>3, <2>1, <2>2 DEF WritesKept, Usable
<1>8. EndpointsKept'
  BY <1>1, <1>3 DEF EndpointsKept, ChangedSince, There
<1> QED BY <1>5, <1>6, <1>7, <1>8 DEF AdminIInv

(* A write, done or failed.                                                *)
LEMMA WritesAreKept ==
  ASSUME AdminIInv, NEW r \in Admins, Write(r) \/ AdminWriteFails(r)
  PROVE  AdminIInv'
<1>1. AdminTypes /\ NumbersKept /\ WritesKept /\ EndpointsKept
  BY DEF AdminIInv
<1>2. call[r].at = "write" /\ UNCHANGED <<answered, writes, endpoints, resolving, used, now>>
  BY DEF Write, AdminWriteFails, AdminGoes, AdminEnds, rewriteVars
<1>3. call[r] \in Calls /\ call[r] # NoCall
  BY <1>1, <1>2 DEF AdminTypes, NoCall
<1>4. \A s \in Admins \ {r} : call'[s] = call[s]
  BY <1>1 DEF Write, AdminWriteFails, AdminGoes, AdminEnds, AdminTypes
<1>5. \/ call'[r] = NoCall
      \/ call'[r] = [call[r] EXCEPT !.at = IF MustMirror(call[r]) THEN "mirror" ELSE "read"] /\ Write(r)
  BY <1>1 DEF Write, AdminWriteFails, AdminGoes, AdminEnds, AdminTypes
<1>6. call' \in [Admins -> {NoCall} \cup Calls]
  <2>1. [call[r] EXCEPT !.at = IF MustMirror(call[r]) THEN "mirror" ELSE "read"] \in Calls
    BY <1>3 DEF Calls
  <2>2. call' = [s \in Admins |-> call'[s]]
    BY <1>1 DEF Write, AdminWriteFails, AdminGoes, AdminEnds, AdminTypes
  <2> QED BY <1>1, <1>4, <1>5, <2>1, <2>2 DEF AdminTypes
<1>7. CASE call'[r] = NoCall /\ agents' = agents
  <2>2. AdminTypes'
    BY <1>1, <1>2, <1>6, <1>7 DEF AdminTypes
  <2>3. NumbersKept' /\ WritesKept'
    BY <1>1, <1>2, <1>4, <1>7 DEF NumbersKept, WritesKept, CallKept, Usable
  <2>4. EndpointsKept'
    BY <1>1, <1>2, <1>7 DEF EndpointsKept, ChangedSince, There
  <2> QED BY <2>2, <2>3, <2>4 DEF AdminIInv
<1>8. CASE Applies(call[r]) /\ agents' = Applied(call[r])
  <2>1. AdminTypes'
    BY <1>1, <1>2, <1>3, <1>6, <1>8, WriteIsOneOfThree DEF AdminTypes
  <2>2. NumbersKept' /\ WritesKept'
    BY <1>2, <1>4, <1>5, <1>8, WriteKeepsNumbers
  <2>3. EndpointsKept'
    BY <1>2, <1>3, <1>8, WriteKeepsEndpoints
  <2> QED BY <2>1, <2>2, <2>3 DEF AdminIInv
<1> QED BY <1>1, <1>7, <1>8 DEF Write, AdminWriteFails, AdminEnds, AdminTypes

(* The provider is mirrored, or is not; the row is read back.              *)
LEMMA CallsGoOn ==
  ASSUME AdminIInv, NEW r \in Admins, Mirror(r) \/ MirrorFails(r) \/ ReadBack(r)
  PROVE  AdminIInv'
<1>1. AdminTypes /\ NumbersKept /\ WritesKept /\ EndpointsKept
  BY DEF AdminIInv
<1>2. UNCHANGED <<writes, endpoints, resolving, used, now>>
  BY DEF Mirror, MirrorFails, ReadBack, rewriteVars
<1>3. call[r] \in Calls /\ call[r] # NoCall /\ \A s \in Admins \ {r} : call'[s] = call[s]
  BY <1>1 DEF Mirror, MirrorFails, ReadBack, AdminGoes, AdminEnds, AdminTypes, NoCall
<1>4. CASE Mirror(r)
  <2> DEFINE c == call[r]
  <2>1. /\ c.at = "mirror" /\ There(c.name) /\ answered' = answered
        /\ agents' = [agents EXCEPT ![c.name].defined = @ \cup {c.provider}]
        /\ call' = [call EXCEPT ![r].at = "read"]
    BY <1>4 DEF Mirror, AdminGoes
  <2>2. /\ call'[r] = [c EXCEPT !.at = "read"] /\ call'[r] \in Calls
        /\ call' \in [Admins -> {NoCall} \cup Calls]
    BY <1>1, <1>3, <2>1 DEF AdminTypes, Calls
  <2>3. /\ DOMAIN agents' = DOMAIN agents
        /\ agents' \in [DOMAIN agents -> AgentRows]
        /\ \A n \in DOMAIN agents : /\ agents'[n].provider = agents[n].provider
                                   /\ agents'[n].by = agents[n].by
                                   /\ agents'[n].since = agents[n].since
                                   /\ agents[n].defined \subseteq agents'[n].defined
        /\ c.provider \in agents'[c.name].defined
    <3>1. c.name \in DOMAIN agents /\ c.provider \in Providers
      BY <1>3, <2>1 DEF There, Calls
    <3> QED BY <1>1, <2>1, <3>1 DEF AdminTypes, AgentRows
  <2>4. AdminTypes'
    BY <1>1, <1>2, <2>1, <2>2, <2>3 DEF AdminTypes
  <2>5. \A s \in Admins : call'[s] # NoCall => call[s] # NoCall /\ call'[s].number = call[s].number
    BY <1>3, <2>2 DEF Calls
  <2>6. NumbersKept'
    BY <1>1, <1>2, <2>1, <2>3, <2>5 DEF NumbersKept
  <2>7. \A n \in DOMAIN agents : Usable(n) => Usable(n)'
    BY <2>3 DEF Usable
  <2>8. \A s \in Admins \ {r} : CallKept(s)'
    BY <1>1, <1>3, <2>3, <2>7 DEF WritesKept, CallKept
  <2>9. CallKept(r)'
    BY <1>1, <1>3, <2>1, <2>2, <2>3 DEF WritesKept, CallKept, Usable, Calls
  <2>10. WritesKept'
    BY <1>1, <2>1, <2>3, <2>7, <2>8, <2>9 DEF WritesKept
  <2>11. EndpointsKept'
    BY <1>1, <1>2, <2>3 DEF EndpointsKept, ChangedSince, There
  <2> QED BY <2>4, <2>6, <2>10, <2>11 DEF AdminIInv
<1>5. CASE MirrorFails(r) \/ ReadBack(r)
  <2>1. /\ agents' = agents /\ call'[r] = NoCall
        /\ answered' = answered \/ (call[r].at = "read" /\ answered' = answered \cup {call[r].number})
    BY <1>1, <1>5 DEF MirrorFails, ReadBack, AdminEnds, AdminTypes
  <2>2. call' \in [Admins -> {NoCall} \cup Calls]
    BY <1>1, <1>5 DEF MirrorFails, ReadBack, AdminEnds, AdminTypes
  <2>3. AdminTypes'
    BY <1>1, <1>2, <1>3, <2>1, <2>2 DEF AdminTypes, Calls
  <2>4. NumbersKept'
    BY <1>1, <1>2, <1>3, <2>1 DEF NumbersKept
  <2>5. WritesKept'
    BY <1>1, <1>3, <2>1 DEF WritesKept, CallKept, Usable
  <2>6. EndpointsKept'
    BY <1>1, <1>2, <2>1 DEF EndpointsKept, ChangedSince, There
  <2> QED BY <2>3, <2>4, <2>5, <2>6 DEF AdminIInv
<1> QED BY <1>4, <1>5

(* A rewrite asks, from the cache or of Hermes, and time passes.           *)
LEMMA RewritesKeep ==
  ASSUME AdminIInv, Tick \/ ProfilesRead \/ OptionsRead \/ \E n \in AgentNames : Hit(n) \/ Miss(n)
  PROVE  AdminIInv'
<1>1. AdminTypes /\ NumbersKept /\ WritesKept /\ EndpointsKept
  BY DEF AdminIInv
<1>2. UNCHANGED <<agents, call, answered, writes>>
  BY DEF Tick, ProfilesRead, OptionsRead, Hit, Miss, requestVars
<1>3. NumbersKept' /\ WritesKept'
  BY <1>1, <1>2 DEF NumbersKept, WritesKept, CallKept, Usable
<1>4. /\ now \in Nat /\ Ttl \in Nat /\ CallTimeout \in Nat
      /\ Staleness \in Nat /\ CallTimeout < Staleness /\ Ttl <= Staleness
  BY <1>1, TtlAssumption DEF AdminTypes, Staleness
<1>5. NoCall.at = "none" /\ \A n \in DOMAIN agents : agents[n].since \in Nat
  BY <1>1 DEF NoCall, AdminTypes, AgentRows
<1>6. CASE Tick
  <2>1. now' = now + 1 /\ UNCHANGED <<endpoints, resolving, used>>
        /\ (resolving # NoCall => now < resolving.asked + CallTimeout)
    BY <1>6 DEF Tick, rewriteVars
  <2>2. AdminTypes'
    BY <1>1, <1>2, <2>1 DEF AdminTypes
  <2>3. EndpointsKept'
    <3>1. resolving # NoCall => resolving.began \in Nat /\ resolving.asked \in Nat
      BY <1>1 DEF AdminTypes, Resolutions
    <3>2. used # NoCall => used.now \in Nat
      BY <1>1 DEF AdminTypes, LastUses
    <3>3. \A n \in DOMAIN endpoints : endpoints[n].at \in Nat
      BY <1>1 DEF AdminTypes
    <3> QED BY <1>1, <1>2, <1>4, <1>5, <2>1, <3>1, <3>2, <3>3 DEF EndpointsKept, ChangedSince, There
  <2> QED BY <1>3, <2>2, <2>3 DEF AdminIInv
<1>7. CASE ProfilesRead
  <2>1. resolving.at = "profiles" /\ resolving # NoCall /\ UNCHANGED <<endpoints, used, now>>
    BY <1>5, <1>7 DEF ProfilesRead
  <2>2. resolving.name \in AgentNames /\ resolving.began \in Nat /\ resolving.asked \in Nat
    BY <1>1, <2>1 DEF AdminTypes, Resolutions
  <2>3. CASE ~There(resolving.name)
    <3>1. resolving' = NoCall
      BY <1>7, <2>3 DEF ProfilesRead
    <3>2. AdminTypes'
      BY <1>1, <1>2, <2>1, <3>1 DEF AdminTypes
    <3>3. EndpointsKept'
      BY <1>1, <1>2, <1>5, <2>1, <3>1 DEF EndpointsKept, ChangedSince, There
    <3> QED BY <1>3, <3>2, <3>3 DEF AdminIInv
  <2>4. CASE There(resolving.name)
    <3>1. resolving' = [at |-> "options", name |-> resolving.name, began |-> resolving.began,
                        asked |-> now, provider |-> agents[resolving.name].provider]
      BY <1>7, <2>4 DEF ProfilesRead
    <3>2. resolving' \in Resolutions
      BY <1>1, <1>4, <2>2, <2>4, <3>1 DEF Resolutions, There, AdminTypes, AgentRows
    <3>3. AdminTypes'
      BY <1>1, <1>2, <2>1, <3>2 DEF AdminTypes
    <3>4. resolving.began <= now
      BY <1>1, <1>4, <2>1, <2>2 DEF EndpointsKept
    <3>5. EndpointsKept'
      BY <1>1, <1>2, <1>4, <2>1, <3>1, <3>4 DEF EndpointsKept, ChangedSince, There
    <3> QED BY <1>3, <3>3, <3>5 DEF AdminIInv
  <2> QED BY <2>3, <2>4
<1>8. CASE OptionsRead
  <2>1. resolving.at = "options" /\ resolving # NoCall /\ resolving' = NoCall /\ now' = now
    BY <1>5, <1>8 DEF OptionsRead
  <2>2. /\ resolving.name \in AgentNames /\ resolving.provider \in Providers
        /\ resolving.began \in Nat /\ resolving.asked \in Nat
    BY <1>1, <2>1 DEF AdminTypes, Resolutions
  <2>3. used' = [at |-> "used", name |-> resolving.name, provider |-> resolving.provider, now |-> now]
    BY <1>8 DEF OptionsRead, Uses
  <2>4. endpoints' = [n \in DOMAIN endpoints \cup {resolving.name} |->
          IF n = resolving.name THEN [provider |-> resolving.provider, at |-> resolving.began]
          ELSE endpoints[n]]
    BY <1>8 DEF OptionsRead, EndpointStamp
  <2>5. AdminTypes'
    BY <1>1, <1>2, <1>4, <2>1, <2>2, <2>3, <2>4 DEF AdminTypes, LastUses
  <2>6. /\ resolving.began <= resolving.asked /\ resolving.asked <= now /\ now <= resolving.asked + CallTimeout
        /\ ChangedSince(resolving.name, resolving.provider, resolving.asked)
    BY <1>1, <2>1 DEF EndpointsKept
  <2>7. /\ resolving.began <= now
        /\ ChangedSince(resolving.name, resolving.provider, resolving.began)
        /\ ChangedSince(resolving.name, resolving.provider, now + 1 - Staleness)
    BY <1>4, <1>5, <2>2, <2>6 DEF ChangedSince, There
  <2>8. EndpointsKept'
    BY <1>1, <1>2, <1>4, <1>5, <2>1, <2>3, <2>4, <2>7 DEF EndpointsKept, ChangedSince, There
  <2> QED BY <1>3, <2>5, <2>8 DEF AdminIInv
<1>9. ASSUME NEW n \in AgentNames, Hit(n) PROVE AdminIInv'
  <2>1. /\ n \in DOMAIN endpoints /\ now - endpoints[n].at < Ttl
        /\ used' = [at |-> "used", name |-> n, provider |-> endpoints[n].provider, now |-> now]
        /\ UNCHANGED <<endpoints, resolving, now>>
    BY <1>9 DEF Hit, Fresh, Uses
  <2>2. endpoints[n].at \in Nat /\ endpoints[n].provider \in Providers
    BY <1>1, <2>1 DEF AdminTypes
  <2>3. AdminTypes'
    BY <1>1, <1>2, <1>4, <2>1, <2>2 DEF AdminTypes, LastUses
  <2>4. ChangedSince(n, endpoints[n].provider, now + 1 - Staleness)
    <3>1. ChangedSince(n, endpoints[n].provider, endpoints[n].at)
      BY <1>1, <2>1 DEF EndpointsKept
    <3> QED BY <1>4, <1>5, <2>1, <2>2, <3>1 DEF ChangedSince, There
  <2>5. EndpointsKept'
    BY <1>1, <1>2, <1>4, <2>1, <2>4 DEF EndpointsKept, ChangedSince, There
  <2> QED BY <1>3, <2>3, <2>5 DEF AdminIInv
<1>10. ASSUME NEW n \in AgentNames, Miss(n) PROVE AdminIInv'
  <2>1. /\ resolving' = [at |-> "profiles", name |-> n, began |-> now, asked |-> now]
        /\ UNCHANGED <<endpoints, used, now>>
    BY <1>10 DEF Miss
  <2>2. AdminTypes'
    BY <1>1, <1>2, <1>4, <2>1 DEF AdminTypes, Resolutions
  <2>3. EndpointsKept'
    BY <1>1, <1>2, <1>4, <2>1 DEF EndpointsKept, ChangedSince, There
  <2> QED BY <1>3, <2>2, <2>3 DEF AdminIInv
<1> QED BY <1>6, <1>7, <1>8, <1>9, <1>10

(* For any profiles, providers, requests and times: a model write that was *)
(* answered without an error left a profile that can use its provider,     *)
(* whatever other requests came in between; and a rewrite goes to a model  *)
(* its profile has, or had less than the cache's lifetime ago, or a call's *)
(* if that is longer (profile_admin, resolve_profile_endpoint).            *)
THEOREM ModelsStayUsable == AdminSpec => []ChosenModelsAreUsable
<1>1. AdminInit => AdminIInv
  BY AdminInitIInv
<1>2. AdminIInv /\ [AdminNext]_adminVars => AdminIInv'
  <2> SUFFICES ASSUME AdminIInv, [AdminNext]_adminVars PROVE AdminIInv'
    OBVIOUS
  <2>1. CASE UNCHANGED adminVars
    BY <2>1 DEF adminVars, AdminIInv, AdminTypes, NumbersKept, WritesKept, CallKept, Usable,
                EndpointsKept, ChangedSince, There
  <2>2. CASE AdminNext
    BY <2>2, AsksKeep, WritesAreKept, CallsGoOn, RewritesKeep DEF AdminNext
  <2> QED BY <2>1, <2>2
<1>3. AdminIInv => ChosenModelsAreUsable
  <2> SUFFICES ASSUME AdminIInv PROVE ChosenModelsAreUsable
    OBVIOUS
  <2>1. \A n \in DOMAIN agents :
          agents[n].provider \in Mirrorable /\ agents[n].by \in answered
            => agents[n].provider \in agents[n].defined
    BY DEF AdminIInv, WritesKept, Usable
  <2>2. ASSUME used # NoCall, There(used.name), agents[used.name].provider # used.provider
        PROVE  agents[used.name].since + Staleness > used.now
    <3>1. used.now \in Nat /\ Staleness \in Nat /\ agents[used.name].since \in Nat
      BY <2>2, TtlAssumption DEF AdminIInv, AdminTypes, LastUses, AgentRows, There, Staleness
    <3>2. agents[used.name].since >= used.now + 1 - Staleness
      BY <2>2 DEF AdminIInv, EndpointsKept, ChangedSince
    <3> QED BY <3>1, <3>2
  <2> QED BY <2>1, <2>2 DEF ChosenModelsAreUsable
<1> QED BY <1>1, <1>2, <1>3, PTL DEF AdminSpec

-----------------------------------------------------------------------------
(* RuntimeConfig: what the overlay file says is what is read, and kept.    *)

(* How far a read and a request are, and what they carry.                  *)
ReadIs(r) ==
  \/ r = [at |-> "stamp"]
  \/ r.at \in {"look", "parse"} /\ r = [at |-> r.at, stamp |-> r.stamp]
  \/ r.at \in {"check", "keep"} /\ r = [at |-> r.at, stamp |-> r.stamp, load |-> r.load]
ReaderIs(t) == reader[t] = NoReader \/ ReadIs(reader[t])

PutIs ==
  \/ put = NoRequest
  \/ /\ put.at \in {"read", "merge", "replace", "forget"}
     /\ put = [at |-> put.at, values |-> put.values, reset |-> put.reset, delete |-> put.delete]

ConfigShapes ==
  /\ reader = [t \in Threads |-> reader[t]] /\ \A t \in Threads : ReaderIs(t)
  /\ got = [t \in Threads |-> got[t]]
  /\ PutIs
  /\ reader[Loop] # NoReader => put.at = "read"
  /\ cache # NoCache => cache = [stamp |-> cache.stamp, load |-> cache.load]
  /\ time \in Nat /\ changes \in Nat /\ outages \in Nat /\ unread \in BOOLEAN

(* A stamp of a file that was: its time is over, and is not the time the   *)
(* file will have that waits beside it.                                    *)
Past(at) == at \in Nat /\ at < time /\ (put.at = "replace" => at # spare.at)
OldStamp(s) == \E at, k : s = <<at, k>> /\ Past(at)

TimesKept ==
  /\ Past(filed)
  /\ spare.at \in Nat /\ spare.at < time
  /\ \A t \in Threads : reader[t].at \in {"look", "parse", "check", "keep"} => OldStamp(reader[t].stamp)
  /\ cache # NoCache => OldStamp(cache.stamp)

(* What is known of a stamp: the cache says so, or is about to.            *)
Claims(s, load) ==
  \/ cache # NoCache /\ cache.stamp = s /\ cache.load = load
  \/ \E t \in Threads : reader[t].at = "keep" /\ reader[t].stamp = s /\ reader[t].load = load

Seen(t, load) == \E f \in since[t] : load = Valid(f)

(* What a read finds: the file, or nothing, if it could not be read.       *)
Found(load) == \E f \in {file} \cup Unreadable : load = Valid(f)

ReadsKept ==
  /\ \A t \in Threads : reader[t] # NoReader => {file} \cup Unreadable \subseteq since[t]
  /\ \A s, load : Claims(s, load) =>
       /\ s = Now => Found(load)
       /\ \A t \in Threads : reader[t].at = "look" /\ reader[t].stamp = s => Seen(t, load)
  /\ \A t \in Threads : reader[t].at \in {"check", "keep"} => Seen(t, reader[t].load)
  /\ \A t \in Threads : reader[t].at = "check" /\ reader[t].stamp = Now => Found(reader[t].load)

MergesKept ==
  /\ put.at = "merge" => Seen(Loop, got[Loop])
  /\ put.at = "replace" =>
       \E f \in since[Loop] : spare.file = Overlay(Changed(Valid(f), put.values, put.reset))

ConfigIInv == ConfigShapes /\ TimesKept /\ ReadsKept /\ MergesKept

(* The steps, as the property sees them.                                   *)
ReadsWell ==
  \A t \in Threads :
    reader[t] # NoReader /\ reader'[t] = NoReader /\ outages' = outages
      => \E f \in since[t] \cup Unreadable' : got'[t] = Valid(f)
SavesWell ==
  file' # file /\ changes' = changes
    => /\ put.at = "replace"
       /\ \E f \in since[Loop] : file' = Overlay(Changed(Valid(f), put.values, put.reset))

(* Nobody reads or saves at rest.                                          *)
LEMMA Tags ==
  /\ NoReader.at = "none" /\ NoRequest.at = "none"
  /\ \A r : r.at # "none" => r # NoReader /\ r # NoRequest
  BY DEF NoReader, NoRequest

(* The records a read goes through have their shapes.                      *)
LEMMA RecordShapes ==
  /\ ReadIs([at |-> "stamp"]) /\ [at |-> "stamp"] # NoReader
  /\ \A s : \A a \in {"look", "parse"} :
       ReadIs([at |-> a, stamp |-> s]) /\ [at |-> a, stamp |-> s] # NoReader
  /\ \A s, load : \A a \in {"check", "keep"} :
       ReadIs([at |-> a, stamp |-> s, load |-> load]) /\ [at |-> a, stamp |-> s, load |-> load] # NoReader
  BY Tags DEF ReadIs

(* What os.stat shows of a file, and of none.                              *)
LEMMA Stamps ==
  /\ \A t : FileStamp(NoFile, t) = <<>>
  /\ \A f, t : f # NoFile => \E k : FileStamp(f, t) = <<t, k>>
  /\ \A s : OldStamp(s) => s # <<>>
  BY DEF FileStamp, OldStamp

(* It holds at the start.                                                  *)
LEMMA ConfigInitIInv == ConfigInit => ConfigIInv
<1> SUFFICES ASSUME ConfigInit PROVE ConfigIInv
  OBVIOUS
<1>1. /\ \A t \in Threads : reader[t] = NoReader
      /\ put = NoRequest /\ cache = NoCache /\ file = NoFile /\ filed = 0
      /\ spare.at = 0 /\ time = 1 /\ changes = 0 /\ outages = 0
  BY DEF ConfigInit, NoSpare
<1>2. ConfigShapes
  <2>1. unread \in BOOLEAN
    BY DEF ConfigInit
  <2>2. /\ reader = [t \in Threads |-> reader[t]] /\ got = [t \in Threads |-> got[t]]
        /\ reader[Loop] = NoReader
    BY <1>1 DEF ConfigInit, Threads
  <2> QED BY <1>1, <2>1, <2>2 DEF ConfigShapes, ReaderIs, PutIs
<1>3. TimesKept
  BY <1>1, Tags DEF TimesKept, Past
<1>4. ReadsKept
  BY <1>1, Tags DEF ReadsKept, Claims
<1>5. MergesKept
  BY <1>1, Tags DEF MergesKept
<1> QED BY <1>2, <1>3, <1>4, <1>5 DEF ConfigIInv

(* What a thread has seen it has still seen, while it asks.                *)
LEMMA SinceGrows ==
  ASSUME Noting, NEW t \in Threads, Asking(t)
  PROVE  since[t] \subseteq since'[t] /\ {file'} \cup Unreadable' \subseteq since'[t]
  BY DEF Noting

(* What could not be read still could not, until the file changes.         *)
LEMMA FoundStays ==
  ASSUME unread => unread', file' = file
  PROVE  Unreadable \subseteq Unreadable' /\ \A load : Found(load) => Found(load)'
<1>1. Unreadable \subseteq Unreadable'
  BY DEF Unreadable
<1>2. ASSUME NEW load, Found(load) PROVE Found(load)'
  <2>1. PICK f \in {file} \cup Unreadable : load = Valid(f)
    BY <1>2 DEF Found
  <2>2. f \in {file'} \cup Unreadable'
    BY <1>1, <2>1
  <2> QED BY <2>1, <2>2 DEF Found
<1> QED BY <1>1, <1>2

(* A step that leaves the readers alone, or stops them all; the file may   *)
(* get a stamp nobody has.                                                 *)
LEMMA ReadsAreKept ==
  ASSUME ConfigIInv, Noting,
         reader' = reader \/ reader' = [t \in Threads |-> NoReader],
         cache' = cache \/ cache' = NoCache,
         (Now' = Now /\ file' = file /\ (unread => unread')) \/ ~OldStamp(Now')
  PROVE  ReadsKept'
<1>1. ConfigShapes /\ TimesKept /\ ReadsKept
  BY DEF ConfigIInv
<1>2. \A t \in Threads : reader'[t] # NoReader => reader'[t] = reader[t]
  OBVIOUS
<1>3. \A t \in Threads : reader'[t] # NoReader => since[t] \subseteq since'[t] /\ {file'} \cup Unreadable' \subseteq since'[t]
  BY SinceGrows DEF Asking
<1>4. \A s, load : Claims(s, load)' => Claims(s, load) /\ OldStamp(s)
  BY <1>1, <1>2, Tags DEF Claims, TimesKept
<1>5. \A t \in Threads : \A load : reader'[t] # NoReader /\ Seen(t, load) => Seen(t, load)'
  BY <1>3 DEF Seen
<1>6. ASSUME NEW s, NEW load, Claims(s, load)'
      PROVE  /\ s = Now' => Found(load)'
             /\ \A t \in Threads : reader'[t].at = "look" /\ reader'[t].stamp = s => Seen(t, load)'
  <2>1. Claims(s, load) /\ OldStamp(s)
    BY <1>4, <1>6
  <2>2. s = Now' => Found(load)'
    BY <1>1, <2>1, FoundStays DEF ReadsKept
  <2>3. ASSUME NEW t \in Threads, reader'[t].at = "look", reader'[t].stamp = s PROVE Seen(t, load)'
    <3>1. reader'[t] # NoReader /\ reader'[t] = reader[t]
      BY <1>2, <2>3, Tags
    <3> QED BY <1>1, <1>5, <2>1, <2>3, <3>1 DEF ReadsKept
  <2> QED BY <2>2, <2>3
<1>7. ASSUME NEW t \in Threads, reader'[t].at \in {"check", "keep"}
      PROVE  /\ Seen(t, reader[t].load)'
             /\ reader'[t].at = "check" /\ reader'[t].stamp = Now' => Found(reader[t].load)'
  <2>1. reader'[t] # NoReader /\ reader'[t] = reader[t]
    BY <1>2, <1>7, Tags
  <2>2. Seen(t, reader[t].load) /\ OldStamp(reader[t].stamp)
    BY <1>1, <1>7, <2>1 DEF ReadsKept, TimesKept
  <2>3. Seen(t, reader[t].load)'
    BY <1>3, <2>1, <2>2 DEF Seen
  <2> QED BY <1>1, <1>7, <2>1, <2>2, <2>3, FoundStays DEF ReadsKept
<1>8. ASSUME NEW t \in Threads, reader'[t].at \in {"check", "keep"}
      PROVE  reader'[t] = reader[t]
  BY <1>2, <1>8, Tags
<1> QED BY <1>3, <1>6, <1>7, <1>8 DEF ReadsKept

(* One read goes on to r, and perhaps keeps what it parsed in the cache.   *)
LEMMA ReaderMoves ==
  ASSUME ConfigIInv, NEW t \in Threads, NEW r, Noting, unread => unread',
         reader' = [reader EXCEPT ![t] = r],
         UNCHANGED <<file, filed, spare, time>>,
         put'.at = "replace" => put.at = "replace",
         r.at \in {"look", "parse", "check", "keep"} => OldStamp(r.stamp),
         r.at = "look" => r.stamp = Now,
         r.at = "check" => \E f \in {file} \cup Unreadable' : r.load = Valid(f),
         r.at = "keep" => /\ reader[t].at = "check" /\ reader[t].stamp = Now
                          /\ r.stamp = reader[t].stamp /\ r.load = reader[t].load,
         \/ cache' = cache \/ cache' = NoCache
         \/ reader[t].at = "keep" /\ cache' = [stamp |-> reader[t].stamp, load |-> reader[t].load]
  PROVE  TimesKept' /\ ReadsKept'
<1>1. ConfigShapes /\ TimesKept /\ ReadsKept
  BY DEF ConfigIInv
<1>2. reader'[t] = r /\ \A u \in Threads \ {t} : reader'[u] = reader[u]
  BY <1>1 DEF ConfigShapes
<1>3. Now' = Now
  BY DEF Now
<1>4. \A s : OldStamp(s) => OldStamp(s)'
  BY DEF OldStamp, Past
<1>5. cache' # NoCache => OldStamp(cache'.stamp)
  BY <1>1 DEF TimesKept
<1>6. TimesKept'
  <2>1. Past(filed)'
    BY <1>1 DEF TimesKept, Past
  <2>2. ASSUME NEW u \in Threads, reader'[u].at \in {"look", "parse", "check", "keep"}
        PROVE  OldStamp(reader[u].stamp)'
    <3>1. OldStamp(reader'[u].stamp)
      BY <1>1, <1>2, <2>2 DEF TimesKept
    <3> QED BY <3>1 DEF OldStamp, Past
  <2>3. cache' # NoCache => OldStamp(cache.stamp)'
    BY <1>5 DEF OldStamp, Past
  <2> QED BY <1>1, <2>1, <2>2, <2>3 DEF TimesKept
<1>7. \A u \in Threads : reader'[u] # NoReader => since[u] \subseteq since'[u] /\ {file'} \cup Unreadable' \subseteq since'[u]
  BY SinceGrows DEF Asking
<1>12. \A load : Found(load) => Found(load)'
  BY FoundStays
<1>8. ASSUME NEW s, NEW load, Claims(s, load)'
      PROVE  Claims(s, load) \/ (s = Now /\ Found(load))
  <2>1. CASE cache' # NoCache /\ cache'.stamp = s /\ cache'.load = load
    BY <2>1 DEF Claims
  <2>2. ASSUME NEW u \in Threads, reader'[u].at = "keep", reader'[u].stamp = s, reader'[u].load = load
        PROVE  Claims(s, load) \/ (s = Now /\ Found(load))
    <3>1. CASE u = t
      BY <1>1, <1>2, <2>2, <3>1 DEF ReadsKept
    <3>2. CASE u # t
      BY <1>2, <2>2, <3>2 DEF Claims
    <3> QED BY <3>1, <3>2
  <2> QED BY <1>8, <2>1, <2>2 DEF Claims
<1>9. ASSUME NEW s, NEW load, Claims(s, load)'
      PROVE  /\ s = Now' => Found(load)'
             /\ \A u \in Threads : reader'[u].at = "look" /\ reader'[u].stamp = s => Seen(u, load)'
  <2>1. s = Now => Found(load)'
    BY <1>1, <1>8, <1>9, <1>12 DEF ReadsKept
  <2>2. ASSUME NEW u \in Threads, reader'[u].at = "look", reader'[u].stamp = s PROVE Seen(u, load)'
    <3>1. reader'[u] # NoReader
      BY <2>2, Tags
    <3>2. CASE s = Now
      BY <1>7, <2>1, <3>1, <3>2 DEF Seen, Found
    <3>3. CASE s # Now
      <4>1. reader'[u] = reader[u] /\ Claims(s, load)
        BY <1>2, <1>8, <1>9, <2>2, <3>3
      <4> QED BY <1>1, <1>7, <2>2, <3>1, <4>1 DEF ReadsKept, Seen
    <3> QED BY <3>2, <3>3
  <2> QED BY <1>3, <2>1, <2>2
<1>10. ASSUME NEW u \in Threads, reader'[u].at \in {"check", "keep"}
       PROVE  /\ Seen(u, reader[u].load)'
              /\ reader'[u].at = "check" /\ reader'[u].stamp = Now' => Found(reader[u].load)'
  <2>1. reader'[u] # NoReader
    BY <1>10, Tags
  <2>2. CASE u # t
    BY <1>1, <1>2, <1>3, <1>7, <1>10, <1>12, <2>1, <2>2 DEF ReadsKept, Seen
  <2>3. CASE u = t /\ r.at = "check"
    BY <1>2, <1>7, <2>1, <2>3 DEF Seen, Found
  <2>4. CASE u = t /\ r.at = "keep"
    BY <1>1, <1>2, <1>7, <2>1, <2>4 DEF ReadsKept, Seen
  <2> QED BY <1>2, <1>10, <2>2, <2>3, <2>4
<1>11. ReadsKept'
  BY <1>7, <1>9, <1>10 DEF ReadsKept
<1> QED BY <1>6, <1>11

(* What has been read for a request stays what it read.                    *)
LEMMA MergesAreKept ==
  ASSUME ConfigIInv, Noting, put' = put, got' = got \/ put.at \notin {"merge"}, spare' = spare
  PROVE  MergesKept'
<1>1. put.at \in {"merge", "replace"} => since[Loop] \subseteq since'[Loop]
  BY SinceGrows, Tags DEF Asking, Threads
<1> QED BY <1>1 DEF ConfigIInv, MergesKept, Seen

ReadSteps(t) ==
  Reads(t) \/ TakeStamp(t) \/ Look(t) \/ Parse(t) \/ CheckStamp(t) \/ Keep(t)

(* A read that returns gives the request what it has seen.                 *)
LEMMA ReturnsWell ==
  ASSUME ConfigIInv, NEW t \in Threads, NEW load, reader[t] # NoReader, Returns(t, load),
         \E f \in since[t] \cup Unreadable' : load = Valid(f),
         Noting, unread' \in BOOLEAN, UNCHANGED <<spare, changes, outages, time>>, file' = file,
         cache' # NoCache => cache' = [stamp |-> cache'.stamp, load |-> cache'.load]
  PROVE  ConfigShapes' /\ MergesKept' /\ ReadsWell /\ SavesWell
<1>1. ConfigShapes /\ MergesKept
  BY DEF ConfigIInv
<1>2. /\ got' = [got EXCEPT ![t] = load] /\ reader' = [reader EXCEPT ![t] = NoReader]
      /\ put' = IF t = Loop THEN [put EXCEPT !.at = "merge"] ELSE put
  BY DEF Returns
<1>3. reader'[t] = NoReader /\ \A u \in Threads \ {t} : reader'[u] = reader[u]
  BY <1>1, <1>2 DEF ConfigShapes
<1>4. got'[t] = load /\ \A u \in Threads \ {t} : got'[u] = got[u]
  BY <1>1, <1>2 DEF ConfigShapes
<1>5. CASE t = Loop
  <2>1. put.at = "read"
    BY <1>1, <1>5 DEF ConfigShapes
  <2>2. put' = [at |-> "merge", values |-> put.values, reset |-> put.reset, delete |-> put.delete]
    BY <1>1, <1>2, <1>5, <2>1, Tags DEF ConfigShapes, PutIs
  <2>3. ConfigShapes'
    BY <1>1, <1>2, <1>3, <1>4, <1>5, <2>2 DEF ConfigShapes, ReaderIs, ReadIs, PutIs
  <2>4. since[Loop] \cup Unreadable' \subseteq since'[Loop]
    BY <2>2, SinceGrows, Tags DEF Asking, Threads
  <2>5. MergesKept'
    BY <1>4, <1>5, <2>2, <2>4 DEF MergesKept, Seen
  <2>6. ReadsWell
    BY <1>3, <1>4 DEF ReadsWell
  <2> QED BY <2>3, <2>5, <2>6 DEF SavesWell
<1>6. CASE t # Loop
  <2>1. put' = put /\ got'[Loop] = got[Loop] /\ Loop \in Threads
    BY <1>2, <1>4, <1>6 DEF Threads
  <2>2. ConfigShapes'
    BY <1>1, <1>2, <1>3, <1>4, <1>6, <2>1 DEF ConfigShapes, ReaderIs, ReadIs, PutIs
  <2>3. put.at \in {"merge", "replace"} => since[Loop] \subseteq since'[Loop]
    BY <2>1, SinceGrows, Tags DEF Asking
  <2>4. MergesKept'
    BY <1>1, <2>1, <2>3 DEF MergesKept, Seen
  <2>5. ReadsWell
    BY <1>3, <1>4 DEF ReadsWell
  <2> QED BY <2>2, <2>4, <2>5 DEF SavesWell
<1> QED BY <1>5, <1>6

(* A read that goes on.                                                    *)
LEMMA ReadGoesOn ==
  ASSUME ConfigIInv, NEW t \in Threads, NEW r, reader' = [reader EXCEPT ![t] = r], r # NoReader,
         Noting, unread' \in BOOLEAN, UNCHANGED <<cache, put, spare, changes, outages, time>>, file' = file,
         got' = got \/ got' = [got EXCEPT ![t] = NoFile],
         t # Loop \/ put.at = "read", ReadIs(r)
  PROVE  ConfigShapes' /\ MergesKept' /\ ReadsWell /\ SavesWell
<1>1. ConfigShapes /\ MergesKept
  BY DEF ConfigIInv
<1>2. reader'[t] = r /\ \A u \in Threads \ {t} : reader'[u] = reader[u]
  BY <1>1 DEF ConfigShapes
<1>3. Loop \in Threads /\ (got'[Loop] = got[Loop] \/ put.at = "read")
  BY <1>1 DEF ConfigShapes, Threads
<1>4. ConfigShapes'
  BY <1>1, <1>2, <1>3 DEF ConfigShapes, ReaderIs, ReadIs, PutIs
<1>5. put.at \in {"merge", "replace"} => since[Loop] \subseteq since'[Loop]
  BY <1>3, SinceGrows, Tags DEF Asking
<1>6. MergesKept'
  BY <1>1, <1>3, <1>5 DEF MergesKept, Seen
<1> QED BY <1>2, <1>4, <1>6 DEF ReadsWell, SavesWell

(* It survives every step of a read ...                                    *)
LEMMA ReadStepsKeep ==
  ASSUME ConfigIInv, NEW t \in Threads, ReadSteps(t)
  PROVE  ConfigIInv' /\ ReadsWell /\ SavesWell
<1> DEFINE r == reader[t]
<1>1. ConfigShapes /\ TimesKept /\ ReadsKept /\ MergesKept /\ ReaderIs(t)
  BY DEF ConfigIInv, ConfigShapes
<1>2. /\ Noting /\ UNCHANGED <<file, filed, spare, time, changes, outages>>
      /\ unread => unread'
      /\ unread' \in BOOLEAN
  <2>1. unread \in BOOLEAN
    BY <1>1 DEF ConfigShapes
  <2>2. ~TakeStamp(t) /\ ~Parse(t) => ReadNoted /\ UNCHANGED <<file, filed, spare, time, changes, outages>>
    BY DEF ReadSteps, Reads, Look, CheckStamp, Keep
  <2>3. CASE TakeStamp(t)
    <3>3. unread' = unread \/ unread' = (unread \/ file # NoFile)
      BY <2>3 DEF TakeStamp
    <3>4. Noting /\ UNCHANGED <<file, filed, spare, time, changes, outages>>
      BY <2>3 DEF TakeStamp
    <3> QED BY <2>1, <3>3, <3>4
  <2>4. CASE Parse(t)
    BY <2>1, <2>4 DEF Parse
  <2> QED BY <2>1, <2>2, <2>3, <2>4 DEF ReadNoted
<1>3. r # NoReader => (t = Loop => put.at = "read") /\ {file} \cup Unreadable \subseteq since[t]
  BY <1>1 DEF ConfigShapes, ReadsKept
<1>4. file # NoFile => OldStamp(Now)
  BY <1>1, Stamps DEF TimesKept, OldStamp, Now
<1>5. CASE Reads(t)
  <2>1. /\ reader' = [reader EXCEPT ![t] = [at |-> "stamp"]] /\ UNCHANGED <<cache, put>>
        /\ got' = [got EXCEPT ![t] = NoFile] /\ (t = Loop => put.at = "read")
    BY <1>5 DEF Reads
  <2>2. TimesKept' /\ ReadsKept'
    BY <1>2, <2>1, ReaderMoves
  <2>3. ConfigShapes' /\ MergesKept' /\ ReadsWell /\ SavesWell
    BY <1>2, <2>1, ReadGoesOn, RecordShapes
  <2> QED BY <2>2, <2>3 DEF ConfigIInv
<1>6. CASE TakeStamp(t) /\ cache' = NoCache /\ Returns(t, Empty) /\ unread' = (unread \/ file # NoFile)
  <2>1. r.at = "stamp" /\ cache' = NoCache /\ Returns(t, Empty)
    BY <1>6 DEF TakeStamp
  <2>2. r # NoReader /\ \E f \in since[t] \cup Unreadable' : Empty = Valid(f)
    <3>1. r # NoReader /\ Empty = Valid(NoFile)
      BY <2>1, Tags DEF Valid, NoFile
    <3>2. NoFile \in since[t] \cup Unreadable'
      BY <1>3, <1>6, <3>1 DEF Unreadable
    <3> QED BY <3>1, <3>2
  <2>3. reader' = [reader EXCEPT ![t] = NoReader] /\ (put'.at = "replace" => put.at = "replace")
    BY <1>1, <2>1, Tags DEF Returns, ConfigShapes, PutIs
  <2>4. TimesKept' /\ ReadsKept'
    BY <1>2, <2>1, <2>3, ReaderMoves, Tags
  <2>5. ConfigShapes' /\ MergesKept' /\ ReadsWell /\ SavesWell
    BY <1>2, <2>1, <2>2, ReturnsWell
  <2> QED BY <2>4, <2>5 DEF ConfigIInv
<1>7. CASE TakeStamp(t) /\ file # NoFile /\ reader' = [reader EXCEPT ![t] = [at |-> "look", stamp |-> Now]]
           /\ UNCHANGED <<cache, put, got, unread>>
  <2>1. /\ r.at = "stamp" /\ reader' = [reader EXCEPT ![t] = [at |-> "look", stamp |-> Now]]
        /\ UNCHANGED <<cache, put, got>>
    BY <1>7 DEF TakeStamp
  <2>2. TimesKept' /\ ReadsKept'
    BY <1>2, <1>4, <1>7, <2>1, ReaderMoves
  <2>3. t # Loop \/ put.at = "read"
    BY <1>3, <2>1, Tags
  <2>4. ConfigShapes' /\ MergesKept' /\ ReadsWell /\ SavesWell
    <3>1. PICK n : n = [at |-> "look", stamp |-> Now]
      OBVIOUS
    <3>2. ReadIs(n) /\ n # NoReader /\ reader' = [reader EXCEPT ![t] = n]
      BY <2>1, <3>1, RecordShapes
    <3>3. UNCHANGED <<cache, put, got, spare, changes, outages, time>> /\ file' = file /\ Noting /\ unread' \in BOOLEAN
      BY <1>2, <2>1
    <3> HIDE DEF r
    <3> QED BY <2>3, <3>2, <3>3, ReadGoesOn
  <2> QED BY <2>2, <2>4 DEF ConfigIInv
<1>8. CASE Look(t) /\ cache # NoCache /\ Hits(t)
  <2>1. r.at = "look" /\ Returns(t, cache.load) /\ cache' = cache /\ cache.stamp = r.stamp
    BY <1>8 DEF Look, Hits
  <2>2. r # NoReader /\ \E f \in since[t] \cup Unreadable' : cache.load = Valid(f)
    BY <1>1, <1>8, <2>1, Tags DEF ReadsKept, Claims, Seen
  <2>3. reader' = [reader EXCEPT ![t] = NoReader] /\ (put'.at = "replace" => put.at = "replace")
    BY <1>1, <2>1, Tags DEF Returns, ConfigShapes, PutIs
  <2>4. TimesKept' /\ ReadsKept'
    BY <1>2, <2>1, <2>3, ReaderMoves, Tags
  <2>5. ConfigShapes' /\ MergesKept' /\ ReadsWell /\ SavesWell
    BY <1>1, <1>2, <2>1, <2>2, ReturnsWell DEF ConfigShapes
  <2> QED BY <2>4, <2>5 DEF ConfigIInv
<1>9. CASE Look(t) /\ ~(cache # NoCache /\ Hits(t))
  <2>1. /\ r.at = "look" /\ reader' = [reader EXCEPT ![t].at = "parse"] /\ UNCHANGED <<cache, put, got>>
    BY <1>9 DEF Look
  <2>2. r = [at |-> "look", stamp |-> r.stamp] /\ OldStamp(r.stamp)
    BY <1>1, <2>1, Tags DEF ReaderIs, ReadIs, TimesKept
  <2>3. reader' = [reader EXCEPT ![t] = [at |-> "parse", stamp |-> r.stamp]]
    <3>1. [r EXCEPT !.at = "parse"] = [at |-> "parse", stamp |-> r.stamp]
      BY <2>2
    <3>2. reader' = [reader EXCEPT ![t] = [r EXCEPT !.at = "parse"]]
      BY <2>1
    <3> QED BY <3>1, <3>2
  <2>4. TimesKept' /\ ReadsKept'
    BY <1>2, <2>1, <2>2, <2>3, ReaderMoves
  <2>5. t # Loop \/ put.at = "read"
    BY <1>3, <2>1, Tags
  <2>6. ConfigShapes' /\ MergesKept' /\ ReadsWell /\ SavesWell
    <3>1. PICK n : n = [at |-> "parse", stamp |-> r.stamp]
      OBVIOUS
    <3>2. ReadIs(n) /\ n # NoReader /\ reader' = [reader EXCEPT ![t] = n]
      BY <2>3, <3>1, RecordShapes
    <3>3. UNCHANGED <<cache, put, got, spare, changes, outages, time>> /\ file' = file /\ Noting /\ unread' \in BOOLEAN
      BY <1>2, <2>1
    <3> HIDE DEF r
    <3> QED BY <2>5, <3>2, <3>3, ReadGoesOn
  <2> QED BY <2>4, <2>6 DEF ConfigIInv
<1>10. CASE Parse(t)
  <2>1. PICK f \in {file, NoFile} :
          /\ reader' = [reader EXCEPT ![t] = [at |-> "check", stamp |-> @.stamp, load |-> Valid(f)]]
          /\ unread' = (unread \/ f # file)
    BY <1>10 DEF Parse
  <2>2. r.at = "parse" /\ UNCHANGED <<cache, put, got>>
    BY <1>10 DEF Parse
  <2>3. OldStamp(r.stamp)
    BY <1>1, <2>2 DEF TimesKept
  <2>4. reader' = [reader EXCEPT ![t] = [at |-> "check", stamp |-> r.stamp, load |-> Valid(f)]]
    BY <1>1, <2>1 DEF ConfigShapes
  <2>5. f \in {file} \cup Unreadable'
    BY <2>1 DEF Unreadable
  <2>6. PICK n : n = [at |-> "check", stamp |-> r.stamp, load |-> Valid(f)]
    OBVIOUS
  <2>7. ReadIs(n) /\ n # NoReader /\ reader' = [reader EXCEPT ![t] = n]
    BY <2>4, <2>6, RecordShapes
  <2>8. TimesKept' /\ ReadsKept'
    <3>1. n.at = "check" /\ n.stamp = r.stamp /\ \E g \in {file} \cup Unreadable' : n.load = Valid(g)
      BY <2>5, <2>6
    <3> QED BY <1>2, <2>2, <2>3, <2>7, <3>1, ReaderMoves
  <2>9. t # Loop \/ put.at = "read"
    BY <1>3, <2>2, Tags
  <2>10. ConfigShapes' /\ MergesKept' /\ ReadsWell /\ SavesWell
    <3>1. UNCHANGED <<cache, put, got, spare, changes, outages, time>> /\ file' = file /\ Noting /\ unread' \in BOOLEAN
      BY <1>2, <2>2
    <3> HIDE DEF r
    <3> QED BY <2>7, <2>9, <3>1, ReadGoesOn
  <2> QED BY <2>8, <2>10 DEF ConfigIInv
<1>11. CASE CheckStamp(t) /\ Now = r.stamp /\ reader' = [reader EXCEPT ![t].at = "keep"] /\ UNCHANGED <<put, got>>
  <2>1. /\ r.at = "check" /\ reader' = [reader EXCEPT ![t].at = "keep"] /\ UNCHANGED <<cache, put, got>>
    BY <1>11 DEF CheckStamp
  <2>2. r = [at |-> "check", stamp |-> r.stamp, load |-> r.load] /\ OldStamp(r.stamp)
    BY <1>1, <2>1, Tags DEF ReaderIs, ReadIs, TimesKept
  <2>3. reader' = [reader EXCEPT ![t] = [at |-> "keep", stamp |-> r.stamp, load |-> r.load]]
    <3>1. [r EXCEPT !.at = "keep"] = [at |-> "keep", stamp |-> r.stamp, load |-> r.load]
      BY <2>2
    <3>2. reader' = [reader EXCEPT ![t] = [r EXCEPT !.at = "keep"]]
      BY <2>1
    <3> QED BY <3>1, <3>2
  <2>4. TimesKept' /\ ReadsKept'
    BY <1>2, <1>11, <2>1, <2>2, <2>3, ReaderMoves
  <2>5. t # Loop \/ put.at = "read"
    BY <1>3, <2>1, Tags
  <2>6. ConfigShapes' /\ MergesKept' /\ ReadsWell /\ SavesWell
    <3>1. PICK n : n = [at |-> "keep", stamp |-> r.stamp, load |-> r.load]
      OBVIOUS
    <3>2. ReadIs(n) /\ n # NoReader /\ reader' = [reader EXCEPT ![t] = n]
      BY <2>3, <3>1, RecordShapes
    <3>3. UNCHANGED <<cache, put, got, spare, changes, outages, time>> /\ file' = file /\ Noting /\ unread' \in BOOLEAN
      BY <1>2, <2>1
    <3> HIDE DEF r
    <3> QED BY <2>5, <3>2, <3>3, ReadGoesOn
  <2> QED BY <2>4, <2>6 DEF ConfigIInv
<1>12. CASE CheckStamp(t) /\ Returns(t, r.load)
  <2>1. r.at = "check" /\ Returns(t, r.load) /\ cache' = cache
    BY <1>12 DEF CheckStamp
  <2>2. r # NoReader /\ \E f \in since[t] \cup Unreadable' : r.load = Valid(f)
    BY <1>1, <2>1, Tags DEF ReadsKept, Seen
  <2>3. reader' = [reader EXCEPT ![t] = NoReader] /\ (put'.at = "replace" => put.at = "replace")
    BY <1>1, <2>1, Tags DEF Returns, ConfigShapes, PutIs
  <2>4. TimesKept' /\ ReadsKept'
    BY <1>2, <2>1, <2>3, ReaderMoves, Tags
  <2>5. ConfigShapes' /\ MergesKept' /\ ReadsWell /\ SavesWell
    BY <1>1, <1>2, <2>1, <2>2, ReturnsWell DEF ConfigShapes
  <2> QED BY <2>4, <2>5 DEF ConfigIInv
<1>13. CASE Keep(t)
  <2>1. /\ r.at = "keep" /\ Returns(t, r.load)
        /\ cache' = [stamp |-> r.stamp, load |-> r.load]
    BY <1>13 DEF Keep, StampKept
  <2>2. r # NoReader /\ \E f \in since[t] \cup Unreadable' : r.load = Valid(f)
    BY <1>1, <2>1, Tags DEF ReadsKept, Seen
  <2>3. reader' = [reader EXCEPT ![t] = NoReader] /\ (put'.at = "replace" => put.at = "replace")
    BY <1>1, <2>1, Tags DEF Returns, ConfigShapes, PutIs
  <2>4. TimesKept' /\ ReadsKept'
    BY <1>2, <2>1, <2>3, ReaderMoves, Tags
  <2>5. ConfigShapes' /\ MergesKept' /\ ReadsWell /\ SavesWell
    BY <1>1, <1>2, <2>1, <2>2, ReturnsWell
  <2> QED BY <2>4, <2>5 DEF ConfigIInv
<1>14. CASE TakeStamp(t)
  BY <1>6, <1>7, <1>14 DEF TakeStamp
<1>15. CASE CheckStamp(t)
  BY <1>11, <1>12, <1>15 DEF CheckStamp
<1> QED BY <1>5, <1>8, <1>9, <1>10, <1>13, <1>14, <1>15 DEF ReadSteps

(* A step of the request, or of the world, that lets no read return.       *)
LEMMA QuietStep ==
  ASSUME ConfigIInv, reader' = reader \/ outages' # outages, got' = got
  PROVE  ReadsWell
  BY DEF ConfigIInv, ConfigShapes, ReadsWell

(* ... the reading half of a save ...                                      *)
LEMMA UpdateKeeps ==
  ASSUME ConfigIInv, UpdateSome
  PROVE  ConfigIInv' /\ ReadsWell /\ SavesWell
<1>1. PICK b \in Bodies : Update(b.values, b.reset, b.delete)
  BY DEF UpdateSome
<1>2. ConfigShapes /\ TimesKept /\ put = NoRequest
  BY <1>1 DEF ConfigIInv, Update
<1>3. /\ UNCHANGED <<file, filed, spare, cache, reader, got, time, changes, outages>> /\ Noting /\ unread' = unread
      /\ \/ put' = NoRequest
         \/ put' = [at |-> "read", values |-> b.values, reset |-> b.reset, delete |-> b.delete]
  BY <1>1 DEF Update, ReadNoted
<1>4. put'.at \in {"none", "read"} /\ reader[Loop] = NoReader
  BY <1>2, <1>3, Tags DEF ConfigShapes
<1>5. ConfigShapes'
  BY <1>2, <1>3, <1>4 DEF ConfigShapes, PutIs, ReaderIs, ReadIs
<1>6. TimesKept'
  <2>1. \A s : OldStamp(s) => OldStamp(s)'
    BY <1>3, <1>4 DEF OldStamp, Past
  <2>2. Past(filed)'
    BY <1>2, <1>3, <1>4 DEF TimesKept, Past
  <2>3. ASSUME NEW t \in Threads, reader'[t].at \in {"look", "parse", "check", "keep"}
        PROVE  OldStamp(reader[t].stamp)'
    <3>1. OldStamp(reader[t].stamp) /\ reader'[t] = reader[t]
      BY <1>2, <1>3, <2>3 DEF TimesKept
    <3> QED BY <1>3, <1>4, <3>1 DEF OldStamp, Past
  <2>4. cache' # NoCache => OldStamp(cache.stamp)'
    BY <1>2, <1>3, <1>4 DEF TimesKept, OldStamp, Past
  <2> QED BY <1>2, <1>3, <2>2, <2>3, <2>4 DEF TimesKept
<1>7. ReadsKept'
  BY <1>3, ReadsAreKept DEF Now
<1>8. MergesKept'
  BY <1>4 DEF MergesKept
<1> QED BY <1>3, <1>5, <1>6, <1>7, <1>8, QuietStep DEF ConfigIInv, SavesWell

(* What is past stays past, when time and the file's time to be say so.    *)
LEMMA TimesStayKept ==
  ASSUME TimesKept, UNCHANGED <<cache>>, reader' = reader,
         \A at : Past(at) => Past(at)',
         Past(filed)', spare'.at \in Nat, spare'.at < time'
  PROVE  TimesKept'
<1>1. \A s : OldStamp(s) => \E at, k : s = <<at, k>> /\ Past(at)'
  BY DEF OldStamp
<1>2. ASSUME NEW t \in Threads, reader'[t].at \in {"look", "parse", "check", "keep"}
      PROVE  OldStamp(reader[t].stamp)'
  <2>1. OldStamp(reader[t].stamp) /\ reader'[t] = reader[t]
    BY <1>2 DEF TimesKept
  <2> QED BY <1>1, <2>1 DEF OldStamp
<1>3. cache' # NoCache => OldStamp(cache.stamp)'
  BY <1>1 DEF TimesKept, OldStamp
<1> QED BY <1>2, <1>3 DEF TimesKept

(* ... its temporary file ...                                              *)
LEMMA WriteSpareKeeps ==
  ASSUME ConfigIInv, WriteSpare
  PROVE  ConfigIInv' /\ ReadsWell /\ SavesWell
<1>1. ConfigShapes /\ TimesKept /\ MergesKept /\ put.at = "merge"
  BY DEF ConfigIInv, WriteSpare
<1>2. /\ UNCHANGED <<file, filed, cache, reader, got, changes, outages>> /\ Noting /\ unread' = unread
  BY DEF WriteSpare, ReadNoted
<1>3. put = [at |-> "merge", values |-> put.values, reset |-> put.reset, delete |-> put.delete]
      /\ reader[Loop] = NoReader
  BY <1>1, Tags DEF ConfigShapes, PutIs
<1>4. ReadsKept' /\ ReadsWell /\ SavesWell
  BY <1>2, ReadsAreKept, QuietStep DEF Now, SavesWell
<1>5. CASE NothingToDo
  <2>1. put' = NoRequest /\ UNCHANGED <<spare, time>>
    BY <1>5 DEF WriteSpare
  <2>2. ConfigShapes'
    BY <1>1, <1>2, <1>3, <2>1 DEF ConfigShapes, PutIs, ReaderIs, ReadIs
  <2>3. \A at : Past(at) => Past(at)'
    BY <2>1, Tags DEF Past
  <2>4. TimesKept'
    BY <1>1, <1>2, <2>1, <2>3, TimesStayKept DEF TimesKept
  <2>5. MergesKept'
    BY <2>1, Tags DEF MergesKept
  <2> QED BY <1>4, <2>2, <2>4, <2>5 DEF ConfigIInv
<1>6. CASE ~NothingToDo
  <2>1. spare' = [at |-> time, file |-> Overlay(Merged)] /\ time' = time + 1
        /\ put' = [put EXCEPT !.at = "replace"]
    BY <1>6 DEF WriteSpare
  <2>2. put' = [at |-> "replace", values |-> put.values, reset |-> put.reset, delete |-> put.delete]
    BY <1>3, <2>1
  <2>3. ConfigShapes'
    BY <1>1, <1>2, <1>3, <2>1, <2>2 DEF ConfigShapes, PutIs, ReaderIs, ReadIs
  <2>4. \A at : Past(at) => Past(at)'
    BY <1>1, <2>1 DEF Past, ConfigShapes
  <2>5. TimesKept'
    BY <1>1, <1>2, <2>1, <2>4, TimesStayKept DEF TimesKept, ConfigShapes
  <2>6. since[Loop] \subseteq since'[Loop]
    BY <1>2, <2>2, SinceGrows, Tags DEF Asking, Threads
  <2>7. PICK f \in since[Loop] : got[Loop] = Valid(f)
    BY <1>1 DEF MergesKept, Seen
  <2>8. spare'.file = Overlay(Changed(Valid(f), put'.values, put'.reset)) /\ f \in since'[Loop]
    BY <2>1, <2>2, <2>6, <2>7 DEF Merged
  <2>9. MergesKept'
    BY <2>2, <2>8 DEF MergesKept
  <2> QED BY <1>4, <2>3, <2>5, <2>9 DEF ConfigIInv
<1> QED BY <1>5, <1>6

(* The request is given up: a write that fails, a cache forgotten, a       *)
(* restart.                                                                *)
LEMMA GivesUp ==
  ASSUME ConfigIInv, ReadNoted, put' = NoRequest, cache' = NoCache,
         UNCHANGED <<file, filed, got, time, changes>>, outages' \in Nat,
         spare' = spare \/ spare' = NoSpare,
         \/ reader' = reader /\ reader[Loop] = NoReader
         \/ reader' = [t \in Threads |-> NoReader] /\ outages' # outages
  PROVE  ConfigIInv' /\ ReadsWell /\ SavesWell
<1>1. ConfigShapes /\ TimesKept
  BY DEF ConfigIInv
<1>2. \A t \in Threads : reader'[t] = reader[t] \/ reader'[t] = NoReader
  OBVIOUS
<1>3. ConfigShapes'
  BY <1>1 DEF ConfigShapes, PutIs, ReaderIs, ReadIs, Threads, ReadNoted
<1>4. \A at : Past(at) => Past(at)'
  BY Tags DEF Past
<1>5. TimesKept'
  <2>1. \A s : OldStamp(s) => \E at, k : s = <<at, k>> /\ Past(at)'
    BY <1>4 DEF OldStamp
  <2>2. ASSUME NEW t \in Threads, reader'[t].at \in {"look", "parse", "check", "keep"}
        PROVE  OldStamp(reader'[t].stamp)
    BY <1>1, <1>2, <2>2, Tags DEF TimesKept
  <2>3. ASSUME NEW t \in Threads, reader'[t].at \in {"look", "parse", "check", "keep"}
        PROVE  OldStamp(reader[t].stamp)'
    <3>1. OldStamp(reader'[t].stamp)
      BY <2>2, <2>3
    <3> QED BY <2>1, <3>1 DEF OldStamp
  <2>4. spare'.at \in Nat /\ spare'.at < time' /\ Past(filed)'
    BY <1>1, <1>4 DEF TimesKept, Past, NoSpare, ConfigShapes
  <2> QED BY <2>3, <2>4 DEF TimesKept
<1>6. ReadsKept'
  BY ReadsAreKept DEF Now, ReadNoted
<1>7. MergesKept'
  BY Tags DEF MergesKept
<1>8. ReadsWell /\ SavesWell
  BY QuietStep DEF SavesWell
<1> QED BY <1>3, <1>5, <1>6, <1>7, <1>8 DEF ConfigIInv

(* ... its os.replace ...                                                  *)
LEMMA ReplaceKeeps ==
  ASSUME ConfigIInv, Replace
  PROVE  ConfigIInv' /\ ReadsWell /\ SavesWell
<1>1. ConfigShapes /\ TimesKept /\ MergesKept /\ put.at = "replace"
  BY DEF ConfigIInv, Replace
<1>2. /\ file' = spare.file /\ filed' = spare.at /\ spare' = NoSpare
      /\ put' = [put EXCEPT !.at = "forget"]
      /\ UNCHANGED <<cache, reader, got, time, changes, outages>> /\ Noting /\ unread' = FALSE
  BY DEF Replace
<1>3. put = [at |-> "replace", values |-> put.values, reset |-> put.reset, delete |-> put.delete]
      /\ reader[Loop] = NoReader
  BY <1>1, Tags DEF ConfigShapes, PutIs
<1>4. put' = [at |-> "forget", values |-> put.values, reset |-> put.reset, delete |-> put.delete]
  BY <1>2, <1>3
<1>5. ConfigShapes'
  BY <1>1, <1>2, <1>3, <1>4 DEF ConfigShapes, PutIs, ReaderIs, ReadIs
<1>6. TimesKept'
  <2>1. \A at : Past(at) => Past(at)'
    BY <1>2, <1>4 DEF Past
  <2>2. Past(filed)' /\ spare'.at \in Nat /\ spare'.at < time'
    BY <1>1, <1>2, <1>4 DEF TimesKept, Past, NoSpare, ConfigShapes
  <2> QED BY <1>1, <1>2, <2>1, <2>2, TimesStayKept
<1>7. ReadsKept'
  <2>1. ~OldStamp(Now')
    <3>1. ASSUME NEW at, NEW k, Now' = <<at, k>> PROVE ~Past(at)
      BY <1>1, <1>2, <3>1 DEF Now, FileStamp, Past
    <3> QED BY <3>1 DEF OldStamp
  <2> QED BY <1>2, <2>1, ReadsAreKept
<1>8. MergesKept'
  BY <1>4 DEF MergesKept
<1>9. SavesWell
  BY <1>1, <1>2 DEF SavesWell, MergesKept
<1> QED BY <1>2, <1>5, <1>6, <1>7, <1>8, <1>9, QuietStep DEF ConfigIInv

(* ... and an edit by hand.                                                *)
LEMMA OperatorEditsKeeps ==
  ASSUME ConfigIInv, OperatorEdits
  PROVE  ConfigIInv' /\ ReadsWell /\ SavesWell
<1>1. ConfigShapes /\ TimesKept /\ MergesKept
  BY DEF ConfigIInv
<1>2. /\ filed' = time /\ time' = time + 1 /\ changes' = changes + 1
      /\ UNCHANGED <<spare, cache, reader, put, got, outages>> /\ Noting /\ unread' = FALSE
  BY DEF OperatorEdits
<1>3. ConfigShapes'
  <2>1. unread' \in BOOLEAN
    BY <1>2
  <2>2. time' \in Nat /\ changes' \in Nat /\ outages' \in Nat
    BY <1>1, <1>2 DEF ConfigShapes
  <2> QED BY <1>1, <1>2, <2>1, <2>2 DEF ConfigShapes, PutIs, ReaderIs, ReadIs
<1>4. TimesKept'
  <2>1. \A at : Past(at) => Past(at)'
    BY <1>1, <1>2 DEF Past, ConfigShapes
  <2>2. Past(filed)' /\ spare'.at \in Nat /\ spare'.at < time'
    BY <1>1, <1>2 DEF TimesKept, Past, ConfigShapes
  <2> QED BY <1>1, <1>2, <2>1, <2>2, TimesStayKept
<1>5. ReadsKept'
  <2>1. ~OldStamp(Now')
    <3>1. ASSUME NEW at, NEW k, Now' = <<at, k>> PROVE ~Past(at)
      BY <1>1, <1>2, <3>1 DEF Now, FileStamp, Past, ConfigShapes
    <3> QED BY <3>1 DEF OldStamp
  <2> QED BY <1>2, <2>1, ReadsAreKept
<1>6. MergesKept'
  BY <1>2, MergesAreKept
<1>7. SavesWell
  BY <1>1, <1>2 DEF SavesWell, ConfigShapes
<1> QED BY <1>2, <1>3, <1>4, <1>5, <1>6, <1>7, QuietStep DEF ConfigIInv

(* Every step keeps it.                                                    *)
LEMMA ConfigStepKeeps ==
  ASSUME ConfigIInv, ConfigNext
  PROVE  ConfigIInv' /\ ReadsWell /\ SavesWell
<1>1. ASSUME put.at # "read" PROVE reader[Loop] = NoReader
  BY <1>1 DEF ConfigIInv, ConfigShapes
<1>2. outages \in Nat
  BY DEF ConfigIInv, ConfigShapes
<1>3. CASE UpdateSome
  BY <1>3, UpdateKeeps
<1>4. CASE WriteSpare
  BY <1>4, WriteSpareKeeps
<1>5. CASE OverlayWriteFails
  BY <1>1, <1>2, <1>5, GivesUp DEF OverlayWriteFails
<1>6. CASE Replace
  BY <1>6, ReplaceKeeps
<1>7. CASE Invalidate
  BY <1>1, <1>2, <1>7, GivesUp DEF Invalidate
<1>8. CASE OperatorEdits
  BY <1>8, OperatorEditsKeeps
<1>9. CASE Restarts
  BY <1>2, <1>9, GivesUp DEF Restarts
<1>10. CASE \E t \in Threads : ReadSteps(t)
  BY <1>10, ReadStepsKeep
<1> QED BY <1>3, <1>4, <1>5, <1>6, <1>7, <1>8, <1>9, <1>10 DEF ConfigNext, ReadSteps

(* What a read of the overlay returns was in the file at some time while   *)
(* it read, whatever the cache held, or is nothing, if a version the file  *)
(* had meanwhile could not be looked at or read; and a save keeps every    *)
(* override that its read returned and it does not name (read_overlay,     *)
(* write_overlay, update_provider_config).                                 *)
THEOREM SettingsAreKept == ConfigSpec => OverlayIsKept
<1>1. ConfigInit => ConfigIInv
  BY ConfigInitIInv
<1>2. ConfigIInv /\ [ConfigNext]_configVars => ConfigIInv'
  <2>1. ASSUME ConfigIInv, UNCHANGED configVars PROVE ConfigIInv'
    BY <2>1 DEF configVars, ConfigIInv, ConfigShapes, TimesKept, ReadsKept, MergesKept, ReaderIs,
                ReadIs, PutIs, Past, OldStamp, Claims, Seen, Now, Found, Unreadable
  <2> QED BY <2>1, ConfigStepKeeps
<1>3. ConfigIInv /\ [ConfigNext]_configVars
        => [/\ \A t \in Threads :
                 reader[t] # NoReader /\ reader'[t] = NoReader /\ outages' = outages
                   => \E f \in since[t] \cup Unreadable' : got'[t] = Valid(f)
            /\ file' # file /\ changes' = changes
                 => /\ put.at = "replace"
                    /\ \E f \in since[Loop] :
                         file' = Overlay(Changed(Valid(f), put.values, put.reset))]_configVars
  BY ConfigStepKeeps DEF ReadsWell, SavesWell
<1> QED BY <1>1, <1>2, <1>3, PTL DEF ConfigSpec, OverlayIsKept

-----------------------------------------------------------------------------
(* SandboxFiles: no save is blind, and none is torn.                       *)

SaveText == Texts \cup {Seed}
SaveFields == {"at", "expects", "condition", "writes", "inode"}
Late == {"send", "open", "fill", "swap", "reread"}

(* What a request holds of the others, and of the file.                    *)
SaveShapes ==
  /\ DOMAIN text = Inodes /\ text = [i \in DOMAIN text |-> text[i]]
  /\ DOMAIN save = Savers /\ save = [s \in DOMAIN save |-> save[s]]
  /\ DOMAIN held = Savers
  /\ \A s \in Savers : \/ save[s] = NoSave
                       \/ (/\ DOMAIN save[s] = SaveFields /\ save[s].writes \in SaveText
                           /\ save[s].at # "none")
WholeKept ==
  ~together =>
    /\ \A s, u \in Writing : s = u
    /\ target # Nowhere => (target \in Inodes /\ text[target] \in SaveText)
    /\ temp # Nowhere => (temp \in Inodes /\ temp # target)
    /\ \A s \in Savers :
         /\ save[s].at \in {"fill", "swap"} => (temp # Nowhere /\ save[s].inode = temp)
         /\ save[s].at = "fill" => text[temp] = ""
         /\ save[s].at = "swap" => text[temp] = save[s].writes
NotBlind ==
  \A s \in Savers :
    /\ save[s].at = "exists" => save[s].expects = AnyText
    /\ save[s].at \in Late => save[s].expects \in held[s] \cup {AnyText}
SandboxIInv == SaveShapes /\ WholeKept /\ NotBlind

(* A finite set of no more than one element.                               *)
LEMMA Alone == ASSUME NEW S, IsFiniteSet(S), ~(Cardinality(S) > 1)
               PROVE  \A a, b \in S : a = b
<1>. SUFFICES ASSUME NEW a \in S, NEW b \in S, a # b PROVE FALSE
  OBVIOUS
<1>1. /\ IsFiniteSet(S \ {a}) /\ Cardinality(S \ {a}) = Cardinality(S) - 1
  BY FS_RemoveElement
<1>2. /\ Cardinality((S \ {a}) \ {b}) = Cardinality(S \ {a}) - 1
      /\ IsFiniteSet((S \ {a}) \ {b})
  BY <1>1, FS_RemoveElement
<1>3. Cardinality((S \ {a}) \ {b}) \in Nat /\ Cardinality(S) \in Nat
  BY <1>2, FS_CardinalityType
<1>. QED  BY <1>1, <1>2, <1>3

(* There are finitely many inodes.                                         *)
LEMMA Numbered == Cardinality(Savers) \in Nat
BY SaversAssumption, FS_CardinalityType

(* There is an inode for a new file.                                       *)
LEMMA Vacant == ASSUME SaveShapes, WholeKept, ~together, target = Nowhere \/ temp = Nowhere
                PROVE  Unused \in Inodes /\ Unused \notin Opened \cup {target, temp}
<1>1. Opened \subseteq {temp}
  BY DEF Opened, WholeKept
<1>2. \E i \in Inodes : i \notin Opened \cup {target, temp}
  <2>1. 0 \in Inodes /\ 1 \in Inodes /\ 0 # Nowhere /\ 1 # Nowhere
    BY Numbered DEF Inodes, Nowhere
  <2>. QED  BY <2>1, <1>1
<1>. QED  BY <1>2 DEF Unused

(* What a step does to the request it is about.                            *)
Others(s) == \A u \in Savers \ {s} : save'[u] = save[u]
Moves(s, at) ==
  /\ DOMAIN save' = Savers /\ save' = [u \in DOMAIN save' |-> save'[u]]
  /\ Others(s)
  /\ DOMAIN save'[s] = SaveFields
  /\ save'[s].at = at
  /\ save'[s].writes \in SaveText
(* What it is about stays.                                                 *)
Same(s) == /\ save'[s].expects = save[s].expects /\ save'[s].writes = save[s].writes
           /\ save'[s].inode = save[s].inode
Leaves(s) ==
  /\ DOMAIN save' = Savers /\ save' = [u \in DOMAIN save' |-> save'[u]]
  /\ Others(s)
  /\ save'[s] = NoSave

(* A request under way has its fields.                                     *)
LEMMA Fields == ASSUME SaveShapes, NEW s \in Savers, save[s].at # "none"
                PROVE  DOMAIN save[s] = SaveFields /\ save[s].writes \in SaveText
BY DEF SaveShapes, NoSave

(* SaveGoes takes the request on with what it is about.                    *)
LEMMA GoesIs == ASSUME SaveShapes, NEW s \in Savers, save[s].at # "none", NEW at, SaveGoes(s, at)
                PROVE  Moves(s, at) /\ Same(s)
<1>1. DOMAIN save[s] = SaveFields /\ save[s].writes \in SaveText
  BY Fields
<1>. DEFINE next == [save[s] EXCEPT !.at = at]
<1>2. /\ DOMAIN next = SaveFields /\ next.at = at /\ next.expects = save[s].expects
      /\ next.writes = save[s].writes /\ next.inode = save[s].inode
  BY <1>1 DEF SaveFields
<1>3. save' = [save EXCEPT ![s] = next]
  BY DEF SaveGoes
<1>. HIDE DEF next
<1>4. DOMAIN save' = Savers /\ save' = [u \in DOMAIN save' |-> save'[u]]
  BY <1>3 DEF SaveShapes
<1>5. Others(s) /\ save'[s] = next
  BY <1>3 DEF SaveShapes, Others
<1>. QED  BY <1>1, <1>2, <1>4, <1>5 DEF Moves, Same

(* SaveEnds ends it.                                                       *)
LEMMA EndsIs == ASSUME SaveShapes, NEW s \in Savers, SaveEnds(s)
                PROVE  Leaves(s)
<1>. DEFINE next == NoSave
<1>3. save' = [save EXCEPT ![s] = next]
  BY DEF SaveEnds
<1>. HIDE DEF next
<1>4. DOMAIN save' = Savers /\ save' = [u \in DOMAIN save' |-> save'[u]]
  BY <1>3 DEF SaveShapes
<1>5. Others(s) /\ save'[s] = next
  BY <1>3 DEF SaveShapes, Others
<1>. QED  BY <1>4, <1>5 DEF Leaves, next

(* A step of one request leaves none of them blind.                        *)
LEMMA BlindIs ==
  ASSUME SaveShapes, NotBlind, NEW s \in Savers, SaveNoted,
         Leaves(s) \/ (/\ Others(s)
                       /\ save'[s].at = "exists" => save'[s].expects = AnyText
                       /\ save'[s].at \in Late
                          => save'[s].expects \in held[s] \cup {AnyText,
                               IF target' = Nowhere THEN "" ELSE text'[target']})
  PROVE  NotBlind' /\ DOMAIN held' = Savers
<1>. DEFINE new == IF target' = Nowhere THEN "" ELSE text'[target']
<1>1. \A u \in Savers : save'[u] # NoSave => held'[u] = held[u] \cup {new}
  BY DEF SaveNoted
<1>. HIDE DEF new
<1>0. NoSave.at \notin Late \cup {"exists"}
  BY DEF NoSave, Late
<1>2. ASSUME NEW u \in Savers, save'[u].at = "exists" PROVE save'[u].expects = AnyText
  BY <1>0, <1>2 DEF NotBlind, Leaves, Others
<1>3. ASSUME NEW u \in Savers, save'[u].at \in Late
      PROVE  save'[u].expects \in held'[u] \cup {AnyText}
  <2>1. save'[u] # NoSave
    BY <1>0, <1>3
  <2>2. held'[u] = held[u] \cup {new}
    BY <1>1, <2>1
  <2>3. save'[u].expects \in held[u] \cup {AnyText, new}
    <3>1. CASE u # s
      BY <3>1, <1>3 DEF Leaves, Others, NotBlind
    <3>2. CASE u = s
      BY <3>2, <2>1, <1>3 DEF Leaves, new
    <3>. QED  BY <3>1, <3>2
  <2>. QED  BY <2>2, <2>3
<1>4. DOMAIN held' = Savers
  BY DEF SaveNoted
<1>. QED  BY <1>2, <1>3, <1>4 DEF NotBlind, Late

(* As long as no two saves were at it together, one is.                    *)
LEMMA AloneNext == ASSUME SaveNoted, ~together'
                   PROVE  ~together /\ \A a, b \in Writing' : a = b
<1>1. ~(Cardinality(Writing') > 1) /\ ~together
  BY DEF SaveNoted
<1>2. IsFiniteSet(Writing')
  BY SaversAssumption, FS_Subset DEF Writing
<1>. QED  BY <1>1, <1>2, Alone

(* No inode is Nowhere, and no request is under way at rest.               *)
LEMMA NamesApart == Nowhere \notin Inodes /\ NoSave.at = "none"
BY Numbered DEF Inodes, Nowhere, NoSave

(* Nobody is where the temporary file counts who was not there before.     *)
Quietly == \A u \in Savers : save'[u] = save[u] \/ save'[u].at \notin {"fill", "swap"}

(* The file stays whole when nobody touches it ...                         *)
LEMMA FileKept ==
  ASSUME SaveShapes, WholeKept, SaveNoted, Quietly, UNCHANGED <<text, target, temp>>
  PROVE  WholeKept'
<1>. SUFFICES ASSUME ~together' PROVE WholeKept'
  BY DEF WholeKept
<1>1. ~together /\ \A a, b \in Writing' : a = b
  BY AloneNext
<1>. QED  BY <1>1 DEF WholeKept, Quietly

(* ... and when it is written in one go.                                   *)
LEMMA FileWritten ==
  ASSUME SaveShapes, WholeKept, SaveNoted, Quietly, temp' = temp, NEW t \in SaveText,
         target' = IF target = Nowhere THEN Unused ELSE target,
         text' = [text EXCEPT ![target'] = t]
  PROVE  WholeKept'
<1>. SUFFICES ASSUME ~together' PROVE WholeKept'
  BY DEF WholeKept
<1>1. ~together /\ \A a, b \in Writing' : a = b
  BY AloneNext
<1>2. target' \in Inodes /\ (temp # Nowhere => temp # target')
  <2>1. CASE target = Nowhere
    BY <2>1, <1>1, Vacant
  <2>2. CASE target # Nowhere
    BY <2>2, <1>1 DEF WholeKept
  <2>. QED  BY <2>1, <2>2
<1>3. text'[target'] = t /\ (temp # Nowhere => text'[temp] = text[temp])
  BY <1>2, <1>1 DEF SaveShapes, WholeKept
<1>. QED  BY <1>1, <1>2, <1>3 DEF WholeKept, Quietly

(* The shapes stay.                                                        *)
LEMMA ShapesKept ==
  ASSUME SaveShapes, DOMAIN held' = Savers,
         NEW s \in Savers, NEW at, Leaves(s) \/ (Moves(s, at) /\ at # "none"),
         DOMAIN text' = Inodes /\ text' = [i \in DOMAIN text' |-> text'[i]]
  PROVE  SaveShapes'
<1>1. \A u \in Savers : \/ save'[u] = NoSave
                        \/ (/\ DOMAIN save'[u] = SaveFields /\ save'[u].writes \in SaveText
                            /\ save'[u].at # "none")
  BY DEF SaveShapes, Leaves, Moves, Others
<1>. QED  BY <1>1 DEF SaveShapes, Leaves, Moves, SaveText

(* A step that leaves the files alone and takes the request to `at`, or to *)
(* its end.                                                                *)
LEMMA Elsewhere ==
  ASSUME SandboxIInv, SaveNoted, UNCHANGED <<text, target, temp>>,
         NEW s \in Savers, NEW at \in {"exists", "read", "send", "open", "reread"},
         \/ Leaves(s)
         \/ /\ Moves(s, at)
            /\ at = "exists" => save'[s].expects = AnyText
            /\ at \in Late => save'[s].expects \in held[s] \cup {AnyText,
                                IF target' = Nowhere THEN "" ELSE text'[target']}
  PROVE  SandboxIInv'
<1>1. NotBlind' /\ DOMAIN held' = Savers
  <2>1. CASE Leaves(s)
    BY <2>1, BlindIs DEF SandboxIInv
  <2>2. CASE Moves(s, at)
    <3>1. Leaves(s) \/ (/\ Others(s)
                        /\ save'[s].at = "exists" => save'[s].expects = AnyText
                        /\ save'[s].at \in Late
                          => save'[s].expects \in held[s] \cup {AnyText,
                               IF target' = Nowhere THEN "" ELSE text'[target']})
      BY DEF Moves, Leaves
    <3>. QED  BY <3>1, BlindIs DEF SandboxIInv
  <2>. QED  BY <2>1, <2>2
<1>2. SaveShapes'
  BY <1>1, ShapesKept DEF SandboxIInv, SaveShapes
<1>3. WholeKept'
  <2>1. Quietly
    BY NamesApart DEF Quietly, Leaves, Moves, Others
  <2>. QED  BY <2>1, FileKept DEF SandboxIInv
<1>. QED  BY <1>1, <1>2, <1>3 DEF SandboxIInv

(* Steps of a request that go by SaveGoes or SaveEnds and leave the files. *)
LEMMA Onward ==
  ASSUME SandboxIInv, SaveNoted, UNCHANGED <<text, target, temp>>,
         NEW s \in Savers, save[s].at # "none",
         NEW at \in {"exists", "read", "send", "open", "reread"},
         at # "exists",
         save[s].at \in Late \cup {"exists"},
         SaveEnds(s) \/ SaveGoes(s, at)
  PROVE  SandboxIInv'
<1>1. CASE SaveEnds(s)
  BY <1>1, EndsIs, Elsewhere DEF SandboxIInv
<1>2. CASE SaveGoes(s, at)
  <2>1. Moves(s, at) /\ Same(s)
    BY <1>2, GoesIs DEF SandboxIInv
  <2>2. save'[s].expects \in held[s] \cup {AnyText}
    BY <2>1 DEF Same, SandboxIInv, NotBlind
  <2>. QED  BY <2>1, <2>2, Elsewhere
<1>. QED  BY <1>1, <1>2

(* Every step keeps the invariant ...                                      *)
LEMMA SandboxStep == ASSUME SandboxIInv, [SandboxNext]_sandboxVars PROVE SandboxIInv'
<1>. USE DEF SandboxIInv
<1>0. SaveShapes OBVIOUS
<1>1. ASSUME NEW s \in Savers, NEW expected, NEW content \in SaveText, NEW at \in {"read", "exists"},
             at = "exists" => expected = AnyText, SaveAsks(s, expected, content, at)
      PROVE  SandboxIInv'
  <2>. DEFINE next == [at |-> at, expects |-> expected, condition |-> expected,
                       writes |-> content, inode |-> Nowhere]
  <2>1. /\ DOMAIN next = SaveFields /\ next.at = at /\ next.expects = expected
        /\ next.writes = content
    BY DEF SaveFields
  <2>2. save' = [save EXCEPT ![s] = next]
    BY <1>1 DEF SaveAsks
  <2>. HIDE DEF next
  <2>3. DOMAIN save' = Savers /\ save' = [u \in DOMAIN save' |-> save'[u]]
    BY <2>2 DEF SaveShapes
  <2>4. Others(s) /\ save'[s] = next
    BY <2>2 DEF SaveShapes, Others
  <2>5. Moves(s, at) /\ (at = "exists" => save'[s].expects = AnyText) /\ at \notin Late
    BY <2>1, <2>3, <2>4, <1>1 DEF Moves, Late
  <2>. QED  BY <2>5, <1>1, Elsewhere DEF SaveAsks, fileVars
<1>2. ASSUME NEW s \in Savers, Put(s) PROVE SandboxIInv'
  BY <1>1, <1>2 DEF Put, SaveText
<1>3. ASSUME NEW s \in Savers, Seeds(s) PROVE SandboxIInv'
  BY <1>1, <1>3 DEF Seeds, SaveText
<1>4. ASSUME NEW s \in Savers, Refused(s) PROVE SandboxIInv'
  <2>1. CASE save[s].at = "exists"
    <3>1. SaveGoes(s, "send")
      BY <2>1, <1>4 DEF Refused, SaveGoes
    <3>. QED  BY <3>1, <2>1, <1>4, Onward DEF Refused, fileVars
  <2>2. CASE save[s].at = "read"
    <3>1. SaveEnds(s)
      BY <2>2, <1>4 DEF Refused, SaveEnds
    <3>. QED  BY <3>1, <1>4, EndsIs, Elsewhere DEF Refused, fileVars
  <2>. QED  BY <2>1, <2>2, <1>4 DEF Refused
<1>5. ASSUME NEW s \in Savers, Exists(s) PROVE SandboxIInv'
  <2>1. SaveEnds(s) \/ SaveGoes(s, "send")
    BY <1>5 DEF Exists
  <2>. QED  BY <2>1, <1>5, Onward DEF Exists, fileVars
<1>6. ASSUME NEW s \in Savers, ReadCurrent(s) PROVE SandboxIInv'
  <2>1. CASE ~Matches(s)
    <3>1. SaveEnds(s)
      BY <2>1, <1>6 DEF ReadCurrent, SaveEnds
    <3>. QED  BY <3>1, <1>6, EndsIs, Elsewhere DEF ReadCurrent, fileVars
  <2>2. CASE Matches(s)
    <3>. DEFINE next == [save[s] EXCEPT !.at = "send", !.condition = Current]
    <3>0. DOMAIN save[s] = SaveFields /\ save[s].writes \in SaveText
      BY <1>6, Fields DEF ReadCurrent
    <3>1. /\ DOMAIN next = SaveFields /\ next.at = "send" /\ next.expects = save[s].expects
          /\ next.writes = save[s].writes
      BY <3>0 DEF SaveFields
    <3>2. save' = [save EXCEPT ![s] = next]
      BY <1>6, <2>2 DEF ReadCurrent
    <3>. HIDE DEF next
    <3>3. DOMAIN save' = Savers /\ save' = [u \in DOMAIN save' |-> save'[u]]
      BY <3>2 DEF SaveShapes
    <3>4. Others(s) /\ save'[s] = next
      BY <3>2 DEF SaveShapes, Others
    <3>5. Moves(s, "send")
      BY <3>0, <3>1, <3>3, <3>4 DEF Moves
    <3>6. /\ target' # Nowhere /\ save'[s].expects = text'[target']
          /\ UNCHANGED <<text, target, temp>> /\ SaveNoted
      BY <3>1, <3>4, <2>2, <1>6 DEF ReadCurrent, Matches, Current, TextAt, fileVars
    <3>7. save'[s].expects \in held[s] \cup {AnyText,
                                IF target' = Nowhere THEN "" ELSE text'[target']}
      BY <3>6
    <3>. QED  BY <3>5, <3>6, <3>7, Elsewhere
  <2>. QED  BY <2>1, <2>2
<1>7. ASSUME NEW s \in Savers, NotWrittenByHermes(s) PROVE SandboxIInv'
  <2>1. SaveEnds(s)
    BY <1>7 DEF NotWrittenByHermes
  <2>. QED  BY <2>1, <1>7, EndsIs, Elsewhere DEF NotWrittenByHermes, fileVars
<1>8. ASSUME NEW s \in Savers, Compare(s) PROVE SandboxIInv'
  <2>1. (SaveEnds(s) \/ SaveGoes(s, "open")) /\ save[s].at \in Late
    BY <1>8 DEF Compare, Late
  <2>. QED  BY <2>1, <1>8, Onward DEF Compare, fileVars
<1>9. ASSUME NEW s \in Savers, Reread(s) PROVE SandboxIInv'
  <2>1. SaveEnds(s)
    BY <1>9 DEF Reread
  <2>. QED  BY <2>1, <1>9, EndsIs, Elsewhere DEF Reread, fileVars
<1>10. ASSUME NEW s \in Savers, WriteByHermes(s) PROVE SandboxIInv'
  <2>0. /\ SaveNoted /\ save[s].at = "send" /\ temp' = temp
        /\ SaveEnds(s) \/ SaveGoes(s, "reread")
        /\ target' = IF target = Nowhere THEN Unused ELSE target
        /\ text' = [text EXCEPT ![target'] = save[s].writes]
    BY <1>10 DEF WriteByHermes
  <2>1. save[s].writes \in SaveText
    BY <2>0, Fields
  <2>2. Leaves(s) \/ (Moves(s, "reread") /\ Same(s))
    BY <2>0, GoesIs, EndsIs
  <2>3. Quietly
    BY <2>2, NamesApart DEF Quietly, Leaves, Moves, Others
  <2>4. WholeKept'
    BY <2>0, <2>1, <2>3, FileWritten
  <2>5. NotBlind' /\ DOMAIN held' = Savers
    <3>1. Leaves(s) \/ (/\ Others(s)
                        /\ save'[s].at = "exists" => save'[s].expects = AnyText
                        /\ save'[s].at \in Late
                          => save'[s].expects \in held[s] \cup {AnyText,
                               IF target' = Nowhere THEN "" ELSE text'[target']})
      BY <2>0, <2>2 DEF Moves, Same, NotBlind, Late
    <3>. QED  BY <2>0, <3>1, BlindIs
  <2>6. DOMAIN text' = Inodes /\ text' = [i \in DOMAIN text' |-> text'[i]]
    BY <2>0 DEF SaveShapes
  <2>7. SaveShapes'
    BY <2>2, <2>5, <2>6, ShapesKept
  <2>. QED  BY <2>4, <2>5, <2>7
<1>11. ASSUME save' = save, SaveNoted, WholeKept',
              DOMAIN text' = Inodes /\ text' = [i \in DOMAIN text' |-> text'[i]]
       PROVE  SandboxIInv'
  <2>1. DOMAIN held' = Savers /\ \A u \in Savers : save[u] # NoSave => held[u] \subseteq held'[u]
    BY <1>11 DEF SaveNoted
  <2>2. NotBlind'
    BY <1>11, <2>1, NamesApart DEF NotBlind, Late
  <2>3. SaveShapes'
    BY <1>11, <2>1 DEF SaveShapes, SaveText
  <2>. QED  BY <1>11, <2>2, <2>3
<1>12. ASSUME AgentEdits PROVE SandboxIInv'
  <2>1. PICK t \in Texts : /\ target' = IF target = Nowhere THEN Unused ELSE target
                           /\ text' = [text EXCEPT ![target'] = t]
    BY <1>12 DEF AgentEdits
  <2>2. SaveNoted /\ save' = save /\ temp' = temp
    BY <1>12 DEF AgentEdits
  <2>3. Quietly /\ t \in SaveText
    BY <2>2 DEF Quietly, SaveText
  <2>4. WholeKept'
    BY <2>1, <2>2, <2>3, FileWritten
  <2>5. DOMAIN text' = Inodes /\ text' = [i \in DOMAIN text' |-> text'[i]]
    BY <2>1 DEF SaveShapes
  <2>. QED  BY <2>2, <2>4, <2>5, <1>11
<1>13. ASSUME AgentDeletes PROVE SandboxIInv'
  <2>1. /\ SaveNoted /\ save' = save /\ temp' = temp /\ text' = text
        /\ target' = Nowhere
    BY <1>13 DEF AgentDeletes
  <2>2. WholeKept'
    <3>. SUFFICES ASSUME ~together' PROVE WholeKept'
      BY DEF WholeKept
    <3>1. ~together /\ \A a, b \in Writing' : a = b
      BY <2>1, AloneNext
    <3>2. temp # Nowhere => temp \in Inodes /\ temp # Nowhere
      BY <3>1 DEF WholeKept
    <3>. QED  BY <2>1, <3>1, <3>2 DEF WholeKept
  <2>. QED  BY <2>1, <2>2, <1>11 DEF SaveShapes
<1>14. ASSUME Dies PROVE SandboxIInv'
  <2>1. /\ SaveNoted /\ save' = [s \in Savers |-> NoSave]
        /\ UNCHANGED <<text, target, temp>>
    BY <1>14 DEF Dies, fileVars
  <2>2. DOMAIN save' = Savers /\ save' = [s \in DOMAIN save' |-> save'[s]]
        /\ \A s \in Savers : save'[s] = NoSave
    BY <2>1
  <2>3. DOMAIN held' = Savers
    BY <2>1 DEF SaveNoted
  <2>4. SaveShapes'
    BY <2>1, <2>2, <2>3 DEF SaveShapes
  <2>5. WholeKept'
    BY <2>1, <2>2, NamesApart, FileKept DEF Quietly
  <2>6. NotBlind'
    BY <2>2, NamesApart DEF NotBlind, Late
  <2>. QED  BY <2>4, <2>5, <2>6
<1>15. ASSUME NEW s \in Savers, NEW at \in {"fill", "swap", "reread"}, SaveNoted,
              save[s].at \in {"open", "fill", "swap"},
              Leaves(s) \/ (Moves(s, at) /\ save'[s].expects = save[s].expects),
              WholeKept',
              DOMAIN text' = Inodes /\ text' = [i \in DOMAIN text' |-> text'[i]]
       PROVE  SandboxIInv'
  <2>5. NotBlind' /\ DOMAIN held' = Savers
    <3>1. Leaves(s) \/ (/\ Others(s)
                        /\ save'[s].at = "exists" => save'[s].expects = AnyText
                        /\ save'[s].at \in Late
                          => save'[s].expects \in held[s] \cup {AnyText,
                               IF target' = Nowhere THEN "" ELSE text'[target']})
      BY <1>15 DEF Moves, NotBlind, Late
    <3>. QED  BY <1>15, <3>1, BlindIs
  <2>7. SaveShapes'
    BY <1>15, <2>5, ShapesKept
  <2>. QED  BY <1>15, <2>5, <2>7
<1>16. ASSUME NEW s \in Savers, Open(s) PROVE SandboxIInv'
  <2>. DEFINE i == IF TempName = Nowhere THEN Unused ELSE TempName
              next == [save[s] EXCEPT !.at = "fill", !.inode = i]
  <2>0. /\ SaveNoted /\ save[s].at = "open" /\ target' = target
        /\ text' = [text EXCEPT ![i] = ""] /\ temp' = i
        /\ save' = [save EXCEPT ![s] = next]
    BY <1>16 DEF Open
  <2>1. DOMAIN save[s] = SaveFields /\ save[s].writes \in SaveText
    BY <2>0, Fields
  <2>2. /\ DOMAIN next = SaveFields /\ next.at = "fill" /\ next.expects = save[s].expects
        /\ next.writes = save[s].writes /\ next.inode = i
    BY <2>1 DEF SaveFields
  <2>3. TempName = temp BY DEF TempName
  <2>4. i = IF temp = Nowhere THEN Unused ELSE temp
    BY <2>3
  <2>. HIDE DEF next, i
  <2>5. DOMAIN save' = Savers /\ save' = [u \in DOMAIN save' |-> save'[u]]
    BY <2>0 DEF SaveShapes
  <2>6. Others(s) /\ save'[s] = next
    BY <2>0 DEF SaveShapes, Others
  <2>7. Moves(s, "fill") /\ save'[s].expects = save[s].expects
    BY <2>1, <2>2, <2>5, <2>6 DEF Moves
  <2>8. WholeKept'
    <3>. SUFFICES ASSUME ~together' PROVE WholeKept'
      BY DEF WholeKept
    <3>1. ~together /\ \A a, b \in Writing' : a = b
      BY <2>0, AloneNext
    <3>2. s \in Writing' /\ \A u \in Savers : u # s => save'[u].at \notin {"fill", "swap"}
      <4>1. s \in Writing'
        BY <2>2, <2>6 DEF Writing
      <4>. QED  BY <4>1, <3>1 DEF Writing
    <3>3. i \in Inodes /\ i # target
      BY <2>4, <3>1, Vacant DEF WholeKept
    <3>4. i # Nowhere
      BY <3>3, NamesApart
    <3>5. text'[i] = "" /\ (target # Nowhere => text'[target] = text[target])
      BY <2>0, <3>1, <3>3 DEF SaveShapes, WholeKept
    <3>. QED  BY <2>0, <2>2, <2>6, <3>1, <3>2, <3>3, <3>4, <3>5 DEF WholeKept
  <2>9. DOMAIN text' = Inodes /\ text' = [j \in DOMAIN text' |-> text'[j]]
    BY <2>0 DEF SaveShapes
  <2>. QED  BY <2>0, <2>7, <2>8, <2>9, <1>15
<1>17. ASSUME NEW s \in Savers, Fill(s) PROVE SandboxIInv'
  <2>1. PICK t \in {save[s].writes} \cup
             (IF text[save[s].inode] \in {"", save[s].writes} THEN {} ELSE {"torn"}) :
          text' = [text EXCEPT ![save[s].inode] = t]
    BY <1>17 DEF Fill
  <2>2. /\ SaveNoted /\ save[s].at = "fill" /\ target' = target /\ temp' = temp
        /\ SaveGoes(s, "swap")
    BY <1>17 DEF Fill
  <2>3. Moves(s, "swap") /\ Same(s)
    BY <2>2, GoesIs
  <2>4. DOMAIN text' = Inodes /\ text' = [j \in DOMAIN text' |-> text'[j]]
    BY <2>1 DEF SaveShapes
  <2>5. WholeKept'
    <3>. SUFFICES ASSUME ~together' PROVE WholeKept'
      BY DEF WholeKept
    <3>1. ~together /\ \A a, b \in Writing' : a = b
      BY <2>2, AloneNext
    <3>2. \A u \in Savers : u # s => save'[u].at \notin {"fill", "swap"}
      <4>1. s \in Writing'
        BY <2>3 DEF Writing, Moves
      <4>. QED  BY <4>1, <3>1 DEF Writing
    <3>3. temp # Nowhere /\ temp \in Inodes /\ temp # target /\ save[s].inode = temp
          /\ text[temp] = ""
      BY <2>2, <3>1 DEF WholeKept
    <3>4. t = save[s].writes
      BY <2>1, <3>3
    <3>5. text'[temp] = save'[s].writes /\ save'[s].inode = temp
          /\ (target # Nowhere => text'[target] = text[target])
      BY <2>1, <2>3, <3>1, <3>3, <3>4 DEF SaveShapes, WholeKept, Same
    <3>. QED  BY <2>2, <2>3, <3>1, <3>2, <3>3, <3>5 DEF WholeKept, Moves
  <2>. QED  BY <2>2, <2>3, <2>4, <2>5, <1>15 DEF Same
<1>18. ASSUME NEW s \in Savers, Swap(s) PROVE SandboxIInv'
  <2>1. /\ SaveNoted /\ save[s].at = "swap" /\ text' = text /\ temp' = Nowhere
        /\ IF temp = Nowhere THEN SaveEnds(s) /\ target' = target
           ELSE SaveGoes(s, "reread") /\ target' = temp
    BY <1>18 DEF Swap
  <2>2. Leaves(s) \/ (Moves(s, "reread") /\ Same(s))
    BY <2>1, GoesIs, EndsIs
  <2>3. WholeKept'
    <3>. SUFFICES ASSUME ~together' PROVE WholeKept'
      BY DEF WholeKept
    <3>1. ~together /\ \A a, b \in Writing' : a = b
      BY <2>1, AloneNext
    <3>2. temp # Nowhere /\ temp \in Inodes /\ text[temp] = save[s].writes
      BY <2>1, <3>1 DEF WholeKept
    <3>3. target' = temp /\ text'[target'] \in SaveText
      BY <2>1, <3>2, Fields
    <3>4. \A u \in Savers : save'[u].at \notin {"fill", "swap"}
      <4>1. \A u \in Savers : save[u].at \in {"fill", "swap"} => u = s
        BY <2>1, <3>1 DEF WholeKept, Writing
      <4>. QED  BY <4>1, <2>2, NamesApart DEF Leaves, Moves, Others
    <3>. QED  BY <2>1, <3>1, <3>2, <3>3, <3>4 DEF WholeKept
  <2>. QED  BY <2>1, <2>2, <2>3, <1>15 DEF Same, SaveShapes
<1>19. ASSUME NEW s \in Savers, SaveWriteFails(s) PROVE SandboxIInv'
  <2>1. /\ SaveNoted /\ save[s].at \in {"open", "fill", "swap"}
        /\ text' = text /\ temp' = Nowhere /\ target' = target /\ SaveEnds(s)
    BY <1>19 DEF SaveWriteFails
  <2>2. Leaves(s)
    BY <2>1, EndsIs
  <2>3. WholeKept'
    <3>. SUFFICES ASSUME ~together' PROVE WholeKept'
      BY DEF WholeKept
    <3>1. ~together /\ \A a, b \in Writing' : a = b
      BY <2>1, AloneNext
    <3>4. \A u \in Savers : save'[u].at \notin {"fill", "swap"}
      <4>1. \A u \in Savers : save[u].at \in {"fill", "swap"} => u = s
        BY <2>1, <3>1 DEF WholeKept, Writing
      <4>. QED  BY <4>1, <2>2, NamesApart DEF Leaves, Others
    <3>. QED  BY <2>1, <3>1, <3>4 DEF WholeKept
  <2>. QED  BY <2>1, <2>2, <2>3, <1>15 DEF SaveShapes
<1>20. CASE UNCHANGED sandboxVars
  BY <1>20 DEF sandboxVars, SaveShapes, SaveText, WholeKept, Writing, NotBlind
<1>. QED
  BY <1>2, <1>3, <1>4, <1>5, <1>6, <1>7, <1>8, <1>9, <1>10, <1>12, <1>13, <1>14, <1>16, <1>17,
     <1>18, <1>19, <1>20 DEF SandboxNext

(* ... which holds at the start.                                           *)
LEMMA SandboxStarts == ASSUME SandboxInit PROVE SandboxIInv
<1>1. /\ DOMAIN save = Savers /\ save = [s \in DOMAIN save |-> save[s]]
      /\ \A s \in Savers : save[s] = NoSave
      /\ DOMAIN text = Inodes /\ text = [i \in DOMAIN text |-> text[i]]
      /\ DOMAIN held = Savers /\ target = Nowhere /\ temp = Nowhere
  BY DEF SandboxInit
<1>2. Writing = {}
  BY <1>1, NamesApart DEF Writing
<1>. QED  BY <1>1, <1>2, NamesApart DEF SandboxIInv, SaveShapes, WholeKept, NotBlind, Late

(* For any savers and texts, with either backend, whatever the agent       *)
(* edits, whatever fails and whenever the process dies: a save that goes   *)
(* on to its write was of a text the file had since the request came in,   *)
(* and the file is whole as long as no two saves wrote together            *)
(* (write_sandbox_text, _write_text_sync).                                 *)
THEOREM NoBlindNorTornSave == SandboxSpec => []SavesAreSafe
<1>1. SandboxIInv => SavesAreSafe
  BY DEF SandboxIInv, NotBlind, WholeKept, SavesAreSafe, Late, SaveText
<1>. QED  BY <1>1, SandboxStarts, SandboxStep, PTL DEF SandboxSpec

-----------------------------------------------------------------------------
(* Converse: what is shown to the model, and what its answer cites.        *)

(* A set of numbers that is not empty has a least one.                     *)
LEMMA LeastNumber ==
  ASSUME NEW S \in SUBSET Nat, S # {}
  PROVE  \E m \in S : \A n \in S : m <= n
<1>1. PICK m \in S : \A n \in S : ~(<<n, m>> \in OpToRel(<, Nat))
  BY NatLessThanWellFounded, WFMin
<1>2. ASSUME NEW n \in S PROVE m <= n
  <2>1. ~(<<n, m>> \in OpToRel(<, Nat)) /\ n \in Nat /\ m \in Nat
    BY <1>1
  <2> QED BY <2>1 DEF OpToRel
<1> QED BY <1>1, <1>2

(* A set of numbers that is bounded and not empty has a greatest one.      *)
LEMMA GreatestNumber ==
  ASSUME NEW S \in SUBSET Nat, S # {}, NEW b \in Nat, \A n \in S : n <= b
  PROVE  \E m \in S : \A n \in S : n <= m
<1> DEFINE T == {b - n : n \in S}
<1>0. \A n \in S : n \in Nat /\ b - n \in Nat
  OBVIOUS
<1>1. T \in SUBSET Nat /\ T # {}
  BY <1>0
<1>2. PICK t \in T : \A u \in T : t <= u
  BY <1>1, LeastNumber
<1>3. PICK m \in S : t = b - m
  BY <1>2
<1>4. \A n \in S : n <= m
  <2> TAKE n \in S
  <2>1. b - m <= b - n
    BY <1>2, <1>3
  <2> QED BY <2>1, <1>0
<1> QED BY <1>3, <1>4

-----------------------------------------------------------------------------
(* What InOrder lists, and Latest and Oldest pick.                         *)

(* The later of two numbers has more before it.                            *)
LEMMA PlacesRise ==
  ASSUME NEW S \in SUBSET Nat, IsFiniteSet(S), NEW i \in S, NEW k \in S, i < k
  PROVE  Cardinality({j \in S : j < i}) < Cardinality({j \in S : j < k})
<1> DEFINE A == {j \in S : j < i}
           B == {j \in S : j < k}
<1>0. \A j \in S : j \in Nat
  OBVIOUS
<1>1. A \in SUBSET S /\ B \in SUBSET S /\ A \subseteq B /\ i \in B /\ i \notin A
  <2>1. i \in Nat /\ k \in Nat
    BY <1>0
  <2>2. ASSUME NEW j \in S, j < i PROVE j < k
    BY <1>0, <2>1, <2>2
  <2>3. ~(i < i)
    BY <2>1
  <2> QED BY <2>2, <2>3
<1>2. IsFiniteSet(A) /\ IsFiniteSet(B)
  BY <1>1, FS_Subset
<1>3. Cardinality(A) <= Cardinality(B) /\ (Cardinality(A) = Cardinality(B) => A = B)
  BY <1>1, <1>2, FS_Subset
<1>4. Cardinality(A) \in Nat /\ Cardinality(B) \in Nat
  BY <1>2, FS_CardinalityType
<1> QED BY <1>1, <1>3, <1>4

(* InOrder lists the numbers of a finite set, each once.                   *)
LEMMA InOrderIs ==
  ASSUME NEW S \in SUBSET Nat, IsFiniteSet(S)
  PROVE  /\ InOrder(S) \in Seq(S)
         /\ DOMAIN InOrder(S) = 1 .. Cardinality(S)
         /\ {InOrder(S)[n] : n \in DOMAIN InOrder(S)} = S
<1> DEFINE T == 0 .. Cardinality(S) - 1
           At(i) == Cardinality({j \in S : j < i})
           f == [i \in S |-> At(i)]
<1>0. \A j \in S : j \in Nat
  OBVIOUS
<1>1. Cardinality(S) \in Nat
  BY FS_CardinalityType
<1>2. IsFiniteSet(T) /\ Cardinality(T) = Cardinality(S)
  <2>1. Cardinality(S) - 1 \in Int /\ 0 \in Int
    BY <1>1
  <2>2. IsFiniteSet(T) /\ Cardinality(T) = IF 0 > Cardinality(S) - 1 THEN 0
                                           ELSE Cardinality(S) - 1 - 0 + 1
    BY <2>1, FS_Interval
  <2> QED BY <2>2, <1>1
<1>3. ASSUME NEW i \in S PROVE At(i) \in T
  <2>1. {j \in S : j < i} \in SUBSET S /\ i \notin {j \in S : j < i}
    BY <1>0
  <2>2. IsFiniteSet({j \in S : j < i}) /\ At(i) <= Cardinality(S)
        /\ (Cardinality(S) = At(i) => {j \in S : j < i} = S)
    BY <2>1, FS_Subset
  <2>3. At(i) \in Nat
    BY <2>2, FS_CardinalityType
  <2> QED BY <2>1, <2>2, <2>3, <1>1
<1>4. ASSUME NEW i \in S, NEW k \in S, At(i) = At(k) PROVE i = k
  <2>1. CASE i < k
    BY <2>1, <1>4, <1>3, PlacesRise
  <2>2. CASE k < i
    BY <2>2, <1>4, <1>3, PlacesRise
  <2> QED BY <2>1, <2>2, <1>0
<1>5. f \in Injection(S, T)
  BY <1>3, <1>4 DEF Injection, IsInjective
<1>6. f \in Surjection(S, T)
  BY <1>5, <1>2, FS_Injection
<1>7. \A n \in 1 .. Cardinality(S) : \E i \in S : At(i) = n - 1
  <2> TAKE n \in 1 .. Cardinality(S)
  <2>1. n - 1 \in T
    BY <1>1
  <2>2. \A t \in T : \E i \in S : f[i] = t
    BY <1>6 DEF Surjection
  <2> QED BY <2>1, <2>2
<1> HIDE DEF At
<1>8. InOrder(S) = [n \in 1 .. Cardinality(S) |-> CHOOSE i \in S : At(i) = n - 1]
  BY DEF InOrder, At
<1>9. \A n \in 1 .. Cardinality(S) : InOrder(S)[n] \in S /\ At(InOrder(S)[n]) = n - 1
  BY <1>7, <1>8
<1>10. \A i \in S : At(i) + 1 \in 1 .. Cardinality(S) /\ InOrder(S)[At(i) + 1] = i
  <2> TAKE i \in S
  <2>1. At(i) + 1 \in 1 .. Cardinality(S) /\ (At(i) + 1) - 1 = At(i)
    BY <1>3, <1>1
  <2>2. InOrder(S)[At(i) + 1] \in S /\ At(InOrder(S)[At(i) + 1]) = At(i)
    BY <2>1, <1>9
  <2> QED BY <2>1, <2>2, <1>4
<1>11. DOMAIN InOrder(S) = 1 .. Cardinality(S)
  BY <1>8
<1>12. InOrder(S) \in [1 .. Cardinality(S) -> S]
  BY <1>8, <1>9
<1>13. InOrder(S) \in Seq(S)
  BY <1>12, <1>1
<1> QED BY <1>9, <1>10, <1>11, <1>13

(* Latest picks no more than it is told to.                                *)
LEMMA LatestAreFew ==
  ASSUME NEW S \in SUBSET Nat, IsFiniteSet(S), NEW n \in Nat
  PROVE  Latest(S, n) \subseteq S /\ IsFiniteSet(Latest(S, n)) /\ Cardinality(Latest(S, n)) <= n
<1> DEFINE L == Latest(S, n)
           Above(i) == {j \in S : j > i}
           f == [i \in L |-> Cardinality(Above(i))]
           T == 0 .. n - 1
<1>0. \A i \in S : i \in Nat
  OBVIOUS
<1>1. L \in SUBSET S /\ IsFiniteSet(L)
  BY FS_Subset DEF Latest
<1>2. \A i \in S : IsFiniteSet(Above(i)) /\ Cardinality(Above(i)) \in Nat
  <2> TAKE i \in S
  <2>1. Above(i) \in SUBSET S
    OBVIOUS
  <2> QED BY <2>1, FS_Subset, FS_CardinalityType
<1>3. ASSUME NEW i \in S, NEW k \in S, i < k
      PROVE  Cardinality(Above(k)) < Cardinality(Above(i))
  <2>1. Above(k) \in SUBSET Above(i) /\ k \in Above(i) /\ k \notin Above(k)
    <3>1. i \in Nat /\ k \in Nat
      BY <1>0
    <3>2. ASSUME NEW j \in S, j > k PROVE j > i
      BY <1>0, <1>3, <3>1, <3>2
    <3>3. ~(k > k)
      BY <3>1
    <3> QED BY <1>3, <3>2, <3>3
  <2>2. Cardinality(Above(k)) <= Cardinality(Above(i))
        /\ (Cardinality(Above(i)) = Cardinality(Above(k)) => Above(i) = Above(k))
    BY <1>2, <2>1, FS_Subset
  <2> QED BY <2>1, <2>2, <1>2
<1>4. \A i \in L : Cardinality(Above(i)) \in T
  BY <1>1, <1>2 DEF Latest
<1> HIDE DEF Above, L
<1>5. \A i, k \in L : Cardinality(Above(i)) = Cardinality(Above(k)) => i = k
  <2> TAKE i, k \in L
  <2>1. i \in Nat /\ k \in Nat /\ i \in S /\ k \in S
    BY <1>0, <1>1
  <2> QED BY <2>1, <1>2, <1>3
<1>6. f \in Injection(L, T)
  BY <1>4, <1>5 DEF Injection, IsInjective
<1>7. IsFiniteSet(T) /\ Cardinality(T) = n
  BY FS_Interval
<1>8. Cardinality(L) <= n
  BY <1>6, <1>7, FS_Injection
<1> QED BY <1>1, <1>8 DEF L

-----------------------------------------------------------------------------
(* The part of the budget that records take: the units of their texts.     *)

Units == Seq(Shapes)
Cells(units, S) == {c \in S \X (1 .. PerUnit) : c[2] <= units[c[1]].len}

(* What a unit is.                                                         *)
LEMMA UnitIs ==
  ASSUME NEW units \in Units, NEW i \in DOMAIN units
  PROVE  /\ i \in Nat /\ units[i] \in Shapes
         /\ units[i].score \in Nat /\ units[i].len \in 1 .. PerUnit /\ units[i].len \in Nat
<1>1. units[i] \in Shapes /\ i \in Nat
  BY DEF Units
<1>2. units[i].score \in Nat /\ units[i].len \in 1 .. PerUnit /\ PerUnit \in Nat
  BY <1>1, BudgetAssumption
<1> QED BY <1>1, <1>2

(* Units are named by finitely many numbers.                               *)
LEMMA DomainIsFinite ==
  ASSUME NEW units \in Units
  PROVE  /\ IsFiniteSet(DOMAIN units)
         /\ \A S \in SUBSET DOMAIN units : IsFiniteSet(S) /\ Cardinality(S) \in Nat
         /\ DOMAIN units \subseteq Nat
<1>1. Len(units) \in Nat /\ DOMAIN units = 1 .. Len(units)
  BY DEF Units
<1>2. IsFiniteSet(1 .. Len(units))
  BY <1>1, FS_Interval
<1>3. IsFiniteSet(DOMAIN units)
  BY <1>1, <1>2
<1>4. \A S \in SUBSET DOMAIN units : IsFiniteSet(S)
  BY <1>3, FS_Subset
<1> QED BY <1>1, <1>3, <1>4, FS_CardinalityType

(* A record takes no more than PerUnit.                                    *)
LEMMA CellsAre ==
  ASSUME NEW units \in Units, NEW S \in SUBSET DOMAIN units
  PROVE  /\ IsFiniteSet(Cells(units, S)) /\ Used(units, S) = Cardinality(Cells(units, S))
         /\ Used(units, S) \in Nat /\ Used(units, S) <= Cardinality(S) * PerUnit
<1>1. IsFiniteSet(S) /\ PerUnit \in Nat
  BY DomainIsFinite, BudgetAssumption
<1>2. IsFiniteSet(1 .. PerUnit) /\ Cardinality(1 .. PerUnit) = PerUnit
  BY <1>1, FS_Interval
<1>3. IsFiniteSet(S \X (1 .. PerUnit)) /\ Cardinality(S \X (1 .. PerUnit)) = Cardinality(S) * PerUnit
  BY <1>1, <1>2, FS_Product
<1>4. Cells(units, S) \in SUBSET (S \X (1 .. PerUnit))
  BY DEF Cells
<1>5. IsFiniteSet(Cells(units, S)) /\ Cardinality(Cells(units, S)) <= Cardinality(S) * PerUnit
  BY <1>3, <1>4, FS_Subset
<1> QED BY <1>5, FS_CardinalityType DEF Used, Cells

(* Fewer records take no more.                                             *)
LEMMA UsedGrows ==
  ASSUME NEW units \in Units, NEW S \in SUBSET DOMAIN units, NEW T \in SUBSET S
  PROVE  Used(units, T) <= Used(units, S)
<1>1. T \in SUBSET DOMAIN units
  OBVIOUS
<1>2. Cells(units, T) \in SUBSET Cells(units, S)
  BY DEF Cells
<1> QED BY <1>1, <1>2, CellsAre, FS_Subset

(* One more record takes its own length more.                              *)
LEMMA UsedAdds ==
  ASSUME NEW units \in Units, NEW S \in SUBSET DOMAIN units, NEW i \in DOMAIN units \ S
  PROVE  Used(units, S \cup {i}) = Used(units, S) + units[i].len
<1> DEFINE own == Cells(units, {i})
           n == units[i].len
           f == [u \in 1 .. n |-> <<i, u>>]
<1>1. n \in 1 .. PerUnit /\ n \in Nat /\ PerUnit \in Nat
  BY UnitIs, BudgetAssumption
<1>2. \A u : u \in 1 .. n <=> u \in 1 .. PerUnit /\ u <= n
  BY <1>1
<1>3. own = {<<i, u>> : u \in 1 .. n}
  BY <1>2 DEF Cells
<1>4. f \in Surjection(1 .. n, own) /\ f \in Injection(1 .. n, own)
  <2>1. f \in [1 .. n -> own]
    BY <1>3
  <2>2. \A c \in own : \E u \in 1 .. n : f[u] = c
    BY <1>3
  <2>3. \A u, v \in 1 .. n : f[u] = f[v] => u = v
    OBVIOUS
  <2> QED BY <2>1, <2>2, <2>3 DEF Surjection, Injection, IsInjective
<1>5. IsFiniteSet(1 .. n) /\ Cardinality(1 .. n) = n
  <2>1. n \in Int /\ 1 \in Int
    BY <1>1
  <2> HIDE DEF n
  <2>2. IsFiniteSet(1 .. n) /\ Cardinality(1 .. n) = IF 1 > n THEN 0 ELSE n - 1 + 1
    BY <2>1, FS_Interval
  <2> QED BY <2>1, <2>2, <1>1
<1>6. IsFiniteSet(own) /\ Cardinality(own) = n
  BY <1>4, <1>5, FS_Surjection
<1>7. Cells(units, S \cup {i}) = Cells(units, S) \cup own
  BY DEF Cells
<1>8. Cells(units, S) \cap own = {}
  BY DEF Cells
<1>9. S \cup {i} \in SUBSET DOMAIN units
  OBVIOUS
<1>10. Cardinality(Cells(units, S) \cup own) = Cardinality(Cells(units, S)) + n
  <2>1. IsFiniteSet(Cells(units, S)) /\ Cardinality(Cells(units, S)) \in Nat
    BY CellsAre
  <2>2. Cardinality(Cells(units, S) \cup own)
          = Cardinality(Cells(units, S)) + Cardinality(own) - Cardinality(Cells(units, S) \cap own)
    BY <2>1, <1>6, FS_Union
  <2>3. Cardinality(Cells(units, S) \cap own) = 0
    BY <1>8, FS_EmptySet
  <2> QED BY <2>1, <2>2, <2>3, <1>6, <1>1
<1> QED BY <1>7, <1>9, <1>10, CellsAre

-----------------------------------------------------------------------------
(* The order in which records are offered.                                 *)

(* Anchors are units, not more than AnchorUnits, and are not among the     *)
(* relevant.                                                               *)
LEMMA AnchorsAre ==
  ASSUME NEW units \in Units
  PROVE  /\ Anchors(units) \subseteq DOMAIN units
         /\ Cardinality(Anchors(units)) <= AnchorUnits
         /\ Relevant(units) \subseteq DOMAIN units \ Anchors(units)
         /\ Offered(units) \subseteq DOMAIN units
<1> DEFINE S == {i \in DOMAIN units : units[i].kind \in {"message", "chunk"}}
<1>1. S \in SUBSET DOMAIN units /\ S \in SUBSET Nat /\ IsFiniteSet(S) /\ AnchorUnits \in Nat
  BY DomainIsFinite, BudgetAssumption
<1>2. Latest(S, AnchorUnits) \subseteq S /\ Cardinality(Latest(S, AnchorUnits)) <= AnchorUnits
  BY <1>1, LatestAreFew
<1>3. Relevant(units) \subseteq DOMAIN units \ Anchors(units)
  BY DEF Relevant
<1> QED BY <1>1, <1>2, <1>3 DEF Anchors, Offered

(* Better is a strict order.                                               *)
LEMMA BetterIs ==
  ASSUME NEW units \in Units
  PROVE  /\ \A i \in DOMAIN units : ~Better(units, i, i)
         /\ \A i, j \in DOMAIN units : i = j \/ Better(units, i, j) \/ Better(units, j, i)
         /\ \A i, j, k \in DOMAIN units :
              Better(units, i, j) /\ Better(units, j, k) => Better(units, i, k)
<1>1. \A i \in DOMAIN units : i \in Nat /\ units[i].score \in Nat
  BY UnitIs
<1> QED BY <1>1 DEF Better

Rivals(units, i) == {j \in KindOf(units, i) : Better(units, j, i)}

(* In a kind, the better of two records has the lower rank.                *)
LEMMA RanksRise ==
  ASSUME NEW units \in Units, NEW i \in Relevant(units)
  PROVE  /\ i \in DOMAIN units /\ i \in KindOf(units, i) /\ KindOf(units, i) \subseteq Relevant(units)
         /\ Rank(units, i) \in Nat
         /\ \A j \in KindOf(units, i) : KindOf(units, j) = KindOf(units, i)
         /\ \A j \in KindOf(units, i) : Better(units, i, j) => Rank(units, i) < Rank(units, j)
<1>1. Relevant(units) \subseteq DOMAIN units
  BY AnchorsAre
<1>2. KindOf(units, i) \subseteq Relevant(units) /\ i \in KindOf(units, i)
  BY DEF KindOf
<1>3. \A j \in KindOf(units, i) : KindOf(units, j) = KindOf(units, i)
  BY DEF KindOf
<1>4. \A j \in KindOf(units, i) : Rivals(units, j) \in SUBSET DOMAIN units
        /\ IsFiniteSet(Rivals(units, j)) /\ Rank(units, j) = Cardinality(Rivals(units, j))
        /\ Rank(units, j) \in Nat
  <2> TAKE j \in KindOf(units, i)
  <2>1. Rivals(units, j) \in SUBSET DOMAIN units
    BY <1>1, <1>2, <1>3 DEF Rivals
  <2> QED BY <2>1, DomainIsFinite DEF Rank, Rivals
<1>5. ASSUME NEW j \in KindOf(units, i), Better(units, i, j)
      PROVE  Rank(units, i) < Rank(units, j)
  <2>1. i \in Rivals(units, j) /\ i \notin Rivals(units, i)
    BY <1>1, <1>2, <1>3, <1>5, BetterIs DEF Rivals
  <2>2. Rivals(units, i) \in SUBSET Rivals(units, j)
    BY <1>1, <1>2, <1>3, <1>5, BetterIs DEF Rivals
  <2>3. Cardinality(Rivals(units, i)) <= Cardinality(Rivals(units, j))
        /\ (Cardinality(Rivals(units, j)) = Cardinality(Rivals(units, i))
              => Rivals(units, j) = Rivals(units, i))
    BY <2>2, <1>4, FS_Subset
  <2> QED BY <2>1, <2>3, <1>4, <1>2
<1> QED BY <1>1, <1>2, <1>3, <1>4, <1>5

(* The records of a kind are told apart by their ranks, and one is best.   *)
LEMMA BestIs ==
  ASSUME NEW units \in Units, NEW i \in Relevant(units)
  PROVE  /\ BestOf(units, i) \in KindOf(units, i)
         /\ \A j \in KindOf(units, i) : Rank(units, j) = Rank(units, i) => j = i
         /\ \A j \in KindOf(units, i) : BestOf(units, j) = BestOf(units, i)
         /\ Rank(units, i) = 0 => BestOf(units, i) = i
<1>1. ASSUME NEW j \in KindOf(units, i), NEW k \in KindOf(units, i), Rank(units, j) = Rank(units, k)
      PROVE  j = k
  <2>1. j \in Relevant(units) /\ k \in Relevant(units) /\ k \in KindOf(units, j)
        /\ j \in KindOf(units, k)
    BY RanksRise
  <2>2. j \in DOMAIN units /\ k \in DOMAIN units
    BY <2>1, AnchorsAre
  <2>3. Rank(units, j) \in Nat /\ ~(Rank(units, j) < Rank(units, k))
        /\ ~(Rank(units, k) < Rank(units, j))
    BY <2>1, <1>1, RanksRise
  <2>4. ~Better(units, j, k) /\ ~Better(units, k, j)
    BY <2>1, <2>3, RanksRise
  <2> QED BY <2>2, <2>4, BetterIs
<1>2. \E j \in KindOf(units, i) : Rank(units, j) = 0
  <2> DEFINE S == {Rank(units, j) : j \in KindOf(units, i)}
  <2>1. S \in SUBSET Nat /\ S # {}
    BY RanksRise
  <2>2. PICK m \in S : \A n \in S : m <= n
    BY <2>1, LeastNumber
  <2>3. PICK j \in KindOf(units, i) : m = Rank(units, j)
    BY <2>2
  <2>4. j \in Relevant(units) /\ KindOf(units, j) = KindOf(units, i)
    BY RanksRise
  <2>5. Rivals(units, j) = {}
    <3> SUFFICES ASSUME NEW k \in Rivals(units, j) PROVE FALSE
      OBVIOUS
    <3>1. k \in KindOf(units, i) /\ Better(units, k, j)
      BY <2>4 DEF Rivals
    <3>2. k \in Relevant(units) /\ j \in KindOf(units, k)
      BY <3>1, RanksRise
    <3>3. Rank(units, k) < Rank(units, j) /\ Rank(units, k) \in Nat /\ Rank(units, j) \in Nat
      BY <3>1, <3>2, <2>4, RanksRise
    <3>4. m <= Rank(units, k)
      BY <2>2, <3>1
    <3> QED BY <3>3, <3>4, <2>3
  <2>6. Rank(units, j) = 0
    BY <2>5, FS_EmptySet DEF Rank, Rivals
  <2> QED BY <2>6
<1>3. BestOf(units, i) \in KindOf(units, i) /\ Rank(units, BestOf(units, i)) = 0
  BY <1>2 DEF BestOf
<1>4. \A j \in KindOf(units, i) : BestOf(units, j) = BestOf(units, i)
  BY RanksRise DEF BestOf
<1> QED BY <1>1, <1>3, <1>4, RanksRise

-----------------------------------------------------------------------------
(* Who is offered before whom is a strict order of the offered.            *)

(* The rotation is a strict order of the relevant records.                 *)
LEMMA BeforeIs ==
  ASSUME NEW units \in Units
  PROVE  /\ \A i \in Relevant(units) : ~Before(units, i, i)
         /\ \A i, j \in Relevant(units) : i = j \/ Before(units, i, j) \/ Before(units, j, i)
         /\ \A i, j, k \in Relevant(units) :
              Before(units, i, j) /\ Before(units, j, k) => Before(units, i, k)
<1> DEFINE B(i) == BestOf(units, i)
           R(i) == Rank(units, i)
<1>1. \A i \in Relevant(units) : R(i) \in Nat /\ B(i) \in DOMAIN units /\ B(i) \in KindOf(units, i)
  <2> TAKE i \in Relevant(units)
  <2>1. B(i) \in KindOf(units, i) /\ KindOf(units, i) \subseteq Relevant(units)
    BY BestIs, RanksRise
  <2> QED BY <2>1, RanksRise
<1>2. \A i, j \in Relevant(units) : R(i) = R(j) /\ B(i) = B(j) => i = j
  <2> SUFFICES ASSUME NEW i \in Relevant(units), NEW j \in Relevant(units), R(i) = R(j), B(i) = B(j)
               PROVE  i = j
    OBVIOUS
  <2>1. B(i) \in KindOf(units, i) /\ B(i) \in KindOf(units, j)
    BY <1>1
  <2>2. j \in KindOf(units, i)
    BY <2>1 DEF KindOf
  <2> QED BY <2>2, BestIs
<1> HIDE DEF B, R
<1>3. \A i, j \in Relevant(units) :
        Before(units, i, j) <=> R(i) < R(j) \/ (R(i) = R(j) /\ Better(units, B(i), B(j)))
  BY DEF Before, B, R
<1>4. \A i \in Relevant(units) : ~Before(units, i, i)
  BY <1>1, <1>3, BetterIs
<1>5. \A i, j \in Relevant(units) : i = j \/ Before(units, i, j) \/ Before(units, j, i)
  <2> TAKE i, j \in Relevant(units)
  <2>1. R(i) < R(j) \/ R(j) < R(i) \/ R(i) = R(j)
    BY <1>1
  <2>2. CASE R(i) = R(j)
    BY <2>2, <1>1, <1>2, <1>3, BetterIs
  <2> QED BY <2>1, <2>2, <1>3
<1>6. ASSUME NEW i \in Relevant(units), NEW j \in Relevant(units), NEW k \in Relevant(units),
             Before(units, i, j), Before(units, j, k)
      PROVE  Before(units, i, k)
  <2>1. R(i) \in Nat /\ R(j) \in Nat /\ R(k) \in Nat
    BY <1>1
  <2>2. R(i) < R(j) \/ (R(i) = R(j) /\ Better(units, B(i), B(j)))
    BY <1>3, <1>6
  <2>3. R(j) < R(k) \/ (R(j) = R(k) /\ Better(units, B(j), B(k)))
    BY <1>3, <1>6
  <2>4. Better(units, B(i), B(j)) /\ Better(units, B(j), B(k)) => Better(units, B(i), B(k))
    BY <1>1, BetterIs
  <2>5. R(i) < R(k) \/ (R(i) = R(k) /\ Better(units, B(i), B(k)))
    BY <2>1, <2>2, <2>3, <2>4
  <2> QED BY <2>5, <1>3
<1> QED BY <1>4, <1>5, <1>6

(* Of two offered records one is earlier, and what is earlier than it is   *)
(* earlier than the other.                                                 *)
LEMMA EarlierIs ==
  ASSUME NEW units \in Units
  PROVE  /\ \A i \in Offered(units) : i \notin Earlier(units, i)
         /\ \A i, j \in Offered(units) : i = j \/ i \in Earlier(units, j) \/ j \in Earlier(units, i)
         /\ \A i \in Offered(units) : Earlier(units, i) \subseteq Offered(units)
         /\ \A i, j \in Offered(units) :
              j \in Earlier(units, i) => Earlier(units, j) \subseteq Earlier(units, i)
<1> DEFINE A == Anchors(units)
           F == Relevant(units)
<1>1. A \subseteq Nat /\ A \cap F = {} /\ Offered(units) = A \cup F
  BY AnchorsAre, DomainIsFinite DEF Offered
<1>2. \A i \in A : Earlier(units, i) = {j \in A : j > i}
  BY DEF Earlier
<1>3. \A i \in F : Earlier(units, i) = A \cup {j \in F : Before(units, j, i)}
  BY <1>1 DEF Earlier
<1> HIDE DEF A, F
<1>4. \A i \in Offered(units) : i \notin Earlier(units, i)
  <2> TAKE i \in Offered(units)
  <2>1. CASE i \in A
    BY <2>1, <1>1, <1>2
  <2>2. CASE i \in F
    BY <2>2, <1>1, <1>3, BeforeIs DEF F
  <2> QED BY <2>1, <2>2, <1>1
<1>5. \A i, j \in Offered(units) : i = j \/ i \in Earlier(units, j) \/ j \in Earlier(units, i)
  <2> TAKE i, j \in Offered(units)
  <2>1. CASE i \in A /\ j \in A
    <3>1. i \in Nat /\ j \in Nat
      BY <2>1, <1>1
    <3> QED BY <2>1, <3>1, <1>2
  <2>2. CASE i \in A /\ j \in F
    BY <2>2, <1>3
  <2>3. CASE i \in F /\ j \in A
    BY <2>3, <1>3
  <2>4. CASE i \in F /\ j \in F
    <3>1. i = j \/ Before(units, i, j) \/ Before(units, j, i)
      BY <2>4, BeforeIs DEF F
    <3> QED BY <2>4, <3>1, <1>3
  <2> QED BY <2>1, <2>2, <2>3, <2>4, <1>1
<1>6. \A i \in Offered(units) : Earlier(units, i) \subseteq Offered(units)
  BY <1>1, <1>2, <1>3
<1>7. ASSUME NEW i \in Offered(units), NEW j \in Earlier(units, i), NEW k \in Earlier(units, j)
      PROVE  k \in Earlier(units, i)
  <2>1. CASE i \in A
    <3>1. j \in A /\ j > i
      BY <2>1, <1>2
    <3>2. k \in A /\ k > j
      BY <3>1, <1>2
    <3>3. i \in Nat /\ j \in Nat /\ k \in Nat
      BY <2>1, <3>1, <3>2, <1>1
    <3>4. k > i
      BY <3>1, <3>2, <3>3
    <3> QED BY <2>1, <3>2, <3>4, <1>2
  <2>2. CASE i \in F /\ j \in A
    BY <2>2, <1>2, <1>3
  <2>3. CASE i \in F /\ j \in F
    <3>1. Before(units, j, i)
      BY <2>3, <1>1, <1>3
    <3>2. k \in A \/ (k \in F /\ Before(units, k, j))
      BY <2>3, <1>3
    <3>3. CASE k \in F /\ Before(units, k, j)
      <4>1. Before(units, k, i)
        BY <3>1, <3>3, <2>3, BeforeIs DEF F
      <4> QED BY <4>1, <3>3, <2>3, <1>3
    <3> QED BY <3>2, <3>3, <2>3, <1>3
  <2> QED BY <2>1, <2>2, <2>3, <1>1, <1>6
<1> QED BY <1>4, <1>5, <1>6, <1>7

Place(units, i) == Cardinality(Earlier(units, i))

(* Places number the offered records in the order of being offered.        *)
LEMMA PlacesAre ==
  ASSUME NEW units \in Units
  PROVE  /\ \A i \in Offered(units) : Place(units, i) \in 0 .. Cardinality(Offered(units))
         /\ \A i \in Offered(units) : \A j \in Earlier(units, i) : Place(units, j) < Place(units, i)
         /\ Cardinality(Offered(units)) \in Nat
<1>1. IsFiniteSet(Offered(units)) /\ Cardinality(Offered(units)) \in Nat
  BY AnchorsAre, DomainIsFinite
<1>2. \A i \in Offered(units) : /\ IsFiniteSet(Earlier(units, i))
                               /\ Place(units, i) <= Cardinality(Offered(units))
                               /\ Place(units, i) \in Nat
  BY <1>1, EarlierIs, FS_Subset, FS_CardinalityType DEF Place
<1>3. ASSUME NEW i \in Offered(units), NEW j \in Earlier(units, i)
      PROVE  Place(units, j) < Place(units, i)
  <2>1. j \in Offered(units) /\ j \notin Earlier(units, j)
    BY EarlierIs
  <2>2. Earlier(units, j) \in SUBSET Earlier(units, i)
    BY <2>1, EarlierIs
  <2>3. Place(units, j) <= Place(units, i)
        /\ (Place(units, i) = Place(units, j) => Earlier(units, i) = Earlier(units, j))
    BY <2>2, <1>2, FS_Subset DEF Place
  <2> QED BY <2>1, <2>3, <1>2
<1> QED BY <1>1, <1>2, <1>3

-----------------------------------------------------------------------------
(* There is a window as the loop of select_context fills it: place by      *)
(* place, as far as any number of places.                                  *)

Filled(units, w) ==
  \A i \in Offered(units) : i \in w <=> Fitting(units, i, w \cap Earlier(units, i))
FilledTo(units, w, n) ==
  /\ w \subseteq {i \in Offered(units) : Place(units, i) < n}
  /\ \A i \in Offered(units) :
       Place(units, i) < n => (i \in w <=> Fitting(units, i, w \cap Earlier(units, i)))

(* A window that is filled to some place can be filled to the next.        *)
LEMMA FillsOn ==
  ASSUME NEW units \in Units, NEW n \in Nat, NEW w, FilledTo(units, w, n)
  PROVE  \E v : FilledTo(units, v, n + 1)
<1> DEFINE v == w \cup {i \in Offered(units) : Place(units, i) = n
                                     /\ Fitting(units, i, w \cap Earlier(units, i))}
<1>1. \A i \in Offered(units) : Place(units, i) \in Nat
  BY PlacesAre
<1>2. \A i \in w : i \in Offered(units) /\ Place(units, i) < n
  BY DEF FilledTo
<1>3. \A i \in Offered(units) : Place(units, i) < n => (i \in v <=> i \in w)
  BY <1>1
<1>4. v \subseteq {i \in Offered(units) : Place(units, i) < n + 1}
  BY <1>1, <1>2
<1>5. ASSUME NEW i \in Offered(units), Place(units, i) < n + 1
      PROVE  v \cap Earlier(units, i) = w \cap Earlier(units, i)
  <2> SUFFICES ASSUME NEW j \in Earlier(units, i) PROVE j \in v <=> j \in w
    OBVIOUS
  <2>1. j \in Offered(units) /\ Place(units, j) < Place(units, i)
    BY EarlierIs, PlacesAre
  <2>2. Place(units, j) < n
    BY <2>1, <1>1, <1>5
  <2> QED BY <2>1, <2>2, <1>3
<1>6. ASSUME NEW i \in Offered(units), Place(units, i) < n + 1
      PROVE  i \in v <=> Fitting(units, i, v \cap Earlier(units, i))
  <2>1. CASE Place(units, i) < n
    <3>1. i \in v <=> i \in w
      BY <2>1, <1>3
    <3>2. i \in w <=> Fitting(units, i, w \cap Earlier(units, i))
      BY <2>1 DEF FilledTo
    <3> QED BY <3>1, <3>2, <1>5, <1>6
  <2>2. CASE Place(units, i) = n
    <3>1. i \notin w
      BY <2>2, <1>2
    <3>2. i \in v <=> Fitting(units, i, w \cap Earlier(units, i))
      BY <2>2, <3>1
    <3> QED BY <3>2, <1>5, <1>6
  <2> QED BY <2>1, <2>2, <1>1, <1>6
<1>7. FilledTo(units, v, n + 1)
  BY <1>4, <1>6 DEF FilledTo
<1> QED BY <1>7

(* So it can be filled to any place: else to a least one not, and that is  *)
(* not 0.                                                                  *)
LEMMA FillsAll ==
  ASSUME NEW units \in Units
  PROVE  \A n \in Nat : \E w : FilledTo(units, w, n)
<1> DEFINE S == {n \in Nat : ~ \E w : FilledTo(units, w, n)}
<1> SUFFICES ASSUME S # {} PROVE FALSE
  OBVIOUS
<1>1. PICK n \in S : \A m \in S : n <= m
  BY LeastNumber
<1>2. CASE n = 0
  <2>1. \A i \in Offered(units) : Place(units, i) \in Nat
    BY PlacesAre
  <2>2. \A i \in Offered(units) : ~(Place(units, i) < 0)
    BY <2>1
  <2>3. FilledTo(units, {}, 0)
    BY <2>2 DEF FilledTo
  <2> QED BY <2>3, <1>1, <1>2
<1>3. CASE n # 0
  <2>1. n \in Nat /\ n - 1 \in Nat /\ ~(n <= n - 1) /\ (n - 1) + 1 = n
    BY <1>1, <1>3
  <2>2. n - 1 \notin S
    BY <2>1, <1>1
  <2>3. PICK w : FilledTo(units, w, n - 1)
    BY <2>1, <2>2
  <2>4. \E v : FilledTo(units, v, (n - 1) + 1)
    BY <2>1, <2>3, FillsOn
  <2> QED BY <2>1, <2>4, <1>1
<1> QED BY <1>2, <1>3

(* The window is filled as the loop fills it; the choice that defines it   *)
(* is of something there is.                                               *)
LEMMA WindowIs ==
  ASSUME NEW units \in Units
  PROVE  Window(units) \subseteq Offered(units) /\ Filled(units, Window(units))
<1> DEFINE n == Cardinality(Offered(units)) + 1
<1>1. n \in Nat /\ \A i \in Offered(units) : Place(units, i) < n
  BY PlacesAre
<1>2. PICK w : FilledTo(units, w, n)
  BY <1>1, FillsAll
<1>3. w \in SUBSET Offered(units) /\ Filled(units, w)
  BY <1>1, <1>2 DEF FilledTo, Filled
<1>4. Window(units) = CHOOSE v \in SUBSET Offered(units) : Filled(units, v)
  BY DEF Window, Filled
<1> QED BY <1>3, <1>4

(* No other set is like it.                                                *)
LEMMA OneWindow ==
  ASSUME NEW units \in Units, NEW w \in SUBSET Offered(units), Filled(units, w)
  PROVE  w = Window(units)
<1> DEFINE v == Window(units)
           D == {Place(units, i) : i \in {j \in Offered(units) : ~(j \in w <=> j \in v)}}
<1>1. v \in SUBSET Offered(units) /\ Filled(units, v)
  BY WindowIs
<1>2. D = {}
  <2> SUFFICES ASSUME D # {} PROVE FALSE
    OBVIOUS
  <2>1. D \in SUBSET Nat
    BY PlacesAre
  <2>2. PICK m \in D : \A n \in D : m <= n
    BY <2>1, LeastNumber
  <2>3. PICK i \in Offered(units) : ~(i \in w <=> i \in v) /\ m = Place(units, i)
    BY <2>2
  <2>4. ASSUME NEW j \in Earlier(units, i) PROVE j \in w <=> j \in v
    <3>1. j \in Offered(units) /\ Place(units, j) < m /\ Place(units, j) \in Nat /\ m \in Nat
      BY <2>3, EarlierIs, PlacesAre
    <3>2. Place(units, j) \notin D
      BY <3>1, <2>2
    <3> QED BY <3>1, <3>2
  <2>5. w \cap Earlier(units, i) = v \cap Earlier(units, i)
    BY <2>4
  <2>6. /\ i \in w <=> Fitting(units, i, w \cap Earlier(units, i))
        /\ i \in v <=> Fitting(units, i, v \cap Earlier(units, i))
    BY <1>1, <2>3 DEF Filled
  <2> QED BY <2>3, <2>5, <2>6
<1>3. \A j \in Offered(units) : j \in w <=> j \in v
  BY <1>2
<1> QED BY <1>1, <1>3

-----------------------------------------------------------------------------
(* What the window promises.                                               *)

(* Multiplication keeps the order of numbers.                              *)
LEMMA TimesGrows ==
  ASSUME NEW a \in Nat, NEW b \in Nat, NEW c \in Nat, a <= b
  PROVE  a * c <= b * c
<1>1. PICK d \in Nat : b = a + d
  <2>1. b - a \in Nat /\ b = a + (b - a)
    OBVIOUS
  <2> QED BY <2>1
<1>2. a * c \in Nat /\ d * c \in Nat /\ (a + d) * c = a * c + d * c
  OBVIOUS
<1> QED BY <1>1, <1>2

(* There is room for all anchors.                                          *)
LEMMA AnchorsFit ==
  ASSUME NEW units \in Units, AnchorUnits * PerUnit <= Budget
  PROVE  Used(units, Anchors(units)) <= Budget
<1>1. Anchors(units) \in SUBSET DOMAIN units /\ Cardinality(Anchors(units)) <= AnchorUnits
  BY AnchorsAre
<1>2. Cardinality(Anchors(units)) \in Nat /\ AnchorUnits \in Nat /\ PerUnit \in Nat /\ Budget \in Nat
  BY <1>1, DomainIsFinite, BudgetAssumption
<1>3. Cardinality(Anchors(units)) * PerUnit <= AnchorUnits * PerUnit
  BY <1>1, <1>2, TimesGrows
<1>4. Used(units, Anchors(units)) <= Cardinality(Anchors(units)) * PerUnit
      /\ Used(units, Anchors(units)) \in Nat
  BY <1>1, CellsAre
<1>5. AnchorUnits * PerUnit \in Nat /\ Cardinality(Anchors(units)) * PerUnit \in Nat
  BY <1>2
<1> QED BY <1>2, <1>3, <1>4, <1>5

(* One of the newest turns is left out only for want of room.              *)
LEMMA TurnsLeftOut ==
  ASSUME NEW units \in Units, NEW i \in Anchors(units) \ Window(units)
  PROVE  Used(units, {j \in Anchors(units) : j >= i}) > Budget
<1> DEFINE taken == Window(units) \cap Earlier(units, i)
           beside == {j \in Anchors(units) : j >= i}
<1>1. i \in Offered(units) /\ i \in DOMAIN units /\ i \in Nat /\ Anchors(units) \subseteq Nat
  BY AnchorsAre, DomainIsFinite DEF Offered
<1>2. ~Fitting(units, i, taken)
  BY <1>1, WindowIs DEF Filled
<1>3. taken \subseteq {j \in Anchors(units) : j > i} /\ i \notin taken
  BY EarlierIs, <1>1 DEF Earlier
<1>4. taken \in SUBSET DOMAIN units /\ beside \in SUBSET DOMAIN units
  BY <1>3, AnchorsAre
<1>5. taken \cup {i} \in SUBSET beside
  <2>1. \A j \in Anchors(units) : j > i => j >= i
    BY <1>1
  <2>2. i >= i
    BY <1>1
  <2> QED BY <1>3, <2>1, <2>2
<1>6. Used(units, taken \cup {i}) = Used(units, taken) + units[i].len
  BY <1>1, <1>3, <1>4, UsedAdds
<1>7. Used(units, taken \cup {i}) <= Used(units, beside)
  BY <1>4, <1>5, UsedGrows
<1>8. Used(units, taken) \in Nat /\ units[i].len \in Nat /\ Budget \in Nat /\ Used(units, beside) \in Nat
  BY <1>1, <1>4, CellsAre, UnitIs, BudgetAssumption
<1>9. ~(Used(units, taken) + units[i].len <= Budget)
  BY <1>2 DEF Fitting
<1> HIDE DEF taken, beside
<1>10. Used(units, beside) > Budget
  BY <1>6, <1>7, <1>8, <1>9
<1> QED BY <1>10 DEF beside

(* With room for all of them, the newest turns are in the window.          *)
LEMMA AnchorsAreIn ==
  ASSUME NEW units \in Units, AnchorUnits * PerUnit <= Budget
  PROVE  Anchors(units) \subseteq Window(units)
<1> SUFFICES ASSUME NEW i \in Anchors(units) \ Window(units) PROVE FALSE
  OBVIOUS
<1> DEFINE beside == {j \in Anchors(units) : j >= i}
<1>1. beside \in SUBSET Anchors(units) /\ Anchors(units) \in SUBSET DOMAIN units
  BY AnchorsAre
<1>2. Used(units, beside) <= Used(units, Anchors(units))
  BY <1>1, UsedGrows
<1>3. Used(units, Anchors(units)) <= Budget
  BY AnchorsFit
<1>4. Used(units, beside) > Budget
  BY TurnsLeftOut
<1>5. Used(units, beside) \in Nat /\ Used(units, Anchors(units)) \in Nat /\ Budget \in Nat
  BY <1>1, CellsAre, BudgetAssumption
<1> HIDE DEF beside
<1> QED BY <1>2, <1>3, <1>4, <1>5

Bests(units) == {i \in Relevant(units) : Rank(units, i) = 0}

(* Before the best of its kind come the anchors and the best of better     *)
(* kinds.                                                                  *)
LEMMA BestsComeFirst ==
  ASSUME NEW units \in Units, NEW i \in Bests(units)
  PROVE  Earlier(units, i) \subseteq Anchors(units) \cup {j \in Bests(units) : Better(units, j, i)}
<1>1. i \in Relevant(units) /\ i \notin Anchors(units) /\ Rank(units, i) = 0 /\ BestOf(units, i) = i
  BY AnchorsAre, BestIs DEF Bests
<1>2. ASSUME NEW j \in Relevant(units), Before(units, j, i)
      PROVE  j \in Bests(units) /\ Better(units, j, i)
  <2>1. Rank(units, j) \in Nat
    BY RanksRise
  <2>2. Rank(units, j) = 0 /\ Better(units, BestOf(units, j), BestOf(units, i))
    BY <2>1, <1>1, <1>2 DEF Before
  <2>3. BestOf(units, j) = j
    BY <2>2, BestIs
  <2> QED BY <2>2, <2>3, <1>1 DEF Bests
<1> QED BY <1>1, <1>2 DEF Earlier

(* The best of a kind is left out only if it does not fit beside these.    *)
LEMMA LeftOutForWantOfRoom ==
  ASSUME NEW units \in Units, NEW i \in Bests(units) \ Window(units)
  PROVE  Used(units, Anchors(units) \cup {j \in Bests(units) : j = i \/ Better(units, j, i)}) > Budget
<1> DEFINE taken == Window(units) \cap Earlier(units, i)
           beside == Anchors(units) \cup {j \in Bests(units) : j = i \/ Better(units, j, i)}
<1>1. i \in Offered(units) /\ i \in DOMAIN units /\ i \in Bests(units)
  BY AnchorsAre DEF Bests, Offered
<1>2. ~Fitting(units, i, taken)
  BY <1>1, WindowIs DEF Filled
<1>3. i \notin taken /\ taken \in SUBSET DOMAIN units
  BY <1>1, EarlierIs, WindowIs, AnchorsAre
<1>4. beside \in SUBSET DOMAIN units
  BY AnchorsAre DEF Bests
<1>5. taken \cup {i} \in SUBSET beside
  BY <1>1, BestsComeFirst
<1>6. Used(units, taken \cup {i}) = Used(units, taken) + units[i].len
  BY <1>1, <1>3, UsedAdds
<1>7. Used(units, taken \cup {i}) <= Used(units, beside)
  BY <1>4, <1>5, UsedGrows
<1>8. Used(units, taken) \in Nat /\ units[i].len \in Nat /\ Budget \in Nat /\ Used(units, beside) \in Nat
  BY <1>1, <1>3, <1>4, CellsAre, UnitIs, BudgetAssumption
<1>9. ~(Used(units, taken) + units[i].len <= Budget)
  BY <1>2 DEF Fitting
<1> HIDE DEF taken, beside
<1>10. Used(units, beside) > Budget
  BY <1>6, <1>7, <1>8, <1>9
<1> QED BY <1>10 DEF beside

(* The last record of the window fits beside the others, or is alone.      *)
LEMMA BudgetIsKept ==
  ASSUME NEW units \in Units
  PROVE  Used(units, Window(units)) <= Budget \/ Cardinality(Window(units)) = 1
<1> DEFINE w == Window(units)
<1>1. w \in SUBSET Offered(units) /\ w \in SUBSET DOMAIN units /\ Filled(units, w)
  BY WindowIs, AnchorsAre
<1>2. CASE w = {}
  <2>1. Cells(units, w) = {}
    BY <1>2 DEF Cells
  <2>2. Used(units, w) = 0
    BY <2>1, <1>1, CellsAre, FS_EmptySet
  <2> QED BY <2>2, BudgetAssumption
<1>3. CASE w # {}
  <2> DEFINE S == {Place(units, j) : j \in w}
  <2>1. S \in SUBSET Nat /\ S # {} /\ Cardinality(Offered(units)) \in Nat
        /\ \A n \in S : n <= Cardinality(Offered(units))
    BY <1>1, <1>3, PlacesAre
  <2>2. PICK m \in S : \A n \in S : n <= m
    BY <2>1, GreatestNumber
  <2>3. PICK i \in w : m = Place(units, i)
    BY <2>2
  <2>4. i \in Offered(units) /\ i \in DOMAIN units
    BY <1>1
  <2>5. ASSUME NEW j \in w, j # i PROVE j \in Earlier(units, i)
    <3>1. j \in Offered(units) /\ Place(units, j) <= Place(units, i)
      BY <1>1, <2>2, <2>3
    <3>2. Place(units, i) \in Nat /\ Place(units, j) \in Nat
      BY <3>1, <2>4, PlacesAre
    <3>3. i \notin Earlier(units, j)
      BY <3>1, <3>2, PlacesAre
    <3> QED BY <3>1, <3>3, <2>4, <2>5, EarlierIs
  <2>6. w \cap Earlier(units, i) = w \ {i}
    BY <2>4, <2>5, EarlierIs
  <2>7. Fitting(units, i, w \ {i})
    BY <1>1, <2>3, <2>4, <2>6 DEF Filled
  <2>8. CASE w \ {i} = {}
    <3>1. w = {i}
      BY <2>3, <2>8
    <3>2. Cardinality({i}) = 1
      BY FS_Singleton
    <3> QED BY <3>1, <3>2
  <2>9. CASE Used(units, w \ {i}) + units[i].len <= Budget
    <3>1. w \ {i} \in SUBSET DOMAIN units /\ i \in DOMAIN units \ (w \ {i})
      BY <1>1, <2>4
    <3>2. Used(units, (w \ {i}) \cup {i}) = Used(units, w \ {i}) + units[i].len
      BY <3>1, UsedAdds
    <3>3. (w \ {i}) \cup {i} = w
      BY <2>3
    <3> QED BY <3>2, <3>3, <2>9
  <2> QED BY <2>7, <2>8, <2>9 DEF Fitting
<1> QED BY <1>2, <1>3

-----------------------------------------------------------------------------
(* What is asked about are records.                                        *)

(* A list of some units is a list of units.                                *)
LEMMA SubsetsAreListed ==
  ASSUME NEW units \in Units, NEW S \in SUBSET DOMAIN units
  PROVE  InOrder(S) \in Seq(DOMAIN units)
<1>1. S \in SUBSET Nat /\ IsFiniteSet(S)
  BY DomainIsFinite
<1>2. InOrder(S) \in Seq(S)
  BY <1>1, InOrderIs
<1> QED BY <1>2

(* Units read from the database are records.                               *)
LEMMA UnitsAreRecords ==
  ASSUME records \in Units, NEW places \in Seq(DOMAIN records)
  PROVE  UnitsAt(places) \in Units
<1>1. Len(places) \in Nat /\ DOMAIN places = 1 .. Len(places)
  OBVIOUS
<1>2. \A n \in DOMAIN places : places[n] \in DOMAIN records /\ records[places[n]] \in Shapes
  BY DEF Units
<1>3. UnitsAt(places) \in [1 .. Len(places) -> Shapes]
  BY <1>1, <1>2 DEF UnitsAt
<1>4. \A n \in Nat : [1 .. n -> Shapes] \subseteq Seq(Shapes)
  OBVIOUS
<1> QED BY <1>1, <1>3, <1>4 DEF Units

(* Whatever the scope, candidates are records.                             *)
LEMMA RecordedAreRecords ==
  ASSUME records \in Units
  PROVE  /\ \A scope \in Scopes : UnitsAt(Recorded(scope)) \in Units
         /\ UnitsAt(Transcript) \in Units
<1> DEFINE Places == Seq(DOMAIN records)
<1>1. \A S \in SUBSET DOMAIN records : InOrder(S) \in Places
  BY SubsetsAreListed
<1>2. \A p, q \in Places : p \o q \in Places
  OBVIOUS
<1>3. /\ \A kind : Of(kind) \in SUBSET DOMAIN records
      /\ \A S \in SUBSET DOMAIN records : \A n :
           Latest(S, n) \in SUBSET DOMAIN records /\ Oldest(S, n) \in SUBSET DOMAIN records
      /\ \A i : MadeIn(i) \in SUBSET DOMAIN records
  BY DEF Of, Latest, Oldest, MadeIn
<1>4. \A S : UNION {MadeIn(i) : i \in S} \in SUBSET DOMAIN records
  BY <1>3
<1>5. \A made : EventsOf(made) \in Places
  <2> TAKE made
  <2>1. {i \in Of("event") : MadeIn(i) \subseteq made /\ MadeIn(i) # {}} \in SUBSET DOMAIN records
    BY <1>3
  <2> QED BY <2>1, <1>1, <1>3 DEF EventsOf
<1> HIDE DEF Places
<1>6. SessionRecords \in Places
  BY <1>1, <1>2, <1>3, <1>5 DEF SessionRecords, RunUnits, ArtifactUnits
<1>7. ProjectRecords \in Places
  BY <1>1, <1>2, <1>3, <1>6 DEF ProjectRecords
<1>8. DocumentRecords \in Places
  BY <1>1, <1>2, <1>3, <1>4, <1>5 DEF DocumentRecords, RunUnits, ArtifactUnits, DocumentUnits
<1>9. \A scope \in Scopes : Recorded(scope) \in Places
  <2> TAKE scope \in Scopes
  <2>1. CASE scope = "session"
    BY <2>1, <1>6 DEF Recorded
  <2>2. CASE scope = "project"
    BY <2>2, <1>7 DEF Recorded
  <2>3. CASE scope = "document"
    BY <2>3, <1>8 DEF Recorded
  <2> QED BY <2>1, <2>2, <2>3, ScopesAssumption
<1>10. Transcript \in Places
  BY <1>1, <1>3 DEF Transcript
<1> QED BY <1>9, <1>10, UnitsAreRecords DEF Places

-----------------------------------------------------------------------------
(* The invariant: the model gets the window of the records asked about,    *)
(* which is not empty, and what was answered cites what was shown.         *)

Reading == [at : {"transcript", "select"}, units : Units]
WithModel == {a \in [at : {"model"}, units : Units, window : Seq(Nat)] :
                a.window = InOrder(Window(a.units)) /\ Window(a.units) # {}}
Answered == {a \in [at : {"answered"}, units : Units, window : Seq(Nat), refused : BOOLEAN,
                    cited : SUBSET Nat] :
               a.cited \subseteq DOMAIN a.window /\ (a.refused <=> a.cited = {})}

ConverseIInv == records \in Units /\ ask \in {NoQuestion} \cup Reading \cup WithModel \cup Answered

(* The model gets the window, all of it.                                   *)
LEMMA WindowIsListed ==
  ASSUME NEW units \in Units
  PROVE  LET listed == InOrder(Window(units)) IN
         /\ listed \in Seq(Nat) /\ {listed[n] : n \in DOMAIN listed} = Window(units)
         /\ Window(units) # {} => DOMAIN listed # {}
         /\ DOMAIN listed \subseteq Nat
<1> DEFINE w == Window(units)
<1>1. w \in SUBSET DOMAIN units
  BY WindowIs, AnchorsAre
<1>2. w \in SUBSET Nat /\ IsFiniteSet(w)
  BY <1>1, DomainIsFinite
<1> HIDE DEF w
<1>3. InOrder(w) \in Seq(w) /\ {InOrder(w)[n] : n \in DOMAIN InOrder(w)} = w
  BY <1>2, InOrderIs
<1>4. InOrder(w) \in Seq(Nat)
  BY <1>2, <1>3
<1>5. w # {} => DOMAIN InOrder(w) # {}
  BY <1>3
<1>6. DOMAIN InOrder(w) \subseteq Nat
  BY <1>4
<1> QED BY <1>3, <1>4, <1>5, <1>6 DEF w

(* Each step of the route keeps the invariant.                             *)
LEMMA ConverseStepKeeps == ConverseIInv /\ [ConverseNext]_converseVars => ConverseIInv'
<1> SUFFICES ASSUME ConverseIInv, [ConverseNext]_converseVars PROVE ConverseIInv'
  OBVIOUS
<1>0. records \in Units /\ ask \in {NoQuestion} \cup Reading \cup WithModel \cup Answered
  BY DEF ConverseIInv
<1> DEFINE Well(a) == a \in {NoQuestion} \cup Reading \cup WithModel \cup Answered
<1>1. CASE RecordsSome
  <2>1. PICK shape \in Shapes : records' = Append(records, shape) /\ ask' = ask
    BY <1>1 DEF RecordsSome, Records
  <2>2. records' \in Units
    BY <2>1, <1>0 DEF Units
  <2> QED BY <2>1, <2>2, <1>0 DEF ConverseIInv
<1>2. ASSUME records' = records, Well(ask') PROVE ConverseIInv'
  BY <1>2, <1>0 DEF ConverseIInv
<1>3. CASE TranscriptRead
  <2>1. ask.at = "transcript" /\ records' = records
        /\ ask' = [at |-> "select", units |-> ask.units \o UnitsAt(Transcript)]
    BY <1>3 DEF TranscriptRead
  <2>2. ask.units \in Units
    BY <2>1, <1>0 DEF NoQuestion, Reading, WithModel, Answered
  <2>3. ask.units \o UnitsAt(Transcript) \in Units
    BY <2>2, <1>0, RecordedAreRecords DEF Units
  <2>4. ask' \in Reading
    BY <2>1, <2>3 DEF Reading
  <2> QED BY <2>1, <2>4, <1>2
<1>4. CASE TranscriptFails \/ ModelFails \/ Hears
  BY <1>4, <1>2 DEF TranscriptFails, ModelFails, Hears
<1>5. ASSUME NEW scope \in Scopes, Asked(scope) PROVE ConverseIInv'
  <2>1. UnitsAt(Recorded(scope)) \in Units
    BY <1>0, RecordedAreRecords
  <2>2. ask' \in Reading /\ records' = records
    BY <1>5, <2>1 DEF Asked, Reading
  <2> QED BY <2>2, <1>2
<1>6. CASE Selects
  <2>1. ask.at = "select" /\ records' = records
        /\ ask' = IF Window(ask.units) = {}
                  THEN [at |-> "answered", units |-> ask.units, window |-> <<>>,
                        refused |-> TRUE, cited |-> {}]
                  ELSE [at |-> "model", units |-> ask.units, window |-> InOrder(Window(ask.units))]
    BY <1>6 DEF Selects
  <2>2. ask.units \in Units
    BY <2>1, <1>0 DEF NoQuestion, Reading, WithModel, Answered
  <2>3. CASE Window(ask.units) = {}
    <3>1. ask' \in Answered
      BY <2>1, <2>2, <2>3 DEF Answered
    <3> QED BY <2>1, <3>1, <1>2
  <2>4. CASE Window(ask.units) # {}
    <3>1. InOrder(Window(ask.units)) \in Seq(Nat)
      BY <2>2, WindowIsListed
    <3>2. ask' \in WithModel
      BY <2>1, <2>2, <2>4, <3>1 DEF WithModel
    <3> QED BY <2>1, <3>2, <1>2
  <2> QED BY <2>3, <2>4
<1>7. ASSUME NEW reply \in Replies, Answers(reply) PROVE ConverseIInv'
  <2>1. ask.at = "model" /\ records' = records
        /\ ask' = [at |-> "answered", units |-> ask.units, window |-> ask.window,
                   refused |-> "NOANSWER" \in reply.leads, cited |-> Cites(ask.window, reply)]
    BY <1>7 DEF Answers
  <2>2. ask \in WithModel
    BY <2>1, <1>0 DEF NoQuestion, Reading, Answered
  <2>3. ask.units \in Units /\ ask.window \in Seq(Nat) /\ DOMAIN ask.window # {}
        /\ DOMAIN ask.window \subseteq Nat
    BY <2>2, WindowIsListed DEF WithModel
  <2>4. Cites(ask.window, reply) \subseteq DOMAIN ask.window
        /\ ("NOANSWER" \in reply.leads <=> Cites(ask.window, reply) = {})
    BY <2>3 DEF Cites
  <2>5. ask' \in Answered
    <3> DEFINE refused == "NOANSWER" \in reply.leads
               cited == Cites(ask.window, reply)
    <3>1. refused \in BOOLEAN /\ cited \in SUBSET Nat
      BY <2>3, <2>4
    <3>2. cited \subseteq DOMAIN ask.window /\ (refused <=> cited = {})
      BY <2>4
    <3>3. ask' = [at |-> "answered", units |-> ask.units, window |-> ask.window,
                  refused |-> refused, cited |-> cited]
      BY <2>1
    <3> HIDE DEF refused, cited
    <3> QED BY <3>1, <3>2, <3>3, <2>3 DEF Answered
  <2> QED BY <2>1, <2>5, <1>2
<1>8. CASE UNCHANGED converseVars
  BY <1>8, <1>0, <1>2 DEF converseVars
<1> QED BY <1>1, <1>3, <1>4, <1>5, <1>6, <1>7, <1>8 DEF ConverseNext

(* The invariant and the lemmas on the window give the property.           *)
LEMMA InvIsGrounded == ConverseIInv => AnswersAreGrounded
<1> SUFFICES ASSUME ConverseIInv PROVE AnswersAreGrounded
  OBVIOUS
<1>0. ask \in {NoQuestion} \cup Reading \cup WithModel \cup Answered
  BY DEF ConverseIInv
<1>1. ASSUME ask.at = "model" PROVE WindowIsFair
  <2>1. ask \in WithModel
    BY <1>0, <1>1 DEF NoQuestion, Reading, Answered
  <2>2. ask.units \in Units /\ ask.window = InOrder(Window(ask.units))
    BY <2>1 DEF WithModel
  <2>3. Shown = Window(ask.units)
    BY <2>2, WindowIsListed DEF Shown
  <2> DEFINE units == ask.units
  <2>4. \A i \in Anchors(units) \ Shown : Used(units, {j \in Anchors(units) : j >= i}) > Budget
    BY <2>2, <2>3, TurnsLeftOut
  <2>5. \A i \in Bests(units) \ Shown :
          Used(units, Anchors(units) \cup {j \in Bests(units) : j = i \/ Better(units, j, i)}) > Budget
    BY <2>2, <2>3, LeftOutForWantOfRoom
  <2>6. Used(units, Shown) <= Budget \/ Cardinality(Shown) = 1
    BY <2>2, <2>3, BudgetIsKept
  <2> QED BY <2>4, <2>5, <2>6 DEF WindowIsFair, Bests
<1>2. ASSUME ask.at = "answered"
      PROVE  ask.cited \subseteq DOMAIN ask.window /\ (ask.refused <=> ask.cited = {})
  BY <1>0, <1>2 DEF NoQuestion, Reading, WithModel, Answered
<1>3. WindowIsFair
  BY <1>1 DEF WindowIsFair
<1> QED BY <1>2, <1>3 DEF AnswersAreGrounded

(* select_context, the route and citations_for: for any records, however   *)
(* they come in while a question is answered, the window leaves out one of *)
(* the newest turns, or the best of a kind, only for want of room, keeps   *)
(* its budget unless it is one record, and an answer that is no refusal    *)
(* cites what was in it.                                                   *)
THEOREM AnswersStayGrounded == ConverseSpec => []AnswersAreGrounded
<1>1. ConverseInit => ConverseIInv
  BY DEF ConverseInit, ConverseIInv, Units
<1> QED BY <1>1, ConverseStepKeeps, InvIsGrounded, PTL DEF ConverseSpec

(* select_context: the newest turns are in what the model is shown if the  *)
(* budget has room for that many of any length, as with the defaults (3    *)
(* turns of at most a quarter of the budget each).                         *)
THEOREM NewestTurnsAreShown ==
  ASSUME AnchorUnits * PerUnit <= Budget
  PROVE  ConverseSpec => [](ask.at = "model" => Anchors(ask.units) \subseteq Shown)
<1>1. ConverseInit => ConverseIInv
  BY DEF ConverseInit, ConverseIInv, Units
<1>2. ConverseIInv => (ask.at = "model" => Anchors(ask.units) \subseteq Shown)
  <2> SUFFICES ASSUME ConverseIInv, ask.at = "model" PROVE Anchors(ask.units) \subseteq Shown
    OBVIOUS
  <2>1. ask \in WithModel
    BY DEF ConverseIInv, NoQuestion, Reading, Answered
  <2>2. ask.units \in Units /\ ask.window = InOrder(Window(ask.units))
    BY <2>1 DEF WithModel
  <2>3. Shown = Window(ask.units)
    BY <2>2, WindowIsListed DEF Shown
  <2> QED BY <2>2, <2>3, AnchorsAreIn
<1> QED BY <1>1, <1>2, ConverseStepKeeps, PTL DEF ConverseSpec
=============================================================================
