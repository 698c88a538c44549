------------------------------- MODULE Reasoning -------------------------------
(***************************************************************************)
(* The reasoning of one session's assistant rows.  ChatStore               *)
(* (gateway/domain/chat_store.py) holds what streams until the step it     *)
(* belongs to ends, writes it onto that step's row, and keeps a second     *)
(* copy in reasoning_archive; reasoning_reconcile.py completes the rows    *)
(* from the transcript of Hermes, after each turn and whenever a           *)
(* transcript is loaded.                                                   *)
(*                                                                         *)
(* A reasoning text is the set of its chunks, in the order of Hermes; it   *)
(* is longer when it has more.  A reconnect loses frames, so what the      *)
(* gateway holds of a step may lack its start, its end or a part between.  *)
(***************************************************************************)
EXTENDS Integers, FiniteSets, Sequences, SequencesExt

CONSTANTS
  Turns,        (* the turns (runs) of the session, from 1                 *)
  Texts,        (* what an assistant row may say                           *)
  MaxSteps,     (* bound: model steps of a turn                            *)
  MaxChunks,    (* bound: chunks of reasoning of one step                  *)
  Anchor,       (* _MIN_ANCHOR_CHARS, in chunks                            *)
  MaxTroubles   (* bound: archive writes that fail, and gateway crashes    *)

ASSUME TurnsAssumption == Turns = 1..Cardinality(Turns)
ASSUME ReasoningBounds ==
  /\ MaxSteps \in Nat /\ MaxChunks \in Nat /\ MaxTroubles \in Nat
  /\ Anchor \in Nat \ {0}

NoText == "no text"
Nothing == {}         \* no reasoning
Idle == <<"idle">>    \* no transcript was asked for, or a turn is not there

VARIABLES
  step,       \* Hermes: the step each turn is in, from 1; 0 before and after
  thought,    \* Hermes: the chunks of the current step of each turn
  said,       \* Hermes: the finished steps of each turn, text and reasoning
  transcript,        \* Hermes: the transcript, the steps of finished turns
  held,       \* _reasoning: the turns with a buffer, oldest first
  buffer,     \* _reasoning: the chunks of each
  spent,      \* _spent: what the turn has on rows already
  cursor,     \* _archive: what the archive row of each buffer says so far
  chat,       \* chat_messages: the assistant rows
  archive,    \* reasoning_archive: the source of each row and its text
  sync,       \* PostTurnReasoningSync._tasks: idle, waiting, or what it read
  load,       \* a transcript load of a client: idle, or what it read
  streamed,   \* observed: the chunks that arrived as reasoning.delta
  gone,       \* observed: chunks that only a buffer had when it was lost
  unsure,     \* observed: turns with a dropped buffer or an unheard step end
  troubles

agent == <<step, thought, said, transcript>>
memory == <<held, buffer, spent, cursor>>
tables == <<chat, archive>>
readers == <<sync, load>>
notes == <<streamed, gone, unsure, troubles>>
reasoningVars == <<agent, memory, tables, readers, notes>>

ReasoningInit ==
  /\ step = [t \in Turns |-> 0]
  /\ thought = [t \in Turns |-> Nothing]
  /\ said = [t \in Turns |-> <<>>]
  /\ transcript = <<>>
  /\ held = <<>>
  /\ buffer = [t \in Turns |-> Nothing]
  /\ spent = [t \in Turns |-> {}]
  /\ cursor = [t \in Turns |-> Nothing]
  /\ chat = <<>> /\ archive = {}
  /\ sync = Idle /\ load = Idle
  /\ streamed = {} /\ gone = {} /\ unsure = {} /\ troubles = 0

Chunk(t, n) == <<t, step[t], n>>
NewThought(t) == Chunk(t, Cardinality(thought[t]) + 1)

OnRows == UNION {chat[i].reasoning : i \in DOMAIN chat}
Archived == UNION {a.text : a \in archive}
Entry(source, text) == [source |-> source, text |-> text]

-----------------------------------------------------------------------------
(* Holding and archiving (_hold_reasoning, _flush_archive).                *)

(* One write of a turn's streamed text to its archive row, a new one when  *)
(* there is none yet.                                                      *)
Archiving(t, text) == (archive \ {Entry(t, cursor[t])}) \cup {Entry(t, text)}

StepsBegin(t) ==
  /\ step[t] = 0 /\ said[t] = <<>>
  /\ t > 1 => step[t - 1] = 0 /\ said[t - 1] # <<>>
  /\ step' = [step EXCEPT ![t] = 1]
  /\ UNCHANGED <<thought, said, transcript, memory, tables, readers, notes>>

(* Hermes thinks without streaming it, or the delta is lost on a reconnect. *)
ThinksSilently(t) ==
  /\ step[t] # 0
  /\ Cardinality(thought[t]) < MaxChunks
  /\ thought' = [thought EXCEPT ![t] = @ \cup {NewThought(t)}]
  /\ UNCHANGED <<step, said, transcript, memory, tables, readers, notes>>

(* A delta, held; the archive is brought up to date, or is not yet due, or *)
(* cannot be.                                                              *)
Delta(t, how) ==
  /\ step[t] # 0
  /\ Cardinality(thought[t]) < MaxChunks
  /\ thought' = [thought EXCEPT ![t] = @ \cup {NewThought(t)}]
  /\ streamed' = streamed \cup {NewThought(t)}
  /\ held' = IF t \in Range(held) THEN held ELSE Append(held, t)
  /\ buffer' = [buffer EXCEPT ![t] = @ \cup {NewThought(t)}]
  /\ CASE how = "written" -> /\ archive' = Archiving(t, buffer'[t])
                             /\ cursor' = [cursor EXCEPT ![t] = buffer'[t]]
                             /\ UNCHANGED troubles
       [] how = "later"   -> cursor[t] # Nothing /\ UNCHANGED <<archive, cursor, troubles>>
       [] how = "failed"  -> /\ troubles < MaxTroubles /\ troubles' = troubles + 1
                             /\ UNCHANGED <<archive, cursor>>
  /\ UNCHANGED <<step, said, transcript, spent, chat, readers, gone, unsure>>

(* Seeded fault: an evicted buffer is not flushed.                         *)
EvictedUnflushed(t) == archive

(* The forced flush of an evicted buffer.                                  *)
Evicted(t) == IF buffer[t] = Nothing THEN archive ELSE Archiving(t, buffer[t])

(* A delta of another session finds _MAX_REASONING_BUFFERS buffers, and    *)
(* the oldest is one of this session: it is flushed and forgotten, whether *)
(* its turn was abandoned or still runs.                                   *)
Evict(ok) ==
  LET t == Head(held)
  IN /\ held # <<>>
     /\ held' = Tail(held)
     /\ buffer' = [buffer EXCEPT ![t] = Nothing]
     /\ spent' = [spent EXCEPT ![t] = {}]
     /\ cursor' = [cursor EXCEPT ![t] = Nothing]
     /\ unsure' = unsure \cup {t}
     /\ IF ok THEN archive' = Evicted(t) /\ UNCHANGED <<gone, troubles>>
        ELSE /\ troubles < MaxTroubles /\ troubles' = troubles + 1
             /\ gone' = gone \cup (buffer[t] \ Archived)
             /\ UNCHANGED archive
     /\ UNCHANGED <<agent, chat, readers, streamed>>

(* A turn is abandoned: Hermes ends it without a completion the gateway    *)
(* sees.                                                                   *)
Abandoned(t) ==
  /\ step[t] # 0
  /\ said' = [said EXCEPT ![t] = Append(@, [text |-> NoText, body |-> thought[t]])]
  /\ step' = [step EXCEPT ![t] = 0]
  /\ thought' = [thought EXCEPT ![t] = Nothing]
  /\ UNCHANGED <<transcript, memory, tables, readers, notes>>

-----------------------------------------------------------------------------
(* The end of a step.                                                      *)

(* _spend: the buffer goes, its archive row is sealed.                     *)
Spend(t, onRow, ok) ==
  /\ \/ t \notin Range(held) /\ held' = held
     \/ \E i \in DOMAIN held : held[i] = t /\ held' = RemoveAt(held, i)
  /\ buffer' = [buffer EXCEPT ![t] = Nothing]
  /\ cursor' = [cursor EXCEPT ![t] = Nothing]
  /\ IF buffer[t] = Nothing THEN ok /\ UNCHANGED <<archive, gone, troubles>>
     ELSE IF ok THEN archive' = Archiving(t, buffer[t]) /\ UNCHANGED <<gone, troubles>>
     ELSE /\ troubles < MaxTroubles /\ troubles' = troubles + 1
          /\ gone' = gone \cup (buffer[t] \ (onRow \cup Archived))
          /\ UNCHANGED archive

StepEnds(t, text) ==
  /\ said' = [said EXCEPT ![t] = Append(@, [text |-> text, body |-> thought[t]])]
  /\ thought' = [thought EXCEPT ![t] = Nothing]

Spending(t) == IF buffer[t] = Nothing THEN spent
               ELSE [spent EXCEPT ![t] = @ \cup {buffer[t]}]

(* message.interim: a row with the text and what is held.                  *)
Interim(t, text, ok) ==
  /\ step[t] \in 1..(MaxSteps - 1)
  /\ StepEnds(t, text)
  /\ step' = [step EXCEPT ![t] = @ + 1]
  /\ chat' = Append(chat, [text |-> text, reasoning |-> buffer[t]])
  /\ Spend(t, buffer[t], ok)
  /\ spent' = Spending(t)
  /\ UNCHANGED <<transcript, readers, streamed, unsure>>

(* tool.started after no text: a row of its own when something is held.    *)
ToolStarted(t, ok) ==
  /\ step[t] \in 1..(MaxSteps - 1)
  /\ StepEnds(t, NoText)
  /\ step' = [step EXCEPT ![t] = @ + 1]
  /\ chat' = IF buffer[t] = Nothing THEN chat
             ELSE Append(chat, [text |-> NoText, reasoning |-> buffer[t]])
  /\ Spend(t, buffer[t], ok)
  /\ spent' = Spending(t)
  /\ UNCHANGED <<transcript, readers, streamed, unsure>>

(* What message.completed claims: nothing, or the most recent reasoning of *)
(* the turn.                                                               *)
Claims(t) ==
  LET bodies == Append([i \in DOMAIN said[t] |-> said[t][i].body], thought[t])
      some == {i \in DOMAIN bodies : bodies[i] # Nothing}
  IN {Nothing} \cup {bodies[i] : i \in {j \in some : \A k \in some : k <= j}}

(* Seeded fault: what is on an earlier row is written again.               *)
FinalReasoningRepeats(live, claimed, before) ==
  IF claimed = Nothing \/ claimed \subseteq live THEN live ELSE claimed

(* final_reasoning.                                                        *)
FinalReasoning(live, claimed, before) ==
  IF claimed = Nothing \/ (live # Nothing /\ claimed \subseteq live) THEN live
  ELSE IF live = Nothing /\ claimed \in before THEN Nothing
  ELSE claimed

(* schedule: folded into a sync that is waiting or under way.              *)
Scheduled == IF sync = Idle THEN <<"waiting">> ELSE sync

(* message.completed.  A claim that the row or an earlier row does not     *)
(* hold already is archived too, without a failure modelled.               *)
Completed(t, text, claimed, ok) ==
  LET shown == FinalReasoning(buffer[t], claimed, spent[t])
  IN /\ step[t] # 0
     /\ StepEnds(t, text)
     /\ step' = [step EXCEPT ![t] = 0]
     /\ transcript' = transcript \o said'[t]
     /\ chat' = Append(chat, [text |-> text, reasoning |-> shown])
     /\ Spend(t, shown, ok)
     /\ spent' = [spent EXCEPT ![t] = {}]
     /\ sync' = Scheduled
     /\ UNCHANGED <<load, streamed, unsure>>

(* The frame that ends a step, or the turn (over), is lost on a reconnect: *)
(* Hermes goes on, the gateway keeps what it holds.                        *)
Unheard(t, text, over) ==
  /\ step[t] # 0
  /\ StepEnds(t, text)
  /\ IF over THEN step' = [step EXCEPT ![t] = 0] /\ transcript' = transcript \o said'[t]
     ELSE /\ step[t] < MaxSteps
          /\ step' = [step EXCEPT ![t] = @ + 1]
          /\ UNCHANGED transcript
  /\ unsure' = unsure \cup {t}
  /\ UNCHANGED <<memory, tables, readers, streamed, gone, troubles>>

-----------------------------------------------------------------------------
(* Reconciling with the transcript of Hermes (reasoning_reconcile.py).     *)

Found(messages) == {i \in DOMAIN messages : messages[i].body # Nothing}

HowMany(seq, text) == Cardinality({i \in DOMAIN seq : seq[i].text = text})

(* Whether a text contains another: as a string does, with no gap.         *)
Within(inner, outer) ==
  /\ inner \subseteq outer
  /\ \A a, b \in inner : \A c \in outer : a[3] < c[3] /\ c[3] < b[3] => c \in inner

(* _match: the steps a row's reasoning may have come from, or none when    *)
(* that is not certain.                                                    *)
Matches(row, messages, used) ==
  LET same == {i \in Found(messages) \ used :
                 messages[i].text = row.text /\ Within(row.reasoning, messages[i].body)}
      certain == IF row.text # NoText
                 THEN \/ row.reasoning # Nothing
                      \/ HowMany(messages, row.text) = 1 /\ HowMany(chat, row.text) = 1
                 ELSE Cardinality(row.reasoning) >= Anchor /\ Cardinality(same) = 1
  IN IF certain THEN same ELSE {}

(* _upgrade: rows in order; each takes the first step that matches, which  *)
(* no later row can take, and its body when that is longer.                *)
First(match) == {i \in match : \A k \in match : i <= k}

Upgraded(messages) ==
  LET used[i \in 0..Len(chat)] ==
        IF i = 0 THEN {}
        ELSE used[i - 1] \cup First(Matches(chat[i], messages, used[i - 1]))
      Upgrade(row, match) ==
        IF \E i \in match : Cardinality(messages[i].body) > Cardinality(row.reasoning)
        THEN [text |-> row.text, reasoning |-> UNION {messages[i].body : i \in match}]
        ELSE row
  IN [i \in 1..Len(chat) |->
        Upgrade(chat[i], First(Matches(chat[i], messages, used[i - 1])))]

(* _archive: every body of the transcript once, by Hermes row id.          *)
ArchivedToo(messages) == archive \cup {Entry(-i, messages[i].body) : i \in Found(messages)}

Reconcile(messages) == chat' = Upgraded(messages) /\ archive' = ArchivedToo(messages)

SyncReads ==
  /\ sync = <<"waiting">>
  /\ sync' = <<"read", transcript>>
  /\ UNCHANGED <<agent, memory, tables, load, notes>>

SyncReconciles ==
  /\ Len(sync) = 2
  /\ Reconcile(sync[2])
  /\ sync' = Idle
  /\ UNCHANGED <<agent, memory, load, notes>>

(* The transcript cannot be read: left to the next load.                   *)
SyncFails ==
  /\ sync = <<"waiting">>
  /\ sync' = Idle
  /\ UNCHANGED <<agent, memory, tables, load, notes>>

LoadReads ==
  /\ load = Idle
  /\ transcript # <<>>
  /\ load' = <<"read", transcript>>
  /\ UNCHANGED <<agent, memory, tables, sync, notes>>

LoadReconciles ==
  /\ load # Idle
  /\ Reconcile(load[2])
  /\ load' = Idle
  /\ UNCHANGED <<agent, memory, sync, notes>>

(* The buffers and the readers are the process's own.                      *)
Crash ==
  /\ troubles < MaxTroubles
  /\ troubles' = troubles + 1
  /\ gone' = gone \cup ((UNION {buffer[t] : t \in Turns}) \ Archived)
  /\ unsure' = unsure \cup {t \in Turns : step[t] # 0}
  /\ held' = <<>>
  /\ buffer' = [t \in Turns |-> Nothing]
  /\ spent' = [t \in Turns |-> {}]
  /\ cursor' = [t \in Turns |-> Nothing]
  /\ sync' = Idle /\ load' = Idle
  /\ UNCHANGED <<agent, tables, streamed>>

ReasoningNext ==
  \/ \E t \in Turns :
       \/ \E text \in Texts \cup {NoText}, over \in BOOLEAN : Unheard(t, text, over)
       \/ StepsBegin(t) \/ ThinksSilently(t) \/ Abandoned(t)
       \/ \E how \in {"written", "later", "failed"} : Delta(t, how)
       \/ \E ok \in BOOLEAN :
            \/ ToolStarted(t, ok)
            \/ \E text \in Texts :
                 \/ Interim(t, text, ok)
                 \/ \E claimed \in Claims(t) : Completed(t, text, claimed, ok)
  \/ \E ok \in BOOLEAN : Evict(ok)
  \/ SyncReads \/ SyncReconciles \/ SyncFails \/ LoadReads \/ LoadReconciles
  \/ Crash

ReasoningSpec == ReasoningInit /\ [][ReasoningNext]_reasoningVars

-----------------------------------------------------------------------------
(* Reasoning that streamed is somewhere: in a buffer, on a row or in the   *)
(* archive, through evictions, sealed steps, choices of final_reasoning    *)
(* and rows rewritten from Hermes; only a crash, or an archive write that  *)
(* fails when the buffer goes, loses any.                                  *)
StreamedIsKept ==
  streamed \subseteq (UNION {buffer[t] : t \in Turns}) \cup OnRows \cup Archived \cup gone

(* Nothing of the reasoning a chunk belongs to was silent or lost.         *)
StreamedWhole(c) == \A t \in Turns :
  /\ c \in thought[t] => thought[t] \subseteq streamed
  /\ \A k \in DOMAIN said[t] : c \in said[t][k].body => said[t][k].body \subseteq streamed

(* A chunk of a step that streamed whole is on one row at most, while the  *)
(* gateway hears every step of the turn end and no buffer of the turn is   *)
(* dropped: final_reasoning knows the step again by its whole text.        *)
ShownOnce ==
  \A c \in streamed :
    c[1] \notin unsure /\ StreamedWhole(c)
      => Cardinality({i \in DOMAIN chat : c \in chat[i].reasoning}) <= 1

(* What the docstring of final_reasoning says of every turn: the earlier   *)
(* step's reasoning "already has a row, and repeating it would show it     *)
(* twice".  Broken when a reconnect took a part of the step's stream.      *)
NeverShownTwice ==
  \A c \in streamed :
    c[1] \notin unsure => Cardinality({i \in DOMAIN chat : c \in chat[i].reasoning}) <= 1

=============================================================================
