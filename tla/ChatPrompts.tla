------------------------------ MODULE ChatPrompts ------------------------------
(***************************************************************************)
(* The user rows of the chat history of one session                        *)
(* (gateway/domain/chat_store.py), and how they find the run their prompt  *)
(* started: the send route writes a row before Hermes has the prompt       *)
(* (gateway/api/sessions.py); the first frame of a run links the newest    *)
(* waiting row to it, or, when none waits, a task fetches the prompt of    *)
(* another client (gateway/domain/foreign_prompt_capture.py); at startup   *)
(* rows without a run are placed by time (gateway/domain/turn_backfill.py).*)
(*                                                                         *)
(* Instants are counted in rows: the row with seq n is written between the *)
(* instants n and n + 1, and a run starts and ends at an instant.          *)
(***************************************************************************)
EXTENDS Integers, FiniteSets, Sequences

CONSTANTS
  AppPrompts,       (* prompts sent through the gateway, each once         *)
  ForeignPrompts,   (* prompts of other clients of Hermes, each once       *)
  MaxSummaries,     (* bound: compactions of the Hermes transcript         *)
  MaxStops          (* bound: restarts of the gateway                      *)

UserPrompts == AppPrompts \cup ForeignPrompts
Summary == "summary"   \* is_summary_text of the row
Nobody == "nobody"     \* no prompt

ASSUME ChatAssumption ==
  AppPrompts \cap ForeignPrompts = {} /\ Summary \notin UserPrompts /\ Nobody \notin UserPrompts
ASSUME PromptBounds == MaxSummaries \in Nat /\ MaxStops \in Nat

Failed == -1           \* the resume of a capture raised
Unread == -2           \* the capture has read nothing yet

VARIABLES
  queue,      \* Hermes: accepted prompts that have no turn yet
  active,     \* Hermes: the prompt whose turn runs
  log,        \* Hermes: the user rows of the transcript, by row id
  frames,     \* inbox: the frames that open and close runs, not yet handled
  rows,       \* chat_messages: the user rows
  lastSeq,    \* the highest seq given so far (the instant)
  runs,       \* runs: in the order they were opened
  asked,      \* the send of each app prompt
  captures,   \* ForeignPromptCapture._tasks: what each task has got so far
  watching,   \* whether the session is watched
  alone,      \* observed: no prompt was sent while another was unfinished
  discarded,  \* observed: prompts whose send failed
  missed,     \* observed: runs whose capture failed or was cut off
  stops

hermes == <<queue, active, log, frames>>
history == <<rows, lastSeq, runs>>
observed == <<alone, discarded, missed, stops>>
chatVars == <<hermes, history, asked, captures, watching, observed>>

PromptInit ==
  /\ queue = <<>> /\ active = Nobody /\ log = <<>> /\ frames = <<>>
  /\ rows = {} /\ lastSeq = 0 /\ runs = <<>>
  /\ asked = [p \in AppPrompts |-> "no"]
  /\ captures = {}
  /\ watching = FALSE
  /\ alone = TRUE /\ discarded = {} /\ missed = {} /\ stops = 0

Unlinked == {r \in rows : r.run = 0}
Newest(S) == CHOOSE r \in S : \A q \in S : q.seq <= r.seq

(* Nothing is under way: what the next prompt finds when its client waited *)
(* for the previous one.                                                   *)
Settled ==
  /\ queue = <<>> /\ active = Nobody /\ frames = <<>>
  /\ captures = {}
  /\ \A p \in AppPrompts : asked[p] \notin {"written", "accepted"}

-----------------------------------------------------------------------------
(* Hermes.                                                                 *)

Frame(kind) == [kind |-> kind, prompt |-> active, at |-> lastSeq]

(* A turn begins with the first prompt in the queue; its row is in the     *)
(* transcript from then on.                                                *)
TurnBegins ==
  /\ active = Nobody /\ queue # <<>>
  /\ active' = Head(queue)
  /\ queue' = Tail(queue)
  /\ log' = Append(log, active')
  /\ frames' = Append(frames, [kind |-> "start", prompt |-> active', at |-> lastSeq])
  /\ UNCHANGED <<history, asked, captures, watching, observed>>

TurnEnds ==
  /\ active # Nobody
  /\ active' = Nobody
  /\ frames' = Append(frames, Frame("end"))
  /\ UNCHANGED <<queue, log, history, asked, captures, watching, observed>>

Compaction ==
  /\ Cardinality({i \in DOMAIN log : log[i] = Summary}) < MaxSummaries
  /\ log' = Append(log, Summary)
  /\ UNCHANGED <<queue, active, frames, history, asked, captures, watching, observed>>

ForeignPrompt(p) ==
  /\ \A i \in DOMAIN log : log[i] # p
  /\ \A i \in DOMAIN queue : queue[i] # p
  /\ queue' = Append(queue, p)
  /\ alone' = (alone /\ Settled)
  /\ UNCHANGED <<active, log, frames, history, asked, captures, watching,
                 discarded, missed, stops>>

-----------------------------------------------------------------------------
(* The chat store.                                                         *)

Row(p, run, source, id) ==
  [seq |-> lastSeq + 1, prompt |-> p, run |-> run, source |-> source, id |-> id]

(* _insert, with the seq _next_seq gives.                                  *)
Inserted(r) == rows' = rows \cup {r} /\ lastSeq' = lastSeq + 1

(* capture_backfilled_user_row: nothing when the Hermes row is stored.     *)
Backfilled(p, run, id) ==
  IF \E r \in rows : r.id = id
  THEN UNCHANGED <<rows, lastSeq>>
  ELSE Inserted(Row(p, run, "backfill", id))

-----------------------------------------------------------------------------
(* The send route.                                                         *)

SubmitWrites(p) ==
  /\ asked[p] = "no"
  /\ Inserted(Row(p, 0, "submit", 0))
  /\ asked' = [asked EXCEPT ![p] = "written"]
  /\ watching' = FALSE
  /\ alone' = (alone /\ Settled)
  /\ UNCHANGED <<hermes, runs, captures, discarded, missed, stops>>

(* prompt.submit reaches Hermes: the prompt starts or awaits a turn of its *)
(* own, or is steered into the one that runs and starts none.              *)
HermesAccepts(p) ==
  /\ asked[p] = "written"
  /\ asked' = [asked EXCEPT ![p] = "accepted"]
  /\ \/ queue' = Append(queue, p)
     \/ active # Nobody /\ UNCHANGED queue
  /\ UNCHANGED <<active, log, frames, history, captures, watching, observed>>

SubmitAnswered(p) ==
  /\ asked[p] = "accepted"
  /\ asked' = [asked EXCEPT ![p] = "answered"]
  /\ UNCHANGED <<hermes, history, captures, watching, observed>>

(* The prompt never arrived, or it did and no answer came in time: either  *)
(* way the route removes the row it wrote.                                 *)
SubmitFails(p) ==
  /\ asked[p] \in {"written", "accepted"}
  /\ asked' = [asked EXCEPT ![p] = "failed"]
  /\ rows' = {r \in rows : ~(r.prompt = p /\ r.source = "submit")}
  /\ discarded' = discarded \cup {p}
  /\ UNCHANGED <<hermes, lastSeq, runs, captures, watching, alone, missed, stops>>

-----------------------------------------------------------------------------
(* The frames, and the capture of foreign prompts.                         *)

OpenRun == IF runs # <<>> /\ runs[Len(runs)].last < 0 THEN Len(runs) ELSE 0

(* attach_turn: the newest row without a run gets this one.                *)
AttachTurn(run) ==
  rows' = {IF r \in Unlinked /\ r = Newest(Unlinked) THEN [r EXCEPT !.run = run] ELSE r : r \in rows}

(* _spawn, when attach_turn linked nothing.                                *)
Spawns(run) ==
  IF Unlinked # {} THEN UNCHANGED captures
  ELSE captures' = captures \cup {[run |-> run, got |-> Unread]}

(* handle_run_opened, called once the run is committed.                    *)
RunOpens ==
  /\ frames # <<>> /\ Head(frames).kind = "start"
  /\ frames' = Tail(frames)
  /\ IF watching \/ OpenRun # 0
     THEN UNCHANGED <<rows, runs, captures>>
     ELSE /\ runs' = Append(runs, [prompt |-> Head(frames).prompt,
                                   first |-> Head(frames).at, last |-> -1])
          /\ AttachTurn(Len(runs) + 1)
          /\ Spawns(Len(runs) + 1)
  /\ UNCHANGED <<queue, active, log, lastSeq, asked, watching, observed>>

RunCloses ==
  /\ frames # <<>> /\ Head(frames).kind = "end"
  /\ frames' = Tail(frames)
  /\ runs' = IF watching \/ OpenRun = 0 THEN runs
             ELSE [runs EXCEPT ![OpenRun].last = Head(frames).at]
  /\ UNCHANGED <<queue, active, log, rows, lastSeq, asked, captures, watching, observed>>

(* Seeded fault: a summary passes for a prompt.                            *)
NewestRow == Len(log)

(* newest_foreign_prompt: the row id, or 0.                                *)
NewestPrompt ==
  LET real == {i \in DOMAIN log : log[i] # Summary}
  IN IF real = {} THEN 0 ELSE CHOOSE i \in real : \A j \in real : j <= i

(* _capture, no in-process source being installed: the session is resumed  *)
(* (and no longer watched), which shows the transcript as Hermes has it    *)
(* then, or raises.                                                        *)
CaptureResumes(c, id) ==
  /\ c.got = Unread
  /\ captures' = (captures \ {c}) \cup {[c EXCEPT !.got = id]}
  /\ watching' = FALSE
  /\ UNCHANGED <<hermes, history, asked, observed>>

CaptureStores(c) ==
  /\ c.got # Unread
  /\ IF c.got \in {0, Failed} THEN UNCHANGED <<rows, lastSeq>>
     ELSE Backfilled(log[c.got], c.run, c.got)
  /\ missed' = IF c.got = Failed THEN missed \cup {c.run} ELSE missed
  /\ captures' = captures \ {c}
  /\ UNCHANGED <<hermes, runs, asked, watching, alone, discarded, stops>>

-----------------------------------------------------------------------------
(* Watching (watch_sessions.py), and restarts.                             *)

(* A lazy resume, as for a subagent's session.                             *)
Watch ==
  /\ ~watching
  /\ watching' = TRUE
  /\ alone' = (alone /\ Settled)
  /\ UNCHANGED <<hermes, history, asked, captures, discarded, missed, stops>>

(* Any other resume, the time limit, or the limit on watched sessions.     *)
Unwatch ==
  /\ watching
  /\ watching' = FALSE
  /\ UNCHANGED <<hermes, history, asked, captures, observed>>

(* _spans: a run that never ended lasts until the next one starts.         *)
Holds(i, r, slack) ==
  /\ runs[i].first < r.seq + slack
  /\ \/ runs[i].last >= 0 /\ r.seq <= runs[i].last + slack
     \/ runs[i].last < 0 /\ i = Len(runs)

Least(S) == CHOOSE i \in S : \A j \in S : i <= j

(* assign_turn_ids: the run whose time holds the row, else one it misses   *)
(* by no more than the slack, else the next to start.                      *)
Placed(r, near) ==
  LET exact == {i \in DOMAIN runs : Holds(i, r, 0)}
      close == {i \in DOMAIN runs : near /\ Holds(i, r, 1)}
      next  == {i \in DOMAIN runs : r.source \in {"submit", "backfill"} /\ runs[i].first >= r.seq}
  IN IF exact # {} THEN Least(exact) ELSE IF close # {} THEN Least(close)
     ELSE IF next # {} THEN Least(next) ELSE 0

(* A stop ends the sends and captures under way without their last steps;  *)
(* the next start interrupts the open run, then runs the turn backfill.    *)
GatewayRestarts(near) ==
  /\ stops < MaxStops
  /\ stops' = stops + 1
  /\ alone' = (alone /\ Settled)
  /\ asked' = [p \in AppPrompts |->
                IF asked[p] \in {"written", "accepted"} THEN "failed" ELSE asked[p]]
  /\ missed' = missed \cup {c.run : c \in captures}
  /\ captures' = {}
  /\ watching' = FALSE
  /\ runs' = IF OpenRun = 0 THEN runs ELSE [runs EXCEPT ![OpenRun].last = lastSeq]
  /\ rows' = {IF r.run = 0 THEN [r EXCEPT !.run = Placed(r, near)'] ELSE r : r \in rows}
  /\ UNCHANGED <<queue, active, log, frames, lastSeq, discarded>>

PromptNext ==
  \/ TurnBegins
  \/ TurnEnds
  \/ Compaction
  \/ \E p \in ForeignPrompts : ForeignPrompt(p)
  \/ \E p \in AppPrompts :
       SubmitWrites(p) \/ HermesAccepts(p) \/ SubmitAnswered(p) \/ SubmitFails(p)
  \/ RunOpens \/ RunCloses
  \/ \E c \in captures :
       CaptureResumes(c, NewestPrompt) \/ CaptureResumes(c, Failed) \/ CaptureStores(c)
  \/ Watch \/ Unwatch
  \/ \E near \in BOOLEAN : GatewayRestarts(near)

PromptSpec == PromptInit /\ [][PromptNext]_chatVars

-----------------------------------------------------------------------------
(* As long as each client waits until nothing is under way, a row that is  *)
(* linked to a run shows the prompt of that run (attach_turn's "newest     *)
(* waiting row" and newest_foreign_prompt's "newest prompt" are then the   *)
(* run's own); and every recorded run has exactly one prompt in the        *)
(* history, whoever sent it, once its capture is over: it is missing only  *)
(* when the send failed after Hermes had the prompt, or the capture failed.*)
OwnPrompt ==
  alone =>
    /\ \A r \in rows : r.run # 0 => r.prompt = runs[r.run].prompt
    /\ \A i \in DOMAIN runs :
         LET shown == {r \in rows : r.run = i}
         IN \/ Cardinality(shown) = 1
            \/ /\ shown = {}
               /\ \/ i \in missed \cup {c.run : c \in captures}
                  \/ runs[i].prompt \in discarded

=============================================================================
