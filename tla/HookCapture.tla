------------------------------ MODULE HookCapture ------------------------------
(***************************************************************************)
(* What the plugin learns inside Hermes, where the socket cannot tell it:  *)
(* the hooks and their queue (src/__init__.py), the drain that enriches    *)
(* the gateway's records (src/capture.py), and the forwarder of audit rows *)
(* (src/audit_forwarder.py).                                               *)
(*                                                                         *)
(* Hooks fire in Hermes's threads, the drain runs on the event loop, and   *)
(* the forwarder in a thread of its own.  The frames of the same turns     *)
(* travel over the socket, so either may be first, and either may be lost. *)
(***************************************************************************)
EXTENDS Naturals, Sequences, SequencesExt

CONSTANTS
  Chats,           (* sessions of Hermes                                   *)
  MaxHooked,       (* MAX_QUEUED_EVENTS: hook events that wait             *)
  MaxTracked,      (* MAX_TRACKED_TURNS                                    *)
  MaxAudited,      (* MAX_QUEUED: audit rows that wait                     *)
  MaxHookTurns,    (* bound: turns                                         *)
  MaxTools,        (* bound: tool calls                                    *)
  MaxHookFaults    (* bound: lost frames, failed writes and failed posts   *)

ASSUME HookBounds ==
  /\ MaxHooked \in Nat \ {0} /\ MaxTracked \in Nat \ {0} /\ MaxAudited \in Nat \ {0}
  /\ MaxHookTurns \in Nat /\ MaxTools \in Nat /\ MaxHookFaults \in Nat

VARIABLES
  working,     \* Hermes: the turn each session is at
  begun,       \* Hermes: turns so far
  frames,      \* the socket: the frames on their way
  open,        \* run recorder: the turn whose frames opened a session's run
  unwritten,   \* observed: runs the drain meant to close, and a write failed
  hooks,       \* events: hook events the drain has not handled
  known,       \* HookDrain.turns: turns whose session is known
  prompted,    \* HookDrain._latest_prompt: newest prompt of each session
  closed,      \* HookDrain._closed_turns
  pending,     \* AuditForwarder._queue
  batch,       \* the rows the forwarder is posting
  shipped,     \* audit store: the rows it got
  audited,     \* observed: rows recorded so far; a row is its number
  counted,     \* which counters of losses have ever been raised
  hookFaults   \* observed: how often so far

hostVars  == <<working, begun, frames>>
drainVars == <<known, prompted, closed>>
auditVars == <<pending, batch, shipped, audited, counted>>
hookVars  == <<hostVars, open, unwritten, hooks, drainVars, auditVars, hookFaults>>

NoTurn == 0

HookInit ==
  /\ working = [c \in Chats |-> NoTurn] /\ begun = 0 /\ frames = <<>>
  /\ open = [c \in Chats |-> NoTurn] /\ unwritten = {}
  /\ hooks = <<>> /\ known = <<>> /\ prompted = <<>> /\ closed = <<>>
  /\ pending = <<>> /\ batch = <<>> /\ shipped = <<>> /\ audited = 0
  /\ counted = {} /\ hookFaults = 0

Trouble(ok) ==
  /\ ok \/ hookFaults < MaxHookFaults
  /\ hookFaults' = IF ok THEN hookFaults ELSE hookFaults + 1

-----------------------------------------------------------------------------
(* Hermes.  _record: a full queue refuses the event, and the hook returns. *)

Event(hook, c, t) == [hook |-> hook, chat |-> c, turn |-> t]
Fired(queue, e) == IF Len(queue) < MaxHooked THEN Append(queue, e) ELSE queue
Frame(kind, c, t) == [kind |-> kind, chat |-> c, turn |-> t]

BeginTurn(c) ==
  LET t == begun + 1
  IN /\ working[c] = NoTurn /\ begun < MaxHookTurns
     /\ begun' = t
     /\ working' = [working EXCEPT ![c] = t]
     /\ frames' = Append(frames, Frame("started", c, t))
     /\ hooks' = Fired(hooks, Event("pre_llm_call", c, t))
     /\ UNCHANGED <<open, unwritten, drainVars, auditVars, hookFaults>>

CallsModel(c) ==
  /\ working[c] # NoTurn
  /\ hooks' = Fired(hooks, Event("post_api_request", c, working[c]))
  /\ UNCHANGED <<hostVars, open, unwritten, drainVars, auditVars, hookFaults>>

(* Seeded fault: the length is looked at as if the row were in already.    *)
FullAfterwards(queue) == Len(queue) > MaxAudited

(* _enqueue: deque(maxlen=) drops its oldest row in silence.               *)
Full(queue) == Len(queue) = MaxAudited

(* pre_tool_call: the audit row skips the hook queue.                      *)
UsesTool(c) ==
  /\ working[c] # NoTurn /\ audited < MaxTools
  /\ audited' = audited + 1
  /\ pending' = LET rows == Append(pending, audited + 1)
                IN IF Len(rows) > MaxAudited THEN Tail(rows) ELSE rows
  /\ counted' = IF Full(pending) THEN counted \cup {"dropped"} ELSE counted
  /\ hooks' = Fired(hooks, Event("pre_tool_call", c, working[c]))
  /\ UNCHANGED <<hostVars, open, unwritten, drainVars, batch, shipped, hookFaults>>

(* The hook of a turn's end may fire again.                                *)
EndTurn(c, again) ==
  LET t == working[c]
      end == Event("on_session_end", c, t)
  IN /\ t # NoTurn
     /\ working' = [working EXCEPT ![c] = NoTurn]
     /\ frames' = Append(frames, Frame("completed", c, t))
     /\ hooks' = IF again THEN Fired(Fired(hooks, end), end) ELSE Fired(hooks, end)
     /\ UNCHANGED <<begun, open, unwritten, drainVars, auditVars, hookFaults>>

-----------------------------------------------------------------------------
(* The run recorder, as the drain sees it: whether a session's run is open.*)

FrameArrives ==
  LET f == Head(frames)
  IN /\ frames # <<>>
     /\ frames' = Tail(frames)
     /\ open' = [open EXCEPT ![f.chat] = CASE f.kind = "completed" -> NoTurn
                                            [] @ = NoTurn -> f.turn
                                            [] OTHER -> @]
     /\ UNCHANGED <<working, begun, unwritten, hooks, drainVars, auditVars, hookFaults>>

FrameLost ==
  /\ frames # <<>>
  /\ Trouble(FALSE)
  /\ frames' = Tail(frames)
  /\ UNCHANGED <<working, begun, open, unwritten, hooks, drainVars, auditVars>>

-----------------------------------------------------------------------------
(* HookDrain.handle, one event after the other.                            *)

Bounded(entries) == IF Len(entries) > MaxTracked THEN Tail(entries) ELSE entries
Without(entries, t) == SelectSeq(entries, LAMBDA e : e.turn # t)

NextIs(hook) == hooks # <<>> /\ Head(hooks).hook = hook /\ hooks' = Tail(hooks)

(* The turn is remembered as the youngest; a session's newest prompt takes *)
(* the place of its last one.                                              *)
OnPreLlmCall ==
  LET e == [chat |-> Head(hooks).chat, turn |-> Head(hooks).turn]
      at == {i \in DOMAIN prompted : prompted[i].chat = e.chat}
  IN /\ NextIs("pre_llm_call")
     /\ known' = Bounded(Append(Without(known, e.turn), e))
     /\ prompted' = IF at = {} THEN Bounded(Append(prompted, e))
                    ELSE [i \in DOMAIN prompted |-> IF i \in at THEN e ELSE prompted[i]]
     /\ UNCHANGED <<hostVars, open, unwritten, closed, auditVars, hookFaults>>

(* The hook does not name its session: a turn that is not known any more   *)
(* is counted; else its usage is a row of the run that is open, if any.    *)
OnPostApiRequest ==
  /\ NextIs("post_api_request")
  /\ counted' = IF \E i \in DOMAIN known : known[i].turn = Head(hooks).turn THEN counted
                ELSE counted \cup {"no session"}
  /\ UNCHANGED <<hostVars, open, unwritten, drainVars, pending, batch, shipped, audited,
                 hookFaults>>

(* Seeded fault: a session is closed by a hook only once.                  *)
ClosedBefore(c, t) == \E i \in DOMAIN closed : closed[i].chat = c

Duplicate(c, t) == Contains(closed, [chat |-> c, turn |-> t])

(* The safety net: a completion is synthesized if a run of the session is  *)
(* open; it is noted as closed before the recorder has written it.         *)
OnSessionEnd(written) ==
  LET c == Head(hooks).chat  t == Head(hooks).turn
  IN /\ NextIs("on_session_end")
     /\ IF Duplicate(c, t) \/ open[c] = NoTurn
        THEN written /\ UNCHANGED <<open, unwritten, closed, known, hookFaults>>
        ELSE /\ Trouble(written)
             /\ closed' = Bounded(Append(closed, [chat |-> c, turn |-> t]))
             /\ known' = Without(known, t)
             /\ open' = IF written THEN [open EXCEPT ![c] = NoTurn] ELSE open
             /\ unwritten' = IF written THEN unwritten ELSE unwritten \cup {open[c]}
     /\ UNCHANGED <<hostVars, prompted, auditVars>>

(* No handler: the event only took its place in the queue.                 *)
OnOther ==
  /\ NextIs("pre_tool_call")
  /\ UNCHANGED <<hostVars, open, unwritten, drainVars, auditVars, hookFaults>>

(* prompt_source: the capture of a foreign prompt takes it, once.          *)
PromptSource(c) ==
  /\ open[c] # NoTurn
  /\ \E i \in DOMAIN prompted : prompted[i].chat = c /\ prompted' = RemoveAt(prompted, i)
  /\ UNCHANGED <<hostVars, open, unwritten, hooks, known, closed, auditVars, hookFaults>>

-----------------------------------------------------------------------------
(* The forwarder's thread.  Its counters are shared with the hooks without *)
(* a lock: an increment may be lost, but none becomes zero again.          *)

DrainBatch ==
  /\ pending # <<>> /\ batch = <<>>
  /\ batch' = pending
  /\ pending' = <<>>
  /\ UNCHANGED <<hostVars, open, unwritten, hooks, drainVars, shipped, audited, counted,
                 hookFaults>>

(* A post that failed is not repeated, although the store may have it; an  *)
(* error that is none of the network counts the error and not the rows.    *)
Posted(outcome, arrived) ==
  /\ batch # <<>>
  /\ outcome = "sent" => arrived
  /\ Trouble(outcome = "sent")
  /\ batch' = <<>>
  /\ shipped' = IF arrived THEN shipped \o batch ELSE shipped
  /\ counted' = counted \cup CASE outcome = "sent" -> {}
                                [] outcome = "unreachable" -> {"errors", "dropped"}
                                [] outcome = "strange" -> {"errors"}
  /\ UNCHANGED <<hostVars, open, unwritten, hooks, drainVars, pending, audited>>

DrainStep ==
  \/ OnPreLlmCall \/ OnPostApiRequest \/ OnOther
  \/ \E written \in BOOLEAN : OnSessionEnd(written)

HookNext ==
  \/ \E c \in Chats : BeginTurn(c) \/ CallsModel(c) \/ UsesTool(c) \/ PromptSource(c)
  \/ \E c \in Chats, again \in BOOLEAN : EndTurn(c, again)
  \/ FrameArrives \/ FrameLost
  \/ DrainStep
  \/ DrainBatch
  \/ \E outcome \in {"sent", "unreachable", "strange"}, arrived \in BOOLEAN :
       Posted(outcome, arrived)

HookSpec == HookInit /\ [][HookNext]_hookVars

(* The drain polls its queue for as long as the gateway runs.              *)
HookFair == HookSpec /\ WF_hookVars(DrainStep)

-----------------------------------------------------------------------------
(* Properties.                                                             *)

(* "Close a run whose closing frame never arrived" (_on_on_session_end): a *)
(* run that is open although the end of its turn is in the queue does not  *)
(* stay open for ever, whatever was lost on the socket, whichever runs of  *)
(* its session were closed before, and however often hooks are repeated.   *)
EndedRunsAreClosed ==
  \A c \in Chats : \A t \in 1..MaxHookTurns :
    (/\ open[c] = t /\ Contains(hooks, Event("on_session_end", c, t))
     /\ ~Contains(closed, [chat |-> c, turn |-> t]))
      ~> (open[c] # t \/ t \in unwritten)

(* An audit row that never gets to the store shows in a counter, although  *)
(* the queue drops in silence and posts are not repeated; and the store    *)
(* gets the rows in the order in which the tools were called, none twice.  *)
AuditLossIsVisible ==
  LET rows == shipped \o batch \o pending
  IN /\ counted \cap {"dropped", "errors"} = {} => \A i \in 1..audited : Contains(rows, i)
     /\ \A i, j \in DOMAIN rows : i < j => rows[i] < rows[j]
=============================================================================
