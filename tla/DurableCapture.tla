--------------------------- MODULE DurableCapture ---------------------------
(***************************************************************************)
(* From a raw Hermes frame to its durable rows, in the hosted gateway: the *)
(* private inbox (gateway/domain/event_inbox.py), the proof of an event's  *)
(* owner in the host's session registry (gateway/domain/host_identity.py), *)
(* and the capture of a proven event by the run recorder and the chat      *)
(* store (gateway/domain/event_stream.py, run_recorder.py, chat_store.py). *)
(*                                                                         *)
(* A frame carries a live handle; handles are reused.  The event made of a *)
(* frame is put into the inbox, its owner is looked up, the proven owner is*)
(* bound to the inbox row, the event is recorded and captured in two       *)
(* transactions of another database, and the row is acknowledged.  Each of *)
(* these may fail, or be the last thing the process does; a row that stays *)
(* is taken up again by later passes over the inbox, a page at a time.     *)
(*                                                                         *)
(* A pass and the forwarding of a frame never interleave, for neither      *)
(* awaits; the host's registry moves under both.                           *)
(***************************************************************************)
EXTENDS Integers, Sequences, FiniteSets

CONSTANTS
  Handles,      (* live handles                                            *)
  Sessions,     (* sessions, each with its one profile                     *)
  MaxInbox,     (* max_rows of the inbox                                   *)
  PageSize,     (* page_size of the inbox                                  *)
  MaxOpened,    (* bound: sessions entered into the registry               *)
  MaxEvents,    (* bound: frames                                           *)
  MaxHosts,     (* bound: host processes, one after the other              *)
  MaxFailures   (* bound: storage or resolver failures                     *)

ASSUME InboxAssumption == MaxInbox \in Nat \ {0} /\ PageSize \in Nat \ {0}
ASSUME BoundAssumption == /\ MaxOpened \in Nat /\ MaxEvents \in Nat
                          /\ MaxHosts \in Nat /\ MaxFailures \in Nat

VARIABLES
  hostEpoch,  \* event_identity_epoch: the host process
  opened,     \* every registry entry ever made, in the order of created_at
  keyed,      \* the entries whose stored session id is known
  registry,   \* host._sessions: the entry of each live handle, or none
  wire,       \* the adapter's queue of raw frames
  events,     \* observed: every event normalized so far
  inbox,      \* the pending table; its rowids grow with the ids of events
  cursor,     \* _inbox_cursor: the event id the last page ended with
  pass,       \* the pass over the inbox in progress, if one is
  open,       \* the recorder's open run of each session, or none
  runs,       \* the runs table
  runEvents,  \* the run_events table
  chat,       \* the chat_messages table
  gap,        \* _identity_gap
  failures    \* observed: failures so far

hostVars == <<hostEpoch, opened, keyed, registry>>
storeVars == <<open, runs, runEvents, chat>>
vars == <<hostVars, wire, events, inbox, cursor, pass, storeVars, gap, failures>>

None == 0

-----------------------------------------------------------------------------
(* Event types, by what is kept of them.                                   *)
(*   delta      message.delta, ...: opens a run, leaves no row             *)
(*   interim    message.interim, ...: opens a run, a run event and a chat  *)
(*              row                                                        *)
(*   completed  message.completed: the same, and closes the run            *)

Kinds          == {"delta", "interim", "completed"}
PersistedKinds == {"interim", "completed"}
CapturedKinds  == {"interim", "completed"}

EventIds == DOMAIN events
InInbox(id) == \E row \in inbox : row.id = id

-----------------------------------------------------------------------------
(* The inbox.                                                              *)

(* bind                                                                    *)
Bound(box, id, owner) ==
  {IF row.id = id THEN [row EXCEPT !.owner = owner] ELSE row : row \in box}

(* acknowledge                                                             *)
Without(box, id) == {row \in box : row.id # id}

LastOf(rows) == CHOOSE row \in rows : \A other \in rows : other.id <= row.id

(* The first rows, by rowid, that fit on a page.                           *)
Page(rows) ==
  {row \in rows : Cardinality({other \in rows : other.id <= row.id}) <= PageSize}

(* Rows after the one the cursor names; all of them if that one is gone.   *)
Behind(after) == {row \in inbox : InInbox(after) => row.id > after}

(* Seeded fault: a proven row of an earlier host is not looked for.        *)
PendingOfThisHost(after) == Page({row \in Behind(after) : row.epoch = hostEpoch})

(* pending: the next page of rows that may have a provable owner.          *)
Pending(after) ==
  Page({row \in Behind(after) : row.epoch = hostEpoch \/ row.owner # None})

-----------------------------------------------------------------------------
(* resolve_host_identity: the registry entry on the event's handle, if its *)
(* stored id is known and it is not younger than the event.                *)

(* Seeded fault: the age of the entry is not looked at.                    *)
ResolveAnyAge(handle, observed) ==
  IF registry[handle] \in keyed THEN registry[handle] ELSE None

Resolve(handle, observed) ==
  IF registry[handle] \in keyed /\ registry[handle] <= observed
  THEN registry[handle] ELSE None

-----------------------------------------------------------------------------
(* The capture of an event, as far as it gets.                             *)
(*   unbound   the owner is proven, binding it to the row failed           *)
(*   bound     nothing was recorded                                        *)
(*   recorded  the recorder committed, the chat store did not              *)
(*   captured  both committed, the acknowledgement failed                  *)
(*   done      the row is gone                                             *)

Reaches == {"unbound", "bound", "recorded", "captured", "done"}
HasRecorded(reach) == reach \in {"recorded", "captured", "done"}
HasCaptured(reach) == reach \in {"captured", "done"}

RowsOf(table, id) == {row \in table : row.event = id}

(* The run a recorded event is stamped with.                               *)
RunFor(id, s) ==
  IF RowsOf(runEvents, id) # {} THEN (CHOOSE row \in RowsOf(runEvents, id) : TRUE).run
  ELSE IF open[s] # None THEN open[s]
  ELSE Len(runs) + 1

(* handle_event of a durable event: a run event that exists already makes  *)
(* it a retry, which changes nothing.                                      *)
Record(id, s, kind) ==
  LET r == RunFor(id, s)
      closes == kind = "completed"
      table == IF r > Len(runs)
               THEN Append(runs, [session |-> s, status |-> "running"])
               ELSE runs
  IN  IF RowsOf(runEvents, id) # {} THEN UNCHANGED <<runs, runEvents, open>>
      ELSE /\ runs' = [table EXCEPT ![r].status = IF closes THEN "completed" ELSE @]
           /\ runEvents' = IF kind \in PersistedKinds
                           THEN runEvents \cup {[event |-> id, run |-> r]} ELSE runEvents
           /\ open' = [open EXCEPT ![s] = IF closes THEN None ELSE r]

(* capture_event of a durable event: the row's key is made of the event's. *)
CaptureChat(id, s, kind) ==
  chat' = IF kind \in CapturedKinds /\ RowsOf(chat, id) = {}
          THEN chat \cup {[event |-> id, session |-> s, turn |-> RunFor(id, s)]} ELSE chat

(* Seeded fault: a row is given up once its owner is bound.                *)
CaptureOnce(event, id, owner, reach, box) ==
  LET s == opened[owner].session
  IN  /\ inbox' = IF reach = "unbound" THEN box ELSE Without(box, id)
      /\ IF HasRecorded(reach) THEN Record(id, s, event.kind)
         ELSE UNCHANGED <<runs, runEvents, open>>
      /\ IF HasCaptured(reach) THEN CaptureChat(id, s, event.kind) ELSE UNCHANGED chat

(* bind, _deliver and acknowledge, with  box  the inbox they start from.   *)
Capture(event, id, owner, reach, box) ==
  LET s == opened[owner].session
  IN  /\ inbox' = CASE reach = "unbound" -> box
                    [] reach = "done"    -> Without(box, id)
                    [] OTHER             -> Bound(box, id, owner)
      /\ IF HasRecorded(reach) THEN Record(id, s, event.kind)
         ELSE UNCHANGED <<runs, runEvents, open>>
      /\ IF HasCaptured(reach) THEN CaptureChat(id, s, event.kind) ELSE UNCHANGED chat

(* A failure is announced by a reset, which later subscribers get too.     *)
Fails(failed) ==
  /\ gap' = (gap \/ failed)
  /\ failures' = IF failed THEN failures + 1 ELSE failures
  /\ failed => failures < MaxFailures

-----------------------------------------------------------------------------
NoPass == [by |-> "none", todo |-> {}]

Init ==
  /\ hostEpoch = 1
  /\ opened = <<>>
  /\ keyed = {}
  /\ registry = [h \in Handles |-> None]
  /\ wire = <<>>
  /\ events = <<>>
  /\ inbox = {}
  /\ cursor = None
  /\ pass = NoPass
  /\ open = [s \in Sessions |-> None]
  /\ runs = <<>>
  /\ runEvents = {}
  /\ chat = {}
  /\ gap = FALSE
  /\ failures = 0

(* The host enters a session into its registry; the stored id may be known *)
(* only later.                                                             *)
HostOpen(h, s, key) ==
  /\ registry[h] = None
  /\ Len(opened) < MaxOpened
  /\ opened' = Append(opened, [session |-> s, handle |-> h, host |-> hostEpoch])
  /\ registry' = [registry EXCEPT ![h] = Len(opened) + 1]
  /\ keyed' = IF key THEN keyed \cup {Len(opened) + 1} ELSE keyed
  /\ UNCHANGED <<hostEpoch, wire, events, inbox, cursor, pass, storeVars, gap, failures>>

HostKey(h) ==
  /\ registry[h] # None
  /\ registry[h] \notin keyed
  /\ keyed' = keyed \cup {registry[h]}
  /\ UNCHANGED <<hostEpoch, opened, registry, wire, events, inbox, cursor, pass, storeVars,
                 gap, failures>>

HostClose(h) ==
  /\ registry[h] # None
  /\ registry' = [registry EXCEPT ![h] = None]
  /\ UNCHANGED <<hostEpoch, opened, keyed, wire, events, inbox, cursor, pass, storeVars,
                 gap, failures>>

(* A session of the host emits a frame, which the adapter receives.        *)
HostEmit(h, kind) ==
  /\ registry[h] # None
  /\ Len(events) + Len(wire) < MaxEvents
  /\ wire' = Append(wire, [handle |-> h, entry |-> registry[h], kind |-> kind,
                           received |-> Len(opened)])
  /\ UNCHANGED <<hostVars, events, inbox, cursor, pass, storeVars, gap, failures>>

(* _replay_quarantine reads a page, for the timer or for the pump.         *)
StartPass(by, failed) ==
  LET page == IF failed THEN {} ELSE Pending(cursor)
  IN  /\ pass = NoPass
      /\ by = "pump" => wire # <<>>
      /\ pass' = [by |-> by, todo |-> page]
      /\ cursor' = IF failed THEN cursor
                   ELSE IF page = {} THEN None ELSE LastOf(page).id
      /\ Fails(failed)
      /\ UNCHANGED <<hostVars, wire, events, inbox, storeVars>>

(* The rows of a page are taken up in their order.                         *)
Turns(row) ==
  /\ \A other \in pass.todo : row.id <= other.id
  /\ pass' = [pass EXCEPT !.todo = @ \ {row}]

ReplayRow(row, reach) ==
  LET event == events[row.id]
      owner == IF row.owner # None THEN row.owner ELSE Resolve(event.handle, event.observed)
  IN  /\ Turns(row)
      /\ owner # None
      /\ reach = "unbound" => row.owner = None
      /\ Capture(event, row.id, owner, reach, inbox)
      /\ Fails(reach # "done")
      /\ UNCHANGED <<hostVars, wire, events, cursor>>

(* No owner can be proven yet, or the registry cannot be read.             *)
SkipRow(row, failed) ==
  /\ Turns(row)
  /\ row.owner = None
  /\ failed \/ Resolve(events[row.id].handle, events[row.id].observed) = None
  /\ Fails(failed)
  /\ UNCHANGED <<hostVars, wire, events, inbox, cursor, storeVars>>

EndPass ==
  /\ pass.by = "timer"
  /\ pass.todo = {}
  /\ pass' = NoPass
  /\ UNCHANGED <<hostVars, wire, events, inbox, cursor, storeVars, gap, failures>>

(* _forward_one, after its pass: the frame becomes an event, and that is   *)
(* the time it is stamped with; when it was received is forgotten.         *)
(* entry, received and accepted (the inbox took it) are observed only.     *)
Arrived(accepted) ==
  [handle |-> Head(wire).handle, entry |-> Head(wire).entry, kind |-> Head(wire).kind,
   received |-> Head(wire).received, observed |-> Len(opened), host |-> hostEpoch,
   accepted |-> accepted]

NewId == Len(events) + 1

Put == inbox \cup {[id |-> NewId, epoch |-> hostEpoch, owner |-> None]}

Forwarding(accepted) ==
  /\ pass.by = "pump"
  /\ pass.todo = {}
  /\ pass' = NoPass
  /\ events' = Append(events, Arrived(accepted))
  /\ wire' = Tail(wire)
  /\ UNCHANGED <<hostVars, cursor>>

(* The inbox is full, or cannot be written: the event is lost, loudly.     *)
ForwardRefused(failed) ==
  /\ Forwarding(FALSE)
  /\ failed \/ Cardinality(inbox) >= MaxInbox
  /\ gap' = TRUE
  /\ failures' = IF failed THEN failures + 1 ELSE failures
  /\ failed => failures < MaxFailures
  /\ UNCHANGED <<inbox, storeVars>>

(* No owner can be proven yet: the row waits.                              *)
ForwardHeld(failed) ==
  /\ Forwarding(TRUE)
  /\ Cardinality(inbox) < MaxInbox
  /\ failed \/ Resolve(Head(wire).handle, Len(opened)) = None
  /\ inbox' = Put
  /\ Fails(failed)
  /\ UNCHANGED storeVars

ForwardCaptured(reach) ==
  /\ Forwarding(TRUE)
  /\ Cardinality(inbox) < MaxInbox
  /\ Resolve(Head(wire).handle, Len(opened)) # None
  /\ Capture(Arrived(TRUE), NewId, Resolve(Head(wire).handle, Len(opened)), reach, Put)
  /\ Fails(reach # "done")

(* The host process, and the gateway in it, ends and another starts; the   *)
(* startup sweep interrupts the runs left running.                         *)
Restart ==
  /\ hostEpoch < MaxHosts
  /\ hostEpoch' = hostEpoch + 1
  /\ registry' = [h \in Handles |-> None]
  /\ wire' = <<>>
  /\ cursor' = None
  /\ pass' = NoPass
  /\ open' = [s \in Sessions |-> None]
  /\ runs' = [r \in DOMAIN runs |->
                IF runs[r].status = "running" THEN [runs[r] EXCEPT !.status = "interrupted"]
                ELSE runs[r]]
  /\ gap' = FALSE
  /\ UNCHANGED <<opened, keyed, events, inbox, runEvents, chat, failures>>

Next ==
  \/ \E h \in Handles :
        \/ \E s \in Sessions, key \in BOOLEAN : HostOpen(h, s, key)
        \/ HostKey(h)
        \/ HostClose(h)
        \/ \E kind \in Kinds : HostEmit(h, kind)
  \/ \E by \in {"timer", "pump"}, failed \in BOOLEAN : StartPass(by, failed)
  \/ \E row \in pass.todo :
        \/ \E reach \in Reaches : ReplayRow(row, reach)
        \/ \E failed \in BOOLEAN : SkipRow(row, failed)
  \/ \E reach \in Reaches : ForwardCaptured(reach)
  \/ \E failed \in BOOLEAN :
        \/ ForwardRefused(failed)
        \/ ForwardHeld(failed)
  \/ EndPass
  \/ Restart

Spec == Init /\ [][Next]_vars

(* The timer runs while the process does, and a pass that has begun ends.  *)
FairSpec ==
  /\ Spec
  /\ WF_vars(\E failed \in BOOLEAN : StartPass("timer", failed))
  /\ WF_vars(\E row \in pass.todo, reach \in Reaches : ReplayRow(row, reach))
  /\ WF_vars(\E row \in pass.todo, failed \in BOOLEAN : SkipRow(row, failed))
  /\ WF_vars(EndPass)
  /\ WF_vars(\E failed \in BOOLEAN : ForwardRefused(failed) \/ ForwardHeld(failed))
  /\ WF_vars(\E reach \in Reaches : ForwardCaptured(reach))

-----------------------------------------------------------------------------
(* Correctness.                                                            *)

(* The rows an event of a persisted kind has to leave.                     *)
Kept(id) ==
  /\ events[id].kind \in PersistedKinds => RowsOf(runEvents, id) # {}
  /\ events[id].kind \in CapturedKinds => RowsOf(chat, id) # {}

(* Nothing is acknowledged before its capture, nothing is forgotten and    *)
(* nothing is doubled: an event the inbox took is still in it or has its   *)
(* run event and its chat row, whatever failed, crashed or was retried on  *)
(* the way; one it refused is announced to later subscribers as long as    *)
(* its process lives; and the two databases agree whatever retry wrote     *)
(* which row: one run event per event, the chat row on the same turn, both *)
(* with one session.                                                       *)
CapturedOnce ==
  /\ \A id \in EventIds :
       IF events[id].accepted THEN InInbox(id) \/ Kept(id)
       ELSE events[id].host = hostEpoch => gap
  /\ \A row \in runEvents : RowsOf(runEvents, row.event) = {row}
  /\ \A row \in chat :
       /\ RowsOf(chat, row.event) = {row}
       /\ row.turn \in DOMAIN runs /\ runs[row.turn].session = row.session
       /\ \A other \in RowsOf(runEvents, row.event) : other.run = row.turn

(* Sessions its own host entered on an event's handle, from the one that   *)
(* sent the frame to the last one when it was forwarded.                   *)
Candidates(id) ==
  {i \in DOMAIN opened :
     /\ opened[i].handle = events[id].handle
     /\ opened[i].host = events[id].host
     /\ events[id].entry <= i /\ i <= events[id].observed}

(* Across reused handles, restarts of the host and late bindings, an event *)
(* is only ever bound, recorded and captured for such a session: one that  *)
(* comes to the handle while the event is held, or in another host, never  *)
(* claims it.  One that comes to it while the frame is still queued does:  *)
(* see OwnersPrecedeReceipt.                                               *)
OwnersPrecedeForwarding ==
  /\ \A row \in inbox : row.owner # None => row.owner \in Candidates(row.id)
  /\ \A row \in runEvents : \E i \in Candidates(row.event) :
       opened[i].session = runs[row.run].session
  /\ \A row \in chat : \E i \in Candidates(row.event) : opened[i].session = row.session

(* "A registry session created after the frame's original receipt cannot   *)
(* claim that frame" (docs/STREAM_RECOVERY.md): what is recorded and       *)
(* captured of it is of a session that was on its handle by then.          *)
OwnersPrecedeReceipt ==
  /\ \A row \in runEvents : \E i \in Candidates(row.event) :
       i <= events[row.event].received /\ opened[i].session = runs[row.run].session
  /\ \A row \in chat : \E i \in Candidates(row.event) :
       i <= events[row.event].received /\ opened[i].session = row.session

(* Once its owner is proven and bound an event is captured, even by a      *)
(* later host process that knows nothing of the handle.                    *)
ProvenIsCaptured ==
  \A id \in 1..MaxEvents :
    (\E row \in inbox : row.id = id /\ row.owner # None)
      ~> (id \in EventIds /\ ~InInbox(id) /\ Kept(id))
=============================================================================
