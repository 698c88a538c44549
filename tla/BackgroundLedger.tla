-------------------------- MODULE BackgroundLedger --------------------------
(***************************************************************************)
(* Background tasks: the submit route (gateway/api/background.py), the     *)
(* background_tasks table (gateway/domain/background_tasks.py) and the     *)
(* ledger that applies completions and replaced connections to it          *)
(* (gateway/domain/background_ledger.py), for a gateway that reaches       *)
(* Hermes over a connection of its own.                                    *)
(*                                                                         *)
(* Hermes runs a task and announces its end once, to the connection the    *)
(* task's session was resumed on; it keeps no copy.  The row of a task is  *)
(* written after the submission was acknowledged, by another coroutine     *)
(* than the one that applies completions.                                  *)
(***************************************************************************)
EXTENDS Integers, FiniteSets

CONSTANTS
  Tasks,           (* task ids, which Hermes may mint again after a restart *)
  Sessions,        (* stored session ids                                    *)
  MaxAttempts,     (* bound: submissions under one task id                  *)
  MaxGeneration,   (* bound: connections of one gateway process             *)
  MaxRestarts,     (* bound: gateway restarts                               *)
  MaxFailures      (* bound: failed transactions and failed resumes         *)

ASSUME BoundAssumption == /\ MaxAttempts \in Nat /\ MaxGeneration \in Nat
                          /\ MaxRestarts \in Nat /\ MaxFailures \in Nat

VARIABLES
  ledger,      \* background_tasks: the row of each task id, or NoRow
  submits,     \* submissions acknowledged by Hermes, their row not yet written
  generation,  \* connection_generation of the adapter
  up,          \* is_connected of the adapter
  seen,        \* _generation_seen of the event stream
  attached,    \* sessions Hermes has resumed on this connection
  wire,        \* completions between Hermes and the ledger, or held by the stream
  scheduled,   \* a rescue was scheduled and has not begun
  rescue,      \* stored_ids the rescues in progress have yet to resume
  work,        \* Hermes: the task run under each id
  restarts,    \* observed: gateway restarts so far
  failures     \* observed: failures so far

gatewayVars == <<ledger, submits, seen, scheduled, rescue>>
connectionVars == <<generation, up, attached>>
vars == <<gatewayVars, connectionVars, wire, work, restarts, failures>>

NoSession == "none"
NoResult  == 0

(* A result is the number of the attempt that produced it, and so is the   *)
(* submission a row stands for; 0 in a row made by a completion alone.     *)
NoRow == [state |-> "none", session |-> NoSession, submit |-> 0, result |-> NoResult,
          generation |-> 0]

Fails(failed) ==
  /\ failures' = failures + Cardinality({x \in DOMAIN failed : failed[x]})
  /\ failures' <= MaxFailures

-----------------------------------------------------------------------------
(* The table.                                                              *)

(* record_submitted: a row that exists is overwritten.                     *)
Submitted(s, attempt) ==
  [state |-> "running", session |-> s, submit |-> attempt, result |-> NoResult,
   generation |-> generation]

(* record_completed: the first result is kept.                             *)
Completed(row, result, hint) ==
  CASE row = NoRow ->
         [NoRow EXCEPT !.state = "finished", !.session = hint, !.result = result]
    [] row.state = "finished" -> row
    [] OTHER ->
         [row EXCEPT !.state = "finished", !.result = result,
                     !.session = IF @ = NoSession THEN hint ELSE @]

(* orphan_all_running                                                      *)
Orphaned(table) ==
  [t \in Tasks |-> IF table[t].state = "running"
                   THEN [table[t] EXCEPT !.state = "orphaned"] ELSE table[t]]

(* Seeded fault: only running tasks count as unfinished.                   *)
UnfinishedRunning == {ledger[t].session : t \in {x \in Tasks : ledger[x].state = "running"}}

(* stored_session_ids_with_unfinished_tasks                                *)
Unfinished ==
  {ledger[t].session : t \in {x \in Tasks : ledger[x].state \in {"running", "orphaned"}}}

-----------------------------------------------------------------------------
(* Connections.                                                            *)

Init ==
  /\ ledger = [t \in Tasks |-> NoRow]
  /\ submits = [t \in Tasks |-> NoRow]
  /\ generation = 0
  /\ up = FALSE
  /\ seen = 0
  /\ attached = {}
  /\ wire = {}
  /\ scheduled = FALSE
  /\ rescue = {}
  /\ work = [t \in Tasks |-> [state |-> "idle", attempt |-> 0, session |-> NoSession]]
  /\ restarts = 0
  /\ failures = 0

(* connect: the generation moves before the socket is open.                *)
Connect ==
  /\ ~up
  /\ generation' = generation + 1
  /\ up' = TRUE
  /\ attached' = {}
  /\ UNCHANGED <<gatewayVars, wire, work, restarts, failures>>

Disconnect ==
  /\ up
  /\ generation < MaxGeneration
  /\ up' = FALSE
  /\ attached' = {}
  /\ UNCHANGED <<gatewayVars, generation, wire, work, restarts, failures>>

(* Hermes restarts: its tasks are gone, and their ids are free again.      *)
HermesRestart ==
  /\ up
  /\ generation < MaxGeneration
  /\ up' = FALSE
  /\ attached' = {}
  /\ work' = [t \in Tasks |-> [work[t] EXCEPT !.state = "idle", !.session = NoSession]]
  /\ UNCHANGED <<gatewayVars, generation, wire, restarts, failures>>

(* Any other request that resumes the session.                             *)
Attach(s) ==
  /\ up
  /\ attached' = attached \cup {s}
  /\ UNCHANGED <<gatewayVars, generation, up, wire, work, restarts, failures>>

(* _note_connection_generation with handle_generation_change: orphan       *)
(* first, rescue second.  The rest of the caller starts from the table     *)
(* this leaves.                                                            *)
Moved == seen # generation

(* Seeded fault: only the startup sweep orphans anything.                  *)
NotedWithoutSweep(failed) == ledger

Noted(failed) == IF Moved /\ ~failed THEN Orphaned(ledger) ELSE ledger

Note ==
  /\ seen' = generation
  /\ scheduled' = (scheduled \/ Moved)

(* The watcher polls the generation.                                       *)
NoteGeneration(failed) ==
  /\ Moved
  /\ Note
  /\ ledger' = Noted(failed)
  /\ Fails(<<failed>>)
  /\ UNCHANGED <<submits, rescue, connectionVars, wire, work, restarts>>

-----------------------------------------------------------------------------
(* Submissions.                                                            *)

(* The session is resumed and the prompt sent; the reply may get lost.     *)
Submit(t, s, answered) ==
  /\ up
  /\ work[t].state = "idle"
  /\ work[t].attempt < MaxAttempts
  /\ submits[t] = NoRow
  /\ attached' = attached \cup {s}
  /\ work' = [work EXCEPT ![t] = [state |-> "working", attempt |-> @.attempt + 1, session |-> s]]
  /\ submits' = IF answered
                THEN [submits EXCEPT ![t] = [NoRow EXCEPT !.session = s,
                                                          !.submit = work[t].attempt + 1]]
                ELSE submits
  /\ UNCHANGED <<ledger, seen, scheduled, rescue, generation, up, wire, restarts, failures>>

(* The route goes on after its await: the row, with the generation of now. *)
RecordSubmitted(t, failed) ==
  /\ submits[t] # NoRow
  /\ submits' = [submits EXCEPT ![t] = NoRow]
  /\ ledger' = IF failed THEN ledger
               ELSE [ledger EXCEPT ![t] = Submitted(submits[t].session, submits[t].submit)]
  /\ Fails(<<failed>>)
  /\ UNCHANGED <<seen, scheduled, rescue, connectionVars, wire, work, restarts>>

-----------------------------------------------------------------------------
(* Completions.                                                            *)

(* Hermes ends a task, with or without a text, and tells who is attached.  *)
Finish(t, text) ==
  /\ work[t].state = "working"
  /\ work' = [work EXCEPT ![t].state = "done"]
  /\ wire' = IF work[t].session \in attached
             THEN wire \cup {[task |-> t, generation |-> generation, session |-> work[t].session,
                              result |-> IF text THEN work[t].attempt ELSE NoResult,
                              attempt |-> work[t].attempt]}
             ELSE wire
  /\ UNCHANGED <<gatewayVars, connectionVars, restarts, failures>>

(* Seeded fault: a frame of an earlier connection is as good as any.       *)
AcceptsAny(frame) == TRUE

(* _forward_one: a frame of an earlier connection is dropped.              *)
Accepts(frame) == frame.generation = generation

(* _forward_one and handle_completed.  The frame may name no session.  A   *)
(* frame whose owner is not bound yet is held, so any may be next.         *)
Deliver(frame, named, unnoted, failed) ==
  /\ Note
  /\ ledger' = IF Accepts(frame) /\ ~failed
               THEN [Noted(unnoted) EXCEPT ![frame.task] =
                       Completed(@, frame.result, IF named THEN frame.session ELSE NoSession)]
               ELSE Noted(unnoted)
  /\ unnoted => Moved
  /\ failed => Accepts(frame)
  /\ Fails(<<unnoted, failed>>)
  /\ wire' = wire \ {frame}
  /\ UNCHANGED <<submits, rescue, connectionVars, work, restarts>>

(* A full queue, or a frame held too long.                                 *)
LoseFrame(frame) ==
  /\ wire' = wire \ {frame}
  /\ UNCHANGED <<gatewayVars, connectionVars, work, restarts, failures>>

-----------------------------------------------------------------------------
(* Rescues.                                                                *)

StartRescue(failed) ==
  /\ scheduled
  /\ scheduled' = FALSE
  /\ rescue' = IF failed THEN rescue ELSE rescue \cup (Unfinished \ {NoSession})
  /\ Fails(<<failed>>)
  /\ UNCHANGED <<ledger, submits, seen, connectionVars, wire, work, restarts>>

RescueSession(s, failed) ==
  /\ s \in rescue
  /\ rescue' = rescue \ {s}
  /\ attached' = IF up /\ ~failed THEN attached \cup {s} ELSE attached
  /\ failed => up
  /\ Fails(<<failed>>)
  /\ UNCHANGED <<ledger, submits, seen, scheduled, generation, up, wire, work, restarts>>

(* The gateway restarts; Hermes goes on.  orphan_on_startup.               *)
Restart(failed) ==
  /\ restarts < MaxRestarts
  /\ restarts' = restarts + 1
  /\ ledger' = IF failed THEN ledger ELSE Orphaned(ledger)
  /\ Fails(<<failed>>)
  /\ submits' = [t \in Tasks |-> NoRow]
  /\ generation' = 0
  /\ up' = FALSE
  /\ seen' = 0
  /\ attached' = {}
  /\ wire' = {}
  /\ scheduled' = FALSE
  /\ rescue' = {}
  /\ UNCHANGED work

Next ==
  \/ Connect
  \/ Disconnect
  \/ HermesRestart
  \/ \E s \in Sessions : Attach(s)
  \/ \E t \in Tasks, s \in Sessions, answered \in BOOLEAN : Submit(t, s, answered)
  \/ \E t \in Tasks, failed \in BOOLEAN : RecordSubmitted(t, failed)
  \/ \E t \in Tasks, text \in BOOLEAN : Finish(t, text)
  \/ \E frame \in wire :
        \/ \E named, unnoted, failed \in BOOLEAN : Deliver(frame, named, unnoted, failed)
        \/ LoseFrame(frame)
  \/ \E failed \in BOOLEAN :
        \/ NoteGeneration(failed)
        \/ StartRescue(failed)
        \/ \E s \in Sessions : RescueSession(s, failed)
        \/ Restart(failed)

Spec == Init /\ [][Next]_vars

(* The watcher polls, and a coroutine that can go on goes on.              *)
FairSpec ==
  /\ Spec
  /\ WF_vars(\E failed \in BOOLEAN : NoteGeneration(failed))
  /\ WF_vars(\E failed \in BOOLEAN : StartRescue(failed))
  /\ \A s \in Sessions : WF_vars(\E failed \in BOOLEAN : RescueSession(s, failed))

-----------------------------------------------------------------------------
(* Correctness.                                                            *)

(* A prompt is never answered by an earlier task's result: across reused   *)
(* ids, frames held while connections are replaced, and rows overwritten.  *)
NoEarlierResult ==
  \A t \in Tasks : ledger[t].result # NoResult => ledger[t].result >= ledger[t].submit

(* "Running" is not claimed across a connection or a process: once the     *)
(* stream has seen the present connection, a running row was written under *)
(* it.  Only a sweep that could not write leaves another.                  *)
RunningIsOfThisConnection ==
  \A t \in Tasks :
    ledger[t].state = "running" /\ seen = generation /\ failures = 0
      => ledger[t].generation = generation

Awaits(s) ==
  \E t \in Tasks : ledger[t].session = s /\ ledger[t].state \in {"running", "orphaned"}

(* A replaced connection does not strand a task: unless the connection is  *)
(* lost again, its session is resumed on the new one, where its completion *)
(* can be heard.                                                           *)
ReattachedAfterReconnect ==
  \A s \in Sessions :
    (Awaits(s) /\ Moved /\ up /\ failures = 0)
      ~> (s \in attached \/ ~up \/ ~Awaits(s) \/ failures > 0)
=============================================================================
