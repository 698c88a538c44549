---------------------------- MODULE RunRecorder ----------------------------
(***************************************************************************)
(* The run ledger: RunRecorder of gateway/domain/run_recorder.py over the  *)
(* runs and run_events tables (gateway/domain/runs.py), together with the  *)
(* two routes that write to it beside the event pump: the answer to a      *)
(* prompt (gateway/api/prompts.py) and the staleness reconciliation of     *)
(* GET /runs (gateway/api/runs.py).                                        *)
(*                                                                         *)
(* The recorder keeps one in-memory record per session with an open run;   *)
(* the tables are what survives.  Every database transaction may fail, and *)
(* the recorder then goes on without it.  A session below is a pair of a   *)
(* profile and a stored session id, the key of the records.                *)
(***************************************************************************)
EXTENDS Integers, Sequences, FiniteSets

CONSTANTS
  Sessions,      (* (profile, stored session id) pairs                     *)
  Requests,      (* request ids of approvals, clarifications, ...          *)
  MaxRuns,       (* bound: runs ever opened                                *)
  MaxRows,       (* bound: rows in one run's timeline                      *)
  MaxTurns,      (* bound: turns of one session                            *)
  MaxSweeps      (* bound: replaced connections and gateway restarts       *)

ASSUME BoundAssumption == /\ MaxRuns \in Nat /\ MaxRows \in Nat
                          /\ MaxTurns \in Nat /\ MaxSweeps \in Nat

VARIABLES
  runs,      \* the runs table, each run with its run_events rows
  record,    \* _open: the _OpenRun of each session, or NoRecord
  check,     \* the reconciliation in progress, if one is
  host,      \* what Hermes is doing on each session
  sweeps,    \* observed: sweeps so far
  missed     \* observed: some sweep could not write

vars == <<runs, record, check, host, sweeps, missed>>

-----------------------------------------------------------------------------
(* Event types, by what the recorder does with them.                       *)
(*   step       message.started, tool.*, ...: opens a run and is persisted *)
(*   delta      message.delta, ...: opens a run, is not persisted          *)
(*   status     status.update, ...: is persisted, never opens a run        *)
(*   requested  approval.requested, ...: opens, persisted, names a request *)
(*   completed  message.completed: opens, persisted, closes                *)
(*   resolved   the gateway's own row for an answered request              *)

OpeningKinds   == {"step", "delta", "requested", "completed"}
PersistedKinds == {"step", "status", "requested", "completed"}
Outcomes       == {"completed", "failed", "interrupted"}
NoRequest      == "none"

RunIds   == 1..MaxRuns
NoRun    == 0
NoRecord == [run |-> NoRun, lastSeq |-> 0, asked |-> {}]

Frame(kind, request, outcome) == [kind |-> kind, request |-> request, outcome |-> outcome]

Row(seq, kind, request) == [seq |-> seq, kind |-> kind, request |-> request]

NewRun(s) == [session |-> s, status |-> "running", stale |-> FALSE, rows |-> <<>>]

Running == {r \in DOMAIN runs : runs[r].status = "running"}

-----------------------------------------------------------------------------
(* handle_event.                                                           *)

Opens(s, f)   == record[s] = NoRecord /\ f.kind \in OpeningKinds
Ignores(s, f) == record[s] = NoRecord /\ f.kind \notin OpeningKinds
OnlyStamps(s, f) == record[s] # NoRecord /\ f.kind \notin PersistedKinds

NextSeq(s) == IF record[s] = NoRecord THEN 1 ELSE record[s].lastSeq + 1

(* The record after the commit: a closing frame drops it.                  *)
RecordAfter(s, f, r) ==
  IF f.kind = "completed" THEN NoRecord
  ELSE [run     |-> r,
        lastSeq |-> IF f.kind \in PersistedKinds THEN NextSeq(s) ELSE 0,
        asked   |-> IF f.kind = "requested" THEN record[s].asked \cup {f.request}
                    ELSE record[s].asked]

(* The one transaction of a frame: the run, its row, and its close.        *)
RunAfter(run, s, f) ==
  [run EXCEPT
    !.rows   = IF f.kind \in PersistedKinds
               THEN Append(@, Row(NextSeq(s), f.kind, f.request)) ELSE @,
    !.status = IF f.kind = "completed" THEN f.outcome ELSE @]

Commit(s, f) ==
  IF Opens(s, f)
  THEN /\ runs' = Append(runs, RunAfter(NewRun(s), s, f))
       /\ record' = [record EXCEPT ![s] = RecordAfter(s, f, Len(runs) + 1)]
  ELSE /\ runs' = [runs EXCEPT ![record[s].run] = RunAfter(@, s, f)]
       /\ record' = [record EXCEPT ![s] = RecordAfter(s, f, record[s].run)]

(* up: the transaction can be committed.                                   *)
HandleEvent(s, f, up) ==
  IF Ignores(s, f) \/ OnlyStamps(s, f) \/ ~up
  THEN UNCHANGED <<runs, record>>
  ELSE Commit(s, f)

-----------------------------------------------------------------------------
(* Sweeps: running -> interrupted, at startup and when the Hermes          *)
(* connection has been replaced.                                           *)

Interrupted == [r \in DOMAIN runs |->
                  IF r \in Running THEN [runs[r] EXCEPT !.status = "interrupted"] ELSE runs[r]]

(* Seeded fault: the records survive the sweep.                            *)
SweepKeepingRecords(up) ==
  /\ record' = record
  /\ runs' = IF up THEN Interrupted ELSE runs
  /\ missed' = (missed \/ ~up)

(* Seeded fault: the tables are left as they are.                          *)
SweepRecordsOnly(up) ==
  /\ record' = [s \in Sessions |-> NoRecord]
  /\ runs' = runs
  /\ missed' = (missed \/ ~up)

Sweep(up) ==
  /\ record' = [s \in Sessions |-> NoRecord]
  /\ runs' = IF up THEN Interrupted ELSE runs
  /\ missed' = (missed \/ ~up)

-----------------------------------------------------------------------------
(* Answers.                                                                *)

RowsAbout(q, sessions) ==
  {p \in RunIds \X (1..MaxRows) :
     /\ p[1] \in DOMAIN runs /\ p[2] \in DOMAIN runs[p[1]].rows
     /\ runs[p[1]].session \in sessions
     /\ runs[p[1]].rows[p[2]].request = q}

(* _find_requested_row: the run of the newest row about the request, unless*)
(* that row already is its answer.                                         *)
RequestedRun(q, sessions) ==
  LET rows == RowsAbout(q, sessions)
      newest == CHOOSE p \in rows : \A o \in rows :
                  o[1] < p[1] \/ (o[1] = p[1] /\ o[2] <= p[2])
  IN  IF rows = {} \/ runs[newest[1]].rows[newest[2]].kind = "resolved" THEN NoRun
      ELSE newest[1]

(* stored_id_for_request: the session an answer without one belongs to.    *)
SessionsAsked(q) ==
  LET attended == {s \in Sessions : q \in record[s].asked}
      durable == RequestedRun(q, Sessions)
  IN  IF attended # {} THEN attended
      ELSE IF durable # NoRun THEN {runs[durable].session} ELSE {}

(* last_seq_by_run                                                         *)
LastSeq(r) ==
  LET seqs == {0} \cup {runs[r].rows[i].seq : i \in DOMAIN runs[r].rows}
  IN  CHOOSE m \in seqs : \A n \in seqs : n <= m

AppendAnswer(r, seq, q) ==
  runs' = [runs EXCEPT ![r].rows = Append(@, Row(seq, "resolved", q))]

(* Seeded fault: the durable fallback numbers the answer like a first row. *)
RecordSyntheticFromOne(s, q) ==
  LET r == RequestedRun(q, {s})
  IN  IF record[s] # NoRecord
      THEN /\ AppendAnswer(record[s].run, record[s].lastSeq + 1, q)
           /\ record' = [record EXCEPT ![s].lastSeq = @ + 1, ![s].asked = @ \ {q}]
      ELSE /\ r # NoRun
           /\ AppendAnswer(r, 1, q)
           /\ UNCHANGED record

(* record_synthetic, when it can write: on the open run of the session, or,*)
(* without one, after the last row of the run that asked.                  *)
RecordSynthetic(s, q) ==
  LET r == RequestedRun(q, {s})
  IN  IF record[s] # NoRecord
      THEN /\ AppendAnswer(record[s].run, record[s].lastSeq + 1, q)
           /\ record' = [record EXCEPT ![s].lastSeq = @ + 1, ![s].asked = @ \ {q}]
      ELSE /\ r # NoRun
           /\ AppendAnswer(r, LastSeq(r) + 1, q)
           /\ UNCHANGED record

-----------------------------------------------------------------------------
(* Hermes, as far as the recorder can tell: a session is idle, working on  *)
(* a turn, or ending one whose completion is still on its way.  asking: the*)
(* requests it waits on.                                                   *)

IdleHost == [state |-> "idle", turn |-> 0, asking |-> {}]

NoCheck == [phase |-> "none", runs |-> {}, busy |-> {}]

Init ==
  /\ runs = <<>>
  /\ record = [s \in Sessions |-> NoRecord]
  /\ check = NoCheck
  /\ host = [s \in Sessions |-> IdleHost]
  /\ sweeps = 0
  /\ missed = FALSE

(* Bounds: there is a run, or a row, left for the frame.                   *)
Room(s, f) ==
  /\ Opens(s, f) => Len(runs) < MaxRuns
  /\ record[s] # NoRecord => Len(runs[record[s].run].rows) < MaxRows

StartTurn(s) ==
  /\ host[s].state = "idle"
  /\ host[s].turn < MaxTurns
  /\ host' = [host EXCEPT ![s] = [state |-> "working", turn |-> @.turn + 1, asking |-> {}]]
  /\ UNCHANGED <<runs, record, check, sweeps, missed>>

(* A frame of the turn in progress reaches the recorder.                   *)
TurnFrame(s, kind, up) ==
  LET f == Frame(kind, NoRequest, "completed")
  IN  /\ host[s].state = "working"
      /\ up => Room(s, f)
      /\ HandleEvent(s, f, up)
      /\ UNCHANGED <<check, host, sweeps, missed>>

(* Compressing a session, for one, emits status updates outside any turn.  *)
StatusFrame(s, up) ==
  LET f == Frame("status", NoRequest, "completed")
  IN  /\ up => Room(s, f)
      /\ HandleEvent(s, f, up)
      /\ UNCHANGED <<check, host, sweeps, missed>>

(* A turn asks; a request id is used once.                                 *)
RequestFrame(s, q, up) ==
  LET f == Frame("requested", q, "completed")
  IN  /\ host[s].state = "working"
      /\ RowsAbout(q, Sessions) = {}
      /\ \A t \in Sessions : q \notin host[t].asking
      /\ up => Room(s, f)
      /\ HandleEvent(s, f, up)
      /\ host' = [host EXCEPT ![s].asking = @ \cup {q}]
      /\ UNCHANGED <<check, sweeps, missed>>

(* Hermes is done with the turn and calls the session idle.                *)
EndTurn(s) ==
  /\ host[s].state = "working"
  /\ host' = [host EXCEPT ![s].state = "ending", ![s].asking = {}]
  /\ UNCHANGED <<runs, record, check, sweeps, missed>>

CompletionFrame(s, outcome, up) ==
  LET f == Frame("completed", NoRequest, outcome)
  IN  /\ host[s].state = "ending"
      /\ up => Room(s, f)
      /\ HandleEvent(s, f, up)
      /\ host' = [host EXCEPT ![s].state = "idle"]
      /\ UNCHANGED <<check, sweeps, missed>>

(* The completion never reaches the recorder (a full queue, a connection   *)
(* that died, an owner that could not be proved).                          *)
LoseCompletion(s) ==
  /\ host[s].state = "ending"
  /\ host' = [host EXCEPT ![s].state = "idle"]
  /\ UNCHANGED <<runs, record, check, sweeps, missed>>

(* _record_resolution, after Hermes accepted the answer.  An approval      *)
(* names its session; the others are looked up.                            *)
Answer(s, q, named) ==
  /\ q \in host[s].asking
  /\ host' = [host EXCEPT ![s].asking = @ \ {q}]
  /\ \E t \in IF named THEN {s} ELSE SessionsAsked(q) :
        /\ \A r \in DOMAIN runs : Len(runs[r].rows) < MaxRows
        /\ RecordSynthetic(t, q)
  /\ UNCHANGED <<check, sweeps, missed>>

(* The answer landed, and the ledger keeps no row of it.                   *)
AnswerUnrecorded(s, q) ==
  /\ q \in host[s].asking
  /\ host' = [host EXCEPT ![s].asking = @ \ {q}]
  /\ UNCHANGED <<runs, record, check, sweeps, missed>>

ReplaceConnection(up) ==
  /\ sweeps < MaxSweeps
  /\ sweeps' = sweeps + 1
  /\ Sweep(up)
  /\ UNCHANGED <<check, host>>

Restart(up) ==
  /\ sweeps < MaxSweeps
  /\ sweeps' = sweeps + 1
  /\ Sweep(up)
  /\ check' = NoCheck
  /\ UNCHANGED host

(* _reconcile_stale_running, up to its await: the running runs past the    *)
(* grace period among those asked for.                                     *)
ReadStale ==
  /\ check = NoCheck
  /\ \E old \in (SUBSET Running) \ {{}} : check' = [NoCheck EXCEPT !.phase = "asked", !.runs = old]
  /\ UNCHANGED <<runs, record, host, sweeps, missed>>

(* Hermes answers session.active_list ...                                  *)
ListActive ==
  /\ check.phase = "asked"
  /\ check' = [check EXCEPT !.phase = "answered",
                            !.busy = {s \in Sessions : host[s].state = "working"}]
  /\ UNCHANGED <<runs, record, host, sweeps, missed>>

(* ... or the request fails and the runs are served as they are.           *)
ListFailed ==
  /\ check.phase = "asked"
  /\ check' = NoCheck
  /\ UNCHANGED <<runs, record, host, sweeps, missed>>

Stale == {r \in check.runs : runs[r].session \notin check.busy}

(* close_run_stale on every row whose session is not busy, from the rows   *)
(* as they were read.                                                      *)
CloseStale ==
  /\ check.phase = "answered"
  /\ runs' = [r \in DOMAIN runs |->
                IF r \in Stale THEN [runs[r] EXCEPT !.status = "completed", !.stale = TRUE]
                ELSE runs[r]]
  /\ check' = NoCheck
  /\ UNCHANGED <<record, host, sweeps, missed>>

Next ==
  \/ \E s \in Sessions :
        \/ StartTurn(s)
        \/ \E kind \in {"step", "delta"}, up \in BOOLEAN : TurnFrame(s, kind, up)
        \/ \E up \in BOOLEAN : StatusFrame(s, up)
        \/ \E q \in Requests, up \in BOOLEAN : RequestFrame(s, q, up)
        \/ EndTurn(s)
        \/ \E outcome \in Outcomes, up \in BOOLEAN : CompletionFrame(s, outcome, up)
        \/ LoseCompletion(s)
        \/ \E q \in Requests, named \in BOOLEAN : Answer(s, q, named)
        \/ \E q \in Requests : AnswerUnrecorded(s, q)
  \/ \E up \in BOOLEAN :
        \/ ReplaceConnection(up)
        \/ Restart(up)
  \/ ReadStale
  \/ ListActive
  \/ ListFailed
  \/ CloseStale

Spec == Init /\ [][Next]_vars

-----------------------------------------------------------------------------
(* Correctness.                                                            *)

RowType == [seq: Nat, kind: PersistedKinds \cup {"resolved"},
            request: Requests \cup {NoRequest}]
RunType == [session: Sessions, status: Outcomes \cup {"running"}, stale: BOOLEAN,
            rows: Seq(RowType)]
RecordType == [run: Nat, lastSeq: Nat, asked: SUBSET Requests]

(* The types of the variables; a record always names a run of the table.   *)
TypeOK ==
  /\ runs \in Seq(RunType)
  /\ record \in [Sessions -> RecordType]
  /\ \A s \in Sessions : record[s].run \in {NoRun} \cup DOMAIN runs
  /\ check \in [phase: {"none", "asked", "answered"}, runs: SUBSET DOMAIN runs,
                busy: SUBSET Sessions]
  /\ host \in [Sessions -> [state: {"idle", "working", "ending"}, turn: Nat,
                            asking: SUBSET Requests]]
  /\ sweeps \in Nat
  /\ missed \in BOOLEAN

(* The timeline an app pages through by after_seq has no hole and no       *)
(* duplicate: the rows of a run are numbered 1, 2, ... in the order they   *)
(* were written, across failed writes, answers from another route, and     *)
(* answers that arrive when the run is long closed.                        *)
SeqsContiguous ==
  \A r \in DOMAIN runs : \A i \in DOMAIN runs[r].rows : runs[r].rows[i].seq = i

(* The in-memory record and the table agree: a record belongs to a run of  *)
(* its own session, knows its last row, and no two sessions share a run.   *)
RecordsMatchLedger ==
  \A s \in Sessions : record[s] # NoRecord =>
    /\ runs[record[s].run].session = s
    /\ record[s].lastSeq = Len(runs[record[s].run].rows)
    /\ runs[record[s].run].status = "running" \/ runs[record[s].run].stale

(* A run that is shown running is attended: its session's record points to *)
(* it, so a completion can still close it.  Only a sweep that could not    *)
(* write leaves another.                                                   *)
RunningIsAttended ==
  missed \/ \A r \in Running : record[runs[r].session].run = r

(* Frames go to runs that are still open: a run that was completed, failed *)
(* or interrupted gets no more rows except the answers to its requests,    *)
(* unless it was closed as stale behind the recorder's back.               *)
ClosedRunsAreLeftAlone ==
  [][\A r \in DOMAIN runs :
       runs[r].status # "running" /\ ~runs[r].stale =>
         /\ runs'[r].status = runs[r].status \/ runs'[r].stale
         /\ \A i \in DOMAIN runs'[r].rows :
              i > Len(runs[r].rows) => runs'[r].rows[i].kind = "resolved"]_vars
=============================================================================
