------------------------------ MODULE Snapshots ------------------------------
(***************************************************************************)
(* Copies of Hermes's sessions: the sweep that takes them on a timer       *)
(* (gateway/domain/snapshot_sweeper.py), take_snapshot itself              *)
(* (gateway/domain/snapshot_builder.py), and the routes that take one:     *)
(* manual and archive (gateway/api/snapshots.py) and delete                *)
(* (gateway/api/instance.py).                                              *)
(*                                                                         *)
(* Every await is a step of its own: between the listing, the resume and   *)
(* the close of a pass, and between the resume, the listing and the        *)
(* deletion of a route, turns run and the app resumes the same sessions.   *)
(* A transcript is the number of its rows; a session's newest index row is *)
(* the only one the code reads.                                            *)
(***************************************************************************)
EXTENDS Integers, FiniteSets, FiniteSetsExt

CONSTANTS
  N,            (* sessions 1..N; a pass visits them in descending order   *)
  MaxPerPass,   (* research_gateway_snapshot_sweep_max_per_pass            *)
  MaxTurns,     (* bound: turns of all sessions                            *)
  MaxRequests,  (* bound: requests of the app                              *)
  MaxFailures,  (* bound: failed calls and failed writes                   *)
  MaxRestarts   (* bound: gateway restarts                                 *)

ASSUME NAssumption == N \in Nat \ {0} /\ MaxPerPass \in Nat \ {0}
ASSUME SnapshotBounds == /\ MaxTurns \in Nat /\ MaxRequests \in Nat
                         /\ MaxFailures \in Nat /\ MaxRestarts \in Nat

VARIABLES
  rows,      \* Hermes: the rows of each transcript
  gone,      \* Hermes: the sessions deleted
  foreign,   \* Hermes: the sessions of other profiles than the default one
  live,      \* Hermes: no live handle, an idle one, or a turn at work
  cached,    \* LiveHandleCache: sessions with a handle, which may be void
  runs,      \* run recorder: sessions with an open run
  newRun,    \* sessions with a run that started after their newest snapshot
  filing,    \* sessions table: not filed, filed, or archived
  newest,    \* session_snapshots: the newest row of each session, or NoCopy
  sweep,     \* the pass in progress
  route,     \* the request in progress
  turns, requests, failures, restarts   \* observed: how often so far

hermesVars == <<rows, gone, live, foreign>>
runVars    == <<runs, newRun, turns>>
tableVars  == <<filing, newest>>
bounds     == <<requests, failures, restarts>>
snapshotVars == <<hermesVars, cached, runVars, tableVars, sweep, route, bounds>>

Sessions == 1..N
NoSession == 0
Unknown == -1   \* no list row, or no message count in it

(* What the sweep and the delete route read of an index row.               *)
NoCopy == [copy |-> 0, count |-> Unknown, by |-> "nobody"]
Copy(size, count, by) == [copy |-> size, count |-> count, by |-> by]

NoPass == [phase |-> "idle", listed |-> [s \in Sessions |-> Unknown],
           active |-> [s \in Sessions |-> "none"],
           prior |-> [s \in Sessions |-> NoCopy], todo |-> {}, attempts |-> 0,
           current |-> NoSession, held |-> FALSE]
NoRoute == [phase |-> "idle", op |-> "none", session |-> NoSession, copy |-> 0, asked |-> 0]

Fails(ok) ==
  /\ failures' = failures + (IF ok THEN 0 ELSE 1)
  /\ failures' <= MaxFailures

SnapshotInit ==
  /\ rows = [s \in Sessions |-> 1]
  /\ gone = {}
  /\ foreign \in SUBSET Sessions
  /\ live = [s \in Sessions |-> "none"]
  /\ cached = {}
  /\ runs = {}
  /\ newRun = {}
  /\ filing = [s \in Sessions |-> "none"]
  /\ newest = [s \in Sessions |-> NoCopy]
  /\ sweep = NoPass
  /\ route = NoRoute
  /\ turns = 0
  /\ requests = 0
  /\ failures = 0
  /\ restarts = 0

-----------------------------------------------------------------------------
(* Turns, which run whatever the sweep and the routes are doing.           *)

(* A resume leaves a live session as it is, and opens one that is not.     *)
Resumed(s) == [live EXCEPT ![s] = IF @ = "none" THEN "idle" ELSE @]

(* Any other request of the app puts the session's handle into the cache.  *)
AppResume(s) ==
  /\ s \notin gone
  /\ requests < MaxRequests
  /\ requests' = requests + 1
  /\ live' = Resumed(s)
  /\ cached' = cached \cup {s}
  /\ UNCHANGED <<foreign, rows, gone, runVars, tableVars, sweep, route, failures, restarts>>

(* A prompt of the app: the recorder opens a run.                          *)
TurnStart(s) ==
  /\ s \in cached /\ live[s] = "idle"
  /\ turns < MaxTurns
  /\ turns' = turns + 1
  /\ live' = [live EXCEPT ![s] = "busy"]
  /\ runs' = runs \cup {s}
  /\ newRun' = newRun \cup {s}
  /\ UNCHANGED <<foreign, rows, gone, cached, tableVars, sweep, route, bounds>>

TurnEnd(s) ==
  /\ live[s] = "busy"
  /\ live' = [live EXCEPT ![s] = "idle"]
  /\ rows' = [rows EXCEPT ![s] = @ + 1]
  /\ runs' = runs \ {s}
  /\ UNCHANGED <<foreign, gone, cached, newRun, turns, tableVars, sweep, route, bounds>>

(* A turn of another client of Hermes, which the recorder never sees.      *)
ForeignTurn(s) ==
  /\ s \notin gone /\ live[s] # "busy"
  /\ turns < MaxTurns
  /\ turns' = turns + 1
  /\ rows' = [rows EXCEPT ![s] = @ + 1]
  /\ UNCHANGED <<foreign, gone, live, cached, runs, newRun, tableVars, sweep, route, bounds>>

(* A run whose session was closed under it, reconciled as stale.           *)
StaleRunClosed(s) ==
  /\ s \in runs /\ live[s] # "busy"
  /\ runs' = runs \ {s}
  /\ UNCHANGED <<hermesVars, cached, newRun, turns, tableVars, sweep, route, bounds>>

-----------------------------------------------------------------------------
(* The sweep.                                                              *)

(* Seeded fault: only sessions with a copy are looked after.               *)
CandidatesWithCopy == {s \in Sessions : newest[s] # NoCopy}

(* snapshot_candidates                                                     *)
Candidates == {s \in Sessions : filing[s] # "none" \/ newest[s] # NoCopy}

(* _change_reason: no copy, another count than then, or a run since.       *)
NeedsCopy(s, count) == newest[s] = NoCopy \/ count # newest[s].count \/ s \in newRun

(* The loop of _pass up to its next await: on to the next candidate        *)
(* without an open run and not at work when active_list answered.          *)
Onward(p) ==
  LET able == {s \in p.todo : s \notin runs /\ p.active[s] # "busy"}
      next == Max(able)
  IN IF able = {} \/ p.attempts = MaxPerPass THEN NoPass
     ELSE [p EXCEPT !.phase = "resuming", !.current = next, !.attempts = @ + 1,
                       !.todo = {s \in @ : s < next}, !.held = next \in cached]

SweepBegin ==
  /\ sweep.phase = "idle"
  /\ sweep' = [NoPass EXCEPT !.phase = "listing"]
  /\ UNCHANGED <<hermesVars, cached, runVars, tableVars, route, bounds>>

(* Only the default profile is asked for its sessions.                     *)
SweepList(ok) ==
  /\ sweep.phase = "listing"
  /\ Fails(ok)
  /\ sweep' = IF ok THEN [sweep EXCEPT !.phase = "asking",
                            !.listed = [s \in Sessions |->
                              IF s \in gone \cup foreign THEN Unknown ELSE rows[s]]]
              ELSE NoPass
  /\ UNCHANGED <<hermesVars, cached, runVars, tableVars, route, requests, restarts>>

(* active_list answers, the tables are read, and the loop begins; what was *)
(* not listed is skipped (SKIP_NOT_LISTED), as deleted or as foreign.      *)
SweepPlan(ok) ==
  /\ sweep.phase = "asking"
  /\ Fails(ok)
  /\ sweep' = IF ok
              THEN Onward([sweep EXCEPT !.active = live, !.prior = newest,
                             !.todo = {s \in Candidates : /\ sweep.listed[s] # Unknown
                                                          /\ NeedsCopy(s, sweep.listed[s])}])
              ELSE NoPass
  /\ UNCHANGED <<hermesVars, cached, runVars, tableVars, route, requests, restarts>>

(* The index row of a copy, which runs begun until now do not follow.      *)
Index(s, c) ==
  /\ newest' = [newest EXCEPT ![s] = c]
  /\ newRun' = newRun \ {s}

(* _snapshot_one after its resume: the bytes, then the row unless the copy *)
(* it replaces is the same; then only a handle of its own is closed.       *)
SweepCopy(ok, stored) ==
  LET s == sweep.current
      unchanged == sweep.prior[s] # NoCopy /\ sweep.prior[s].copy = rows[s]
  IN /\ sweep.phase = "resuming"
     /\ s \in gone => ~ok
     /\ Fails((ok \/ s \in gone) /\ stored)
     /\ ~ok => stored
     /\ live' = IF ok THEN Resumed(s) ELSE live
     /\ IF ok /\ stored /\ ~unchanged
        THEN Index(s, Copy(rows[s], sweep.listed[s], "sweep"))
        ELSE UNCHANGED <<newest, newRun>>
     /\ sweep' = IF ok /\ sweep.active[s] = "none" /\ ~sweep.held
                 THEN [sweep EXCEPT !.phase = "closing"] ELSE Onward(sweep)
     /\ UNCHANGED <<foreign, rows, gone, cached, runs, turns, filing, route, requests, restarts>>

(* _close_footprint: best effort, and a turn of the session ends with it.  *)
SweepClose(ok) ==
  /\ sweep.phase = "closing"
  /\ Fails(ok)
  /\ live' = IF ok THEN [live EXCEPT ![sweep.current] = "none"] ELSE live
  /\ sweep' = Onward(sweep)
  /\ UNCHANGED <<foreign, rows, gone, cached, runVars, tableVars, route, requests, restarts>>

-----------------------------------------------------------------------------
(* The routes.  Refusals that change nothing are not steps: an archive     *)
(* with no project to file into, an unarchive of what is not filed.        *)

(* archive_session files a session that is not filed before it copies it.  *)
FiledFirst(op, s) == [filing EXCEPT ![s] = IF op = "archive" /\ @ = "none" THEN "filed" ELSE @]

Ask(op, s, phase) ==
  /\ route.phase = "idle"
  /\ requests < MaxRequests
  /\ requests' = requests + 1
  /\ filing' = FiledFirst(op, s)
  /\ route' = [phase |-> phase, op |-> op, session |-> s, copy |-> 0, asked |-> rows[s]]
  /\ UNCHANGED <<hermesVars, cached, runVars, newest, sweep, failures, restarts>>

CreateSnapshot(s) == Ask("manual", s, "resuming")

ArchiveSession(s) == Ask("archive", s, "resuming")

DeleteSession(s, force) ==
  IF force THEN Ask("force", s, "deleting") ELSE Ask("delete", s, "resuming")

(* Seeded fault: a copy that could not be made does not block the delete.  *)
BlockedThough(op) == IF op = "delete" THEN [route EXCEPT !.phase = "deleting"] ELSE NoRoute

(* A failed snapshot ends the request: _snapshot_blocked_delete for a      *)
(* delete, an error for the others.                                        *)
Blocked(op) == NoRoute

(* take_snapshot: the resume, with the shared cache.                       *)
RouteResume(ok) ==
  LET s == route.session
  IN /\ route.phase = "resuming"
     /\ s \in gone => ~ok
     /\ Fails(ok \/ s \in gone)
     /\ live' = IF ok THEN Resumed(s) ELSE live
     /\ cached' = IF ok THEN cached \cup {s} ELSE cached
     /\ route' = IF ok THEN [route EXCEPT !.phase = "listing", !.copy = rows[s]]
                 ELSE Blocked(route.op)
     /\ UNCHANGED <<foreign, rows, gone, runVars, tableVars, sweep, requests, restarts>>

(* archive_session sets the flag after its copy, if it is still filed.     *)
Flagged(s) == [filing EXCEPT ![s] = IF @ = "none" THEN "none" ELSE "archived"]

(* take_snapshot: the listing, without which the row has no count, and     *)
(* which may leave out a session of another profile; then bytes and row;   *)
(* then what the route does with its snapshot.                             *)
RouteCopy(known, stored) ==
  LET s == route.session
      count == IF known /\ s \notin gone THEN rows[s] ELSE Unknown
  IN /\ route.phase = "listing"
     /\ Fails((known \/ s \in foreign) /\ stored)
     /\ IF stored THEN Index(s, Copy(route.copy, count, "route")) ELSE UNCHANGED <<newest, newRun>>
     /\ filing' = IF stored /\ route.op = "archive" THEN Flagged(s) ELSE filing
     /\ route' = CASE ~stored -> Blocked(route.op)
                   [] stored /\ route.op = "delete" -> [route EXCEPT !.phase = "deleting"]
                   [] OTHER -> NoRoute
     /\ UNCHANGED <<hermesVars, cached, runs, turns, sweep, requests, restarts>>

(* _cleanup_workspace_filing                                               *)
Cleaned(s) == [filing EXCEPT ![s] = "none"]

(* The CLI deletes the session; without a cached handle to close, the      *)
(* filing is cleaned up at once.                                           *)
RouteDelete(ok) ==
  LET s == route.session
  IN /\ route.phase = "deleting"
     /\ s \in gone => ~ok
     /\ Fails(ok \/ s \in gone)
     /\ gone' = IF ok THEN gone \cup {s} ELSE gone
     /\ filing' = IF ok /\ s \notin cached THEN Cleaned(s) ELSE filing
     /\ route' = IF ok /\ s \in cached THEN [route EXCEPT !.phase = "closing"] ELSE NoRoute
     /\ UNCHANGED <<foreign, rows, live, cached, runVars, newest, sweep, requests, restarts>>

(* _close_live_handle, then the filing.                                    *)
RouteClose(ok) ==
  LET s == route.session
  IN /\ route.phase = "closing"
     /\ Fails(ok)
     /\ live' = IF ok THEN [live EXCEPT ![s] = "none"] ELSE live
     /\ cached' = cached \ {s}
     /\ filing' = Cleaned(s)
     /\ route' = NoRoute
     /\ UNCHANGED <<foreign, rows, gone, runVars, newest, sweep, requests, restarts>>

(* Routes that write the sessions table and nothing else: filing and       *)
(* unfiling (gateway/api/projects.py), and unarchiving.                    *)
Place(s, place) ==
  /\ requests < MaxRequests
  /\ requests' = requests + 1
  /\ filing' = [filing EXCEPT ![s] = place]
  /\ UNCHANGED <<hermesVars, cached, runVars, newest, sweep, route, failures, restarts>>

FileSession(s)      == filing[s] = "none" /\ Place(s, "filed")
UnfileSession(s)    == filing[s] # "none" /\ Place(s, "none")
UnarchiveSession(s) == filing[s] = "archived" /\ Place(s, "filed")

(* The gateway dies: its tables stay, its handles die with its socket.     *)
SweepRestart ==
  /\ restarts < MaxRestarts
  /\ restarts' = restarts + 1
  /\ live' = [s \in Sessions |-> "none"]
  /\ cached' = {}
  /\ runs' = {}
  /\ sweep' = NoPass
  /\ route' = NoRoute
  /\ UNCHANGED <<foreign, rows, gone, newRun, turns, tableVars, requests, failures>>

SweepStep ==
  \/ SweepBegin
  \/ \E ok \in BOOLEAN : SweepList(ok) \/ SweepPlan(ok) \/ SweepClose(ok)
  \/ \E ok, stored \in BOOLEAN : SweepCopy(ok, stored)

RouteStep ==
  \/ \E s \in Sessions : CreateSnapshot(s) \/ ArchiveSession(s) \/ UnarchiveSession(s)
  \/ \E s \in Sessions, force \in BOOLEAN : DeleteSession(s, force)
  \/ \E ok \in BOOLEAN : RouteResume(ok) \/ RouteDelete(ok) \/ RouteClose(ok)
  \/ \E known, stored \in BOOLEAN : RouteCopy(known, stored)
  \/ \E s \in Sessions : FileSession(s) \/ UnfileSession(s)

SnapshotNext ==
  \/ \E s \in Sessions : \/ AppResume(s) \/ TurnStart(s) \/ TurnEnd(s)
                         \/ ForeignTurn(s) \/ StaleRunClosed(s)
  \/ SweepStep
  \/ RouteStep
  \/ SweepRestart

SnapshotSpec == SnapshotInit /\ [][SnapshotNext]_snapshotVars

(* The timer begins pass after pass, and Hermes answers or fails.          *)
SnapshotFair == SnapshotSpec /\ WF_snapshotVars(SweepStep)

-----------------------------------------------------------------------------
(* Properties.                                                             *)

(* The gateway never takes a session for copied that is not.  Delete       *)
(* "after copying it" (docstring of delete_session): unless forced, a      *)
(* session goes only when its newest copy holds all it held when the       *)
(* delete was asked for, also when a sweep or another turn came between.   *)
(* An archived session has a copy, whatever failed on the way.  And a copy *)
(* of the sweep that _change_reason calls current holds every row Hermes   *)
(* had listed, although the transcript moved between the listing, the      *)
(* resume and the row of that copy.                                        *)
CopiesAreThere ==
  [][\A s \in Sessions :
       /\ s \in gone' \ gone => route.op = "force" \/ newest[s].copy >= route.asked
       /\ filing'[s] = "archived" => newest'[s] # NoCopy
       /\ (/\ sweep.phase = "asking" /\ sweep.listed[s] # Unknown
           /\ newest[s].by = "sweep" /\ ~NeedsCopy(s, sweep.listed[s]))
             => newest[s].copy >= sweep.listed[s]]_snapshotVars

(* "what makes filed sessions durable without a tap" (docstring of the     *)
(* sweeper): a filed session of the default profile that stays, is quiet   *)
(* at last and is not left with a copy of another route, has a copy of its *)
(* whole transcript.  Those of other profiles are never listed.            *)
Settled(s) == /\ filing[s] # "none" /\ s \notin gone \cup runs
              /\ live[s] # "busy" /\ newest[s].by # "route"
FiledSessionsBecomeDurable ==
  \A s \in Sessions :
    <>[](s \notin foreign /\ Settled(s)) => <>[](newest[s].copy = rows[s])
=============================================================================
