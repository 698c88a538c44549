----------------------------- MODULE UpkeepProofs -----------------------------
(***************************************************************************)
(* Theorems about the tasks the gateway runs on its own: the delivery of   *)
(* attachments, the snapshots, and the connections of the profiles.        *)
(***************************************************************************)
EXTENDS AttachmentOrchestrator, Snapshots, ProfileConnections,
        FiniteSetTheorems, TLAPS

-----------------------------------------------------------------------------
(* AttachmentOrchestrator: what is called attached is there.               *)

UploadTypes ==
  /\ row \in [Attachments -> {"none"} \cup InFlight \cup Terminal]
  /\ task \in [Attachments -> {"none", "scheduled", "submitting", "polling", "calling"}]
  /\ fetch \in [Attachments -> {"none", "queued", "streaming", "over"}]
  /\ sandboxCopy \in [Attachments -> {"absent", "partial", "exact"}]
  /\ shown \subseteq Attachments
  /\ direct \in BOOLEAN /\ up \in BOOLEAN

(* A task that runs has a row in flight, asks for a fetch at most once and *)
(* goes on past the polling only with the copy; a copy that is whole is    *)
(* out of the reach of any fetch turn.                                     *)
Upheld(a) ==
  /\ row[a] = "none" => task[a] = "none" /\ fetch[a] = "none" /\ sandboxCopy[a] = "absent"
  /\ task[a] # "none" => up /\ row[a] \in InFlight
  /\ task[a] \in {"scheduled", "submitting"} => fetch[a] = "none"
  /\ task[a] \in {"submitting", "polling"} => ~direct
  /\ direct => fetch[a] = "none"
  /\ sandboxCopy[a] = "exact" => (direct /\ task[a] # "scheduled") \/ fetch[a] = "over"
  /\ task[a] = "calling" => sandboxCopy[a] = "exact" /\ a \in Images
  /\ row[a] = "attached" => sandboxCopy[a] = "exact" /\ (a \in Images => a \in shown)

UploadIInv == UploadTypes /\ \A a \in Attachments : Upheld(a)

(* What an ended row and its file may no longer do.                        *)
EndIsFinal(a) ==
  /\ row[a] \in Terminal => row'[a] = row[a]
  /\ row[a] \in Terminal /\ fetch[a] # "streaming" => sandboxCopy'[a] = sandboxCopy[a]

UploadSteps(a) == Upload(a) \/ TaskStep(a) \/ FetchBegin(a) \/ \E whole \in BOOLEAN : FetchEnd(a, whole)

(* It holds at the start.                                                  *)
LEMMA UploadInitIInv == UploadInit => UploadIInv
  BY DEF UploadInit, UploadIInv, UploadTypes, Upheld, InFlight, Terminal

(* A step of one attachment's upload, task or fetch turn.                  *)
LEMMA UploadStepsKeep ==
  ASSUME UploadIInv, NEW a \in Attachments, UploadSteps(a)
  PROVE  UploadIInv' /\ \A b \in Attachments : EndIsFinal(b)
<1> USE DEF UploadTypes, Upheld, InFlight, Terminal, Put, AttachAndFinish, outside, EndIsFinal
<1>1. UploadTypes /\ \A b \in Attachments : Upheld(b)
  BY DEF UploadIInv
<1> SUFFICES UploadTypes' /\ \A b \in Attachments : Upheld(b)' /\ EndIsFinal(b)
  BY DEF UploadIInv
<1>2. CASE Upload(a)
  BY <1>1, <1>2 DEF Upload
<1>3. CASE \E delivered \in BOOLEAN : UploadBegin(a, delivered)
  BY <1>1, <1>3 DEF UploadBegin
<1>4. CASE \E ok, queued \in BOOLEAN : Submit(a, ok, queued)
  BY <1>1, <1>4 DEF Submit
<1>5. CASE Probe(a)
  BY <1>1, <1>5 DEF Probe, Verified
<1>6. CASE Expire(a)
  BY <1>1, <1>6 DEF Expire
<1>7. CASE \E answer \in {"attached", "refused", "error"}, applied \in BOOLEAN :
             AttachImage(a, answer, applied)
  BY <1>1, <1>7 DEF AttachImage, Confirmed
<1>8. CASE \E written \in BOOLEAN : CrashTask(a, written)
  BY <1>1, <1>8 DEF CrashTask
<1>9. CASE FetchBegin(a)
  BY <1>1, <1>9 DEF FetchBegin, Serves
<1>10. CASE \E whole \in BOOLEAN : FetchEnd(a, whole)
  BY <1>1, <1>10 DEF FetchEnd
<1> QED BY <1>2, <1>3, <1>4, <1>5, <1>6, <1>7, <1>8, <1>9, <1>10 DEF UploadSteps, TaskStep

(* The process stops and starts.                                           *)
LEMMA GatewayKeeps ==
  ASSUME UploadIInv, (\E clean \in BOOLEAN : GatewayStops(clean)) \/ \E swept \in BOOLEAN : Startup(swept)
  PROVE  UploadIInv' /\ \A b \in Attachments : EndIsFinal(b)
<1> USE DEF UploadTypes, Upheld, InFlight, Terminal, outside, EndIsFinal
<1>1. UploadTypes /\ \A b \in Attachments : Upheld(b)
  BY DEF UploadIInv
<1> SUFFICES UploadTypes' /\ \A b \in Attachments : Upheld(b)' /\ EndIsFinal(b)
  BY DEF UploadIInv
<1>2. ASSUME NEW clean \in BOOLEAN, GatewayStops(clean)
      PROVE  UploadTypes' /\ \A b \in Attachments : Upheld(b)' /\ EndIsFinal(b)
  BY <1>1, <1>2 DEF GatewayStops, Cancelled
<1>3. ASSUME NEW swept \in BOOLEAN, Startup(swept)
      PROVE  UploadTypes' /\ \A b \in Attachments : Upheld(b)' /\ EndIsFinal(b)
  BY <1>1, <1>3 DEF Startup, Orphaned
<1> QED BY <1>2, <1>3

(* For any attachments, of any kinds, and any number of failures, crashes  *)
(* and restarts: an attached document is in the sandbox and an attached    *)
(* image in its session, and an ended row and its file stay as they are    *)
(* (AttachmentOrchestrator._run, orphan_on_startup, serve_attachment).     *)
THEOREM WhatIsAttachedIsThere == UploadSpec => AttachedIsThere
<1>1. UploadInit => UploadIInv
  BY UploadInitIInv
<1>2. UploadIInv /\ [UploadNext]_uploadVars
        => UploadIInv' /\ (UNCHANGED uploadVars \/ \A b \in Attachments : EndIsFinal(b))
  <2> SUFFICES ASSUME UploadIInv, [UploadNext]_uploadVars
               PROVE  UploadIInv' /\ (UNCHANGED uploadVars \/ \A b \in Attachments : EndIsFinal(b))
    OBVIOUS
  <2>1. CASE UNCHANGED uploadVars
    BY <2>1 DEF uploadVars, outside, UploadIInv, UploadTypes, Upheld
  <2>2. CASE \E a \in Attachments : UploadSteps(a)
    BY <2>2, UploadStepsKeep
  <2>3. CASE (\E clean \in BOOLEAN : GatewayStops(clean)) \/ \E swept \in BOOLEAN : Startup(swept)
    BY <2>3, GatewayKeeps
  <2> QED BY <2>1, <2>2, <2>3 DEF UploadNext, UploadSteps
<1>3. UploadIInv /\ UploadIInv' /\ [UploadNext]_uploadVars
        => [\A a \in Attachments :
              /\ row'[a] = "attached" =>
                   sandboxCopy'[a] = "exact" /\ (a \in Images => a \in shown')
              /\ row[a] \in Terminal => row'[a] = row[a]
              /\ row[a] \in Terminal /\ fetch[a] # "streaming" =>
                   sandboxCopy'[a] = sandboxCopy[a]]_uploadVars
  BY <1>2 DEF UploadIInv, Upheld, EndIsFinal
<1> QED BY <1>1, <1>2, <1>3, PTL DEF UploadSpec, AttachedIsThere

-----------------------------------------------------------------------------
(* Snapshots: copies come first.                                           *)

(* The records of a pass and of a request, and the numbers in them.        *)
PassIs(p) ==
  /\ p = [f \in DOMAIN p |-> p[f]]
  /\ DOMAIN p = {"phase", "listed", "active", "prior", "todo", "attempts", "current", "held"}
  /\ p.listed = [s \in Sessions |-> p.listed[s]]

SnapshotShapes ==
  /\ rows \in [Sessions -> Nat]
  /\ newest = [s \in Sessions |-> newest[s]]
  /\ filing = [s \in Sessions |-> filing[s]]
  /\ PassIs(sweep)
  /\ route = [phase |-> route.phase, op |-> route.op, session |-> route.session,
              copy |-> route.copy, asked |-> route.asked]
  /\ route.phase # "idle" => route.session \in Sessions

(* A listing is never ahead of Hermes.                                     *)
ListedWas(p) == \A s \in Sessions : p.listed[s] \in Int /\ p.listed[s] <= rows[s]

(* What each index row holds.                                              *)
CopiesHold ==
  \A s \in Sessions :
    /\ newest[s].copy \in Nat
    /\ newest[s].by = "sweep" => newest[s].count \in Int /\ newest[s].copy >= newest[s].count
    /\ filing[s] = "archived" => newest[s] # NoCopy

(* How far a request has come with the copy it takes.                      *)
RouteHolds ==
  route.phase # "idle" =>
    /\ route.asked \in Nat /\ route.asked <= rows[route.session]
    /\ route.phase = "listing" => route.copy \in Nat /\ route.copy >= route.asked
    /\ route.phase = "deleting" =>
         route.op = "force" \/ newest[route.session].copy >= route.asked

SnapshotIInv == SnapshotShapes /\ ListedWas(sweep) /\ CopiesHold /\ RouteHolds

(* The steps, as the property sees them.                                   *)
StepIsSafe ==
  \A s \in Sessions :
    /\ s \in gone' \ gone => route.op = "force" \/ newest[s].copy >= route.asked
    /\ filing'[s] = "archived" => newest'[s] # NoCopy
    /\ (/\ sweep.phase = "asking" /\ sweep.listed[s] # Unknown
        /\ newest[s].by = "sweep" /\ ~NeedsCopy(s, sweep.listed[s]))
          => newest[s].copy >= sweep.listed[s]

(* A copy that was taken is a copy.                                        *)
LEMMA CopyIsOne ==
  \A size, count, by : by # "nobody" =>
    /\ Copy(size, count, by) # NoCopy /\ Copy(size, count, by).copy = size
    /\ Copy(size, count, by).count = count /\ Copy(size, count, by).by = by
  BY DEF Copy, NoCopy

(* It holds at the start.                                                  *)
LEMMA SnapshotInitIInv == SnapshotInit => SnapshotIInv
<1> SUFFICES ASSUME SnapshotInit PROVE SnapshotIInv
  OBVIOUS
<1>1. PassIs(sweep) /\ (\A s \in Sessions : sweep.listed[s] = -1)
  BY DEF SnapshotInit, PassIs, NoPass, Unknown
<1>2. SnapshotShapes /\ RouteHolds
  BY <1>1 DEF SnapshotInit, SnapshotShapes, RouteHolds, NoRoute
<1>3. ListedWas(sweep) /\ CopiesHold
  BY <1>1 DEF SnapshotInit, ListedWas, CopiesHold, NoCopy
<1> QED BY <1>2, <1>3 DEF SnapshotIInv

(* The loop of a pass keeps what it listed.                                *)
LEMMA OnwardKeeps ==
  ASSUME NEW p, PassIs(p)
  PROVE  PassIs(Onward(p)) /\ (Onward(p).listed = p.listed \/ Onward(p) = NoPass)
<1> DEFINE able == {s \in p.todo : s \notin runs /\ p.active[s] # "busy"}
           next == Max(able)
           tried == p.attempts + 1
           left == {s \in p.todo : s < next}
           own == next \in cached
           q == [p EXCEPT !.phase = "resuming", !.current = next, !.attempts = tried,
                             !.todo = left, !.held = own]
<1>1. Onward(p) = NoPass \/ Onward(p) = q
  BY DEF Onward
<1> HIDE DEF next, tried, left, own
<1>3. PassIs(q) /\ q.listed = p.listed
  BY DEF PassIs
<1>4. PassIs(NoPass)
  BY DEF NoPass, PassIs
<1> QED BY <1>1, <1>3, <1>4

(* A pass that has not begun has listed nothing.                           *)
LEMMA NothingListed == PassIs(NoPass) /\ (\A s \in Sessions : NoPass.listed[s] = -1)
  BY DEF NoPass, PassIs, Unknown

(* A pass that goes on.                                                    *)
LEMMA PassGoesOn ==
  ASSUME SnapshotIInv, NEW p, PassIs(p), p.listed = sweep.listed \/ p = NoPass,
         sweep' = p \/ sweep' = Onward(p), rows' \in [Sessions -> Nat],
         \A s \in Sessions : rows'[s] >= rows[s]
  PROVE  PassIs(sweep') /\ ListedWas(sweep)'
<1>1. PassIs(sweep') /\ (sweep'.listed = sweep.listed \/ sweep'.listed = NoPass.listed)
  BY OnwardKeeps
<1>2. \A s \in Sessions : sweep'.listed[s] \in Int /\ sweep'.listed[s] <= rows'[s]
  BY <1>1, NothingListed DEF SnapshotIInv, SnapshotShapes, ListedWas
<1> QED BY <1>1, <1>2 DEF ListedWas

(* A step in which only rows, or only the tables, or only the request move.*)
LEMMA TablesStay ==
  ASSUME SnapshotIInv, newest' = newest, filing' = [s \in Sessions |-> filing'[s]],
         \A s \in Sessions : filing'[s] = "archived" => filing[s] = "archived"
  PROVE  /\ CopiesHold' /\ newest' = [s \in Sessions |-> newest'[s]]
         /\ \A s \in Sessions : filing'[s] = "archived" => newest'[s] # NoCopy
  BY DEF SnapshotIInv, SnapshotShapes, CopiesHold

(* Steps of others that leave the request where it is.                     *)
LEMMA RouteStays ==
  ASSUME SnapshotIInv, route' = route, newest' = newest, rows' \in [Sessions -> Nat],
         \A s \in Sessions : rows'[s] >= rows[s]
  PROVE  RouteHolds'
  BY DEF SnapshotIInv, SnapshotShapes, RouteHolds

(* A copy of the sweep holds what it listed.                               *)
LEMMA SweepHolds ==
  ASSUME SnapshotIInv, NEW s \in Sessions, newest[s].by = "sweep",
         ~NeedsCopy(s, sweep.listed[s])
  PROVE  newest[s].copy >= sweep.listed[s]
  BY DEF SnapshotIInv, CopiesHold, NeedsCopy

(* It survives a turn ...                                                  *)
LEMMA TurnsKeep ==
  ASSUME SnapshotIInv, NEW s \in Sessions,
         \/ AppResume(s) \/ TurnStart(s) \/ TurnEnd(s) \/ ForeignTurn(s) \/ StaleRunClosed(s)
  PROVE  SnapshotIInv' /\ StepIsSafe
<1>1. rows' \in [Sessions -> Nat] /\ (\A u \in Sessions : rows'[u] >= rows[u])
  BY DEF SnapshotIInv, SnapshotShapes, AppResume, TurnStart, TurnEnd, ForeignTurn, StaleRunClosed,
         hermesVars
<1>2. UNCHANGED <<gone, filing, newest, sweep, route>>
  BY DEF AppResume, TurnStart, TurnEnd, ForeignTurn, StaleRunClosed, hermesVars, tableVars
<1>3. PassIs(sweep) /\ SnapshotShapes
  BY DEF SnapshotIInv, SnapshotShapes
<1>4. PassIs(sweep') /\ ListedWas(sweep)'
  BY <1>1, <1>2, <1>3, PassGoesOn
<1>5. SnapshotIInv'
  BY <1>1, <1>2, <1>3, <1>4, TablesStay, RouteStays DEF SnapshotIInv, SnapshotShapes
<1>6. StepIsSafe
  BY <1>2, <1>3, TablesStay, SweepHolds DEF StepIsSafe, SnapshotShapes
<1> QED BY <1>5, <1>6

(* A step of a pass that is not a copy.                                    *)
LEMMA PassStepsKeep ==
  ASSUME SnapshotIInv,
         SweepBegin \/ \E ok \in BOOLEAN : SweepList(ok) \/ SweepPlan(ok) \/ SweepClose(ok)
  PROVE  SnapshotIInv' /\ StepIsSafe
<1>1. UNCHANGED <<rows, gone, filing, newest, route>>
  BY DEF SweepBegin, SweepList, SweepPlan, SweepClose, hermesVars, tableVars
<1>2. PassIs(sweep) /\ ListedWas(sweep) /\ SnapshotShapes
  BY DEF SnapshotIInv, SnapshotShapes
<1>3. PassIs(sweep') /\ ListedWas(sweep)'
  <2>1. CASE SweepBegin
    <3>1. sweep' = [NoPass EXCEPT !.phase = "listing"]
      BY <2>1 DEF SweepBegin
    <3>2. PassIs(sweep') /\ sweep'.listed = NoPass.listed
      BY <3>1, NothingListed DEF PassIs
    <3> QED BY <1>1, <1>2, <3>2, NothingListed DEF ListedWas, SnapshotShapes
  <2>2. ASSUME NEW ok \in BOOLEAN, SweepList(ok) PROVE PassIs(sweep') /\ ListedWas(sweep)'
    <3> DEFINE found == [s \in Sessions |-> IF s \in gone \cup foreign THEN Unknown ELSE rows[s]]
    <3>1. sweep' = NoPass \/ sweep' = [sweep EXCEPT !.phase = "asking", !.listed = found]
      BY <2>2 DEF SweepList
    <3>2. CASE sweep' = NoPass
      BY <1>1, <1>2, <3>2, PassGoesOn, NothingListed DEF SnapshotShapes
    <3>3. CASE sweep' = [sweep EXCEPT !.phase = "asking", !.listed = found]
      <4>1. sweep'.listed = found /\ PassIs(sweep')
        BY <1>2, <3>3 DEF PassIs
      <4>2. \A s \in Sessions : found[s] \in Int /\ found[s] <= rows[s]
        BY <1>2 DEF SnapshotShapes, Unknown
      <4> HIDE DEF found
      <4> QED BY <1>1, <4>1, <4>2 DEF ListedWas
    <3> QED BY <3>1, <3>2, <3>3
  <2>3. ASSUME NEW ok \in BOOLEAN, SweepPlan(ok) PROVE PassIs(sweep') /\ ListedWas(sweep)'
    <3> DEFINE todo == {s \in Candidates : /\ sweep.listed[s] # Unknown
                                           /\ NeedsCopy(s, sweep.listed[s])}
               p == [sweep EXCEPT !.active = live, !.prior = newest, !.todo = todo]
    <3>1. sweep' = NoPass \/ sweep' = Onward(p)
      BY <2>3 DEF SweepPlan
    <3> HIDE DEF todo
    <3>2. PassIs(p) /\ p.listed = sweep.listed
      BY <1>2 DEF PassIs
    <3> HIDE DEF p
    <3> QED BY <1>1, <1>2, <3>1, <3>2, PassGoesOn, NothingListed DEF SnapshotShapes
  <2>4. ASSUME NEW ok \in BOOLEAN, SweepClose(ok) PROVE PassIs(sweep') /\ ListedWas(sweep)'
    BY <1>1, <1>2, <2>4, PassGoesOn DEF SweepClose, SnapshotShapes
  <2> QED BY <2>1, <2>2, <2>3, <2>4
<1>4. SnapshotIInv'
  BY <1>1, <1>2, <1>3, TablesStay, RouteStays DEF SnapshotIInv, SnapshotShapes
<1>5. StepIsSafe
  BY <1>1, <1>2, TablesStay, SweepHolds DEF StepIsSafe, SnapshotShapes
<1> QED BY <1>4, <1>5

(* A copy is written, or is not: what it replaces was not more.            *)
LEMMA NewestKeeps ==
  ASSUME SnapshotIInv, NEW s, NEW c,
         newest' = newest \/ newest' = [newest EXCEPT ![s] = c],
         s \in Sessions => /\ c.copy \in Nat /\ c # NoCopy
                           /\ c.by = "sweep" => c.count \in Int /\ c.copy >= c.count,
         filing' = [u \in Sessions |-> filing'[u]],
         \A u \in Sessions :
           filing'[u] = "archived" => filing[u] = "archived" \/ (u = s /\ newest'[u] = c)
  PROVE  /\ CopiesHold' /\ newest' = [u \in Sessions |-> newest'[u]]
         /\ \A u \in Sessions : filing'[u] = "archived" => newest'[u] # NoCopy
<1>1. SnapshotShapes /\ CopiesHold
  BY DEF SnapshotIInv
<1>2. newest' = [u \in Sessions |-> newest'[u]]
  BY <1>1 DEF SnapshotShapes
<1>3. \A u \in Sessions : newest'[u] = newest[u] \/ (u = s /\ newest'[u] = c)
  BY <1>1 DEF SnapshotShapes
<1> QED BY <1>1, <1>2, <1>3 DEF CopiesHold

(* ... the sweep's copy ...                                                *)
LEMMA SweepCopyKeeps ==
  ASSUME SnapshotIInv, NEW ok \in BOOLEAN, NEW stored \in BOOLEAN, SweepCopy(ok, stored)
  PROVE  SnapshotIInv' /\ StepIsSafe
<1> DEFINE s == sweep.current
           c == Copy(rows[s], sweep.listed[s], "sweep")
<1>1. SnapshotShapes /\ PassIs(sweep) /\ ListedWas(sweep) /\ CopiesHold /\ RouteHolds
  BY DEF SnapshotIInv, SnapshotShapes
<1>2. UNCHANGED <<rows, gone, filing, route>>
  BY DEF SweepCopy
<1>3. newest' = newest \/ newest' = [newest EXCEPT ![s] = c]
  BY DEF SweepCopy, Index
<1>4. PassIs(sweep') /\ ListedWas(sweep)'
  <2> DEFINE p == [sweep EXCEPT !.phase = "closing"]
  <2>1. sweep' = p \/ sweep' = Onward(sweep)
    BY DEF SweepCopy
  <2>2. PassIs(p) /\ p.listed = sweep.listed
    BY <1>1 DEF PassIs
  <2> HIDE DEF p
  <2> QED BY <1>1, <1>2, <2>1, <2>2, PassGoesOn DEF SnapshotShapes
<1>5. s \in Sessions => /\ c.copy = rows[s] /\ rows[s] \in Nat /\ c # NoCopy
                        /\ c.count = sweep.listed[s] /\ c.count \in Int /\ c.copy >= c.count
  BY <1>1, CopyIsOne DEF SnapshotShapes, ListedWas
<1> HIDE DEF s, c
<1>6. /\ CopiesHold' /\ newest' = [u \in Sessions |-> newest'[u]]
      /\ \A u \in Sessions : filing'[u] = "archived" => newest'[u] # NoCopy
  BY <1>1, <1>2, <1>3, <1>5, NewestKeeps DEF SnapshotShapes
<1>7. RouteHolds'
  <2>1. \A u \in Sessions : newest'[u] = newest[u] \/ (u = s /\ newest'[u] = c)
    BY <1>1, <1>3 DEF SnapshotShapes
  <2> QED BY <1>1, <1>2, <1>5, <2>1 DEF RouteHolds, SnapshotShapes
<1>8. SnapshotIInv'
  BY <1>1, <1>2, <1>4, <1>6, <1>7 DEF SnapshotIInv, SnapshotShapes
<1> QED BY <1>2, <1>6, <1>8, SweepHolds DEF StepIsSafe

(* A step of the routes that copies nothing.                               *)
LEMMA RoutesKeep ==
  ASSUME SnapshotIInv, newest' = newest, UNCHANGED <<rows, sweep>>,
         filing' = [s \in Sessions |-> filing'[s]],
         \A s \in Sessions : filing'[s] = "archived" => filing[s] = "archived",
         \A s \in Sessions : s \in gone' \ gone => route.op = "force" \/ newest[s].copy >= route.asked,
         route' = [phase |-> route'.phase, op |-> route'.op, session |-> route'.session,
                   copy |-> route'.copy, asked |-> route'.asked],
         route'.phase # "idle" => route'.session \in Sessions, RouteHolds'
  PROVE  SnapshotIInv' /\ StepIsSafe
<1>1. SnapshotShapes /\ PassIs(sweep)
  BY DEF SnapshotIInv, SnapshotShapes
<1>2. PassIs(sweep') /\ ListedWas(sweep)'
  BY <1>1, PassGoesOn DEF SnapshotShapes
<1>3. /\ CopiesHold' /\ newest' = [s \in Sessions |-> newest'[s]]
      /\ \A s \in Sessions : filing'[s] = "archived" => newest'[s] # NoCopy
  BY TablesStay
<1>4. SnapshotIInv'
  BY <1>1, <1>2, <1>3 DEF SnapshotIInv, SnapshotShapes
<1> QED BY <1>3, <1>4, SweepHolds DEF StepIsSafe

(* ... the start of a request ...                                          *)
LEMMA AsksKeep ==
  ASSUME SnapshotIInv, NEW op, NEW s \in Sessions, NEW phase, Ask(op, s, phase),
         phase = "resuming" \/ (phase = "deleting" /\ op = "force")
  PROVE  SnapshotIInv' /\ StepIsSafe
<1>1. SnapshotShapes
  BY DEF SnapshotIInv
<1>2. /\ newest' = newest /\ UNCHANGED <<rows, sweep, gone>>
      /\ filing' = [filing EXCEPT ![s] = IF op = "archive" /\ @ = "none" THEN "filed" ELSE @]
      /\ route' = [phase |-> phase, op |-> op, session |-> s, copy |-> 0, asked |-> rows[s]]
  BY DEF Ask, FiledFirst, hermesVars
<1>3. RouteHolds'
  BY <1>1, <1>2 DEF RouteHolds, SnapshotShapes
<1>4. /\ filing' = [u \in Sessions |-> filing'[u]]
      /\ \A u \in Sessions : filing'[u] = "archived" => filing[u] = "archived"
  BY <1>1, <1>2 DEF SnapshotShapes
<1> QED BY <1>2, <1>3, <1>4, RoutesKeep

(* ... a move into or out of a project ...                                 *)
LEMMA Places ==
  ASSUME SnapshotIInv, NEW s \in Sessions, NEW place \in {"filed", "none"}, Place(s, place)
  PROVE  SnapshotIInv' /\ StepIsSafe
<1>1. SnapshotShapes
  BY DEF SnapshotIInv
<1>2. newest' = newest /\ UNCHANGED <<rows, sweep, gone, route>> /\ filing' = [filing EXCEPT ![s] = place]
  BY DEF Place, hermesVars
<1>3. RouteHolds'
  BY <1>1, <1>2, RouteStays DEF SnapshotShapes
<1>4. /\ filing' = [u \in Sessions |-> filing'[u]]
      /\ \A u \in Sessions : filing'[u] = "archived" => filing[u] = "archived"
  BY <1>1, <1>2 DEF SnapshotShapes
<1> QED BY <1>1, <1>2, <1>3, <1>4, RoutesKeep DEF SnapshotShapes

(* ... the calls of a request to Hermes ...                                *)
LEMMA RouteMovesKeep ==
  ASSUME SnapshotIInv, NEW ok \in BOOLEAN, RouteResume(ok) \/ RouteDelete(ok) \/ RouteClose(ok)
  PROVE  SnapshotIInv' /\ StepIsSafe
<1> DEFINE s == route.session
<1>1. SnapshotShapes /\ RouteHolds
  BY DEF SnapshotIInv
<1>2. newest' = newest /\ UNCHANGED <<rows, sweep>>
  BY DEF RouteResume, RouteDelete, RouteClose, hermesVars, tableVars
<1>3. s \in Sessions
  BY <1>1 DEF SnapshotShapes, RouteResume, RouteDelete, RouteClose
<1>4. /\ filing' = [u \in Sessions |-> filing'[u]]
      /\ \A u \in Sessions : filing'[u] = "archived" => filing[u] = "archived"
  BY <1>1 DEF SnapshotShapes, RouteResume, RouteDelete, RouteClose, tableVars, Cleaned
<1>5. \A u \in Sessions : u \in gone' \ gone => route.op = "force" \/ newest[u].copy >= route.asked
  BY <1>1 DEF RouteHolds, RouteResume, RouteDelete, RouteClose
<1>6. \/ route' = NoRoute
      \/ /\ route.phase = "resuming"
         /\ route' = [phase |-> "listing", op |-> route.op, session |-> s, copy |-> rows[s],
                      asked |-> route.asked]
      \/ /\ route.phase = "deleting"
         /\ route' = [phase |-> "closing", op |-> route.op, session |-> s, copy |-> route.copy,
                      asked |-> route.asked]
  BY <1>1 DEF SnapshotShapes, RouteResume, RouteDelete, RouteClose, Blocked
<1>7. RouteHolds'
  BY <1>1, <1>2, <1>3, <1>6 DEF RouteHolds, SnapshotShapes, NoRoute
<1>8. /\ route' = [phase |-> route'.phase, op |-> route'.op, session |-> route'.session,
                   copy |-> route'.copy, asked |-> route'.asked]
      /\ route'.phase # "idle" => route'.session \in Sessions
  BY <1>3, <1>6 DEF NoRoute
<1> QED BY <1>2, <1>4, <1>5, <1>7, <1>8, RoutesKeep

(* ... its copy ...                                                        *)
LEMMA RouteCopyKeeps ==
  ASSUME SnapshotIInv, NEW known \in BOOLEAN, NEW stored \in BOOLEAN, RouteCopy(known, stored)
  PROVE  SnapshotIInv' /\ StepIsSafe
<1> DEFINE s == route.session
           count == IF known /\ s \notin gone THEN rows[s] ELSE Unknown
           c == Copy(route.copy, count, "route")
<1>1. SnapshotShapes /\ PassIs(sweep) /\ RouteHolds /\ route.phase = "listing" /\ s \in Sessions
  BY DEF SnapshotIInv, SnapshotShapes, RouteCopy
<1>2. UNCHANGED <<rows, gone, sweep>>
  BY DEF RouteCopy, hermesVars
<1>3. IF stored THEN newest' = [newest EXCEPT ![s] = c] ELSE newest' = newest
  BY DEF RouteCopy, Index
<1>4. /\ route.copy \in Nat /\ route.copy >= route.asked /\ route.asked \in Nat
      /\ route.asked <= rows[s]
  BY <1>1 DEF RouteHolds
<1>5. c.copy = route.copy /\ c # NoCopy /\ c.by = "route"
  BY CopyIsOne
<1>6. filing' = filing \/ (stored /\ filing' = Flagged(s))
  BY DEF RouteCopy
<1>7. \/ route' = NoRoute
      \/ stored /\ route' = [phase |-> "deleting", op |-> route.op, session |-> s,
                             copy |-> route.copy, asked |-> route.asked]
  BY <1>1 DEF SnapshotShapes, RouteCopy, Blocked
<1> HIDE DEF s, c
<1>8. \A u \in Sessions : newest'[u] = newest[u] \/ (u = s /\ newest'[u] = c)
  BY <1>1, <1>3 DEF SnapshotShapes
<1>9. stored => newest'[s] = c
  BY <1>1, <1>3 DEF SnapshotShapes
<1>10. /\ filing' = [u \in Sessions |-> filing'[u]]
       /\ \A u \in Sessions :
            filing'[u] = "archived" => filing[u] = "archived" \/ (u = s /\ newest'[u] = c)
  BY <1>1, <1>6, <1>9 DEF SnapshotShapes, Flagged
<1>11. /\ CopiesHold' /\ newest' = [u \in Sessions |-> newest'[u]]
       /\ \A u \in Sessions : filing'[u] = "archived" => newest'[u] # NoCopy
  BY <1>3, <1>4, <1>5, <1>10, NewestKeeps
<1>12. PassIs(sweep') /\ ListedWas(sweep)'
  BY <1>1, <1>2, PassGoesOn DEF SnapshotShapes
<1>13. RouteHolds'
  BY <1>1, <1>2, <1>4, <1>5, <1>7, <1>9 DEF RouteHolds, SnapshotShapes, NoRoute
<1>14. SnapshotIInv'
  BY <1>1, <1>2, <1>7, <1>10, <1>11, <1>12, <1>13 DEF SnapshotIInv, SnapshotShapes, NoRoute
<1> QED BY <1>2, <1>11, <1>14, SweepHolds DEF StepIsSafe

(* ... and a restart.                                                      *)
LEMMA RestartKeeps ==
  ASSUME SnapshotIInv, SweepRestart
  PROVE  SnapshotIInv' /\ StepIsSafe
<1>1. SnapshotShapes /\ PassIs(NoPass)
  BY NothingListed DEF SnapshotIInv
<1>2. UNCHANGED <<rows, gone, newest, filing>> /\ sweep' = NoPass /\ route' = NoRoute
  BY DEF SweepRestart, tableVars
<1>3. PassIs(sweep') /\ ListedWas(sweep)'
  BY <1>1, <1>2, PassGoesOn DEF SnapshotShapes
<1>4. SnapshotIInv'
  BY <1>1, <1>2, <1>3, TablesStay DEF SnapshotIInv, SnapshotShapes, RouteHolds, NoRoute
<1> QED BY <1>1, <1>2, <1>4, TablesStay, SweepHolds DEF StepIsSafe, SnapshotShapes

(* Every step keeps it.                                                    *)
LEMMA SnapshotStepKeeps ==
  ASSUME SnapshotIInv, SnapshotNext
  PROVE  SnapshotIInv' /\ StepIsSafe
<1>1. CASE \E s \in Sessions : \/ AppResume(s) \/ TurnStart(s) \/ TurnEnd(s)
                               \/ ForeignTurn(s) \/ StaleRunClosed(s)
  BY <1>1, TurnsKeep
<1>2. CASE SweepStep
  BY <1>2, PassStepsKeep, SweepCopyKeeps DEF SweepStep
<1>3. CASE RouteStep
  <2>1. ASSUME NEW s \in Sessions,
               \/ CreateSnapshot(s) \/ ArchiveSession(s) \/ DeleteSession(s, TRUE) \/ DeleteSession(s, FALSE)
        PROVE  SnapshotIInv' /\ StepIsSafe
    BY <2>1, AsksKeep DEF CreateSnapshot, ArchiveSession, DeleteSession
  <2>2. ASSUME NEW s \in Sessions, UnarchiveSession(s) \/ FileSession(s) \/ UnfileSession(s)
        PROVE  SnapshotIInv' /\ StepIsSafe
    BY <2>2, Places DEF UnarchiveSession, FileSession, UnfileSession
  <2> QED BY <1>3, <2>1, <2>2, RouteMovesKeep, RouteCopyKeeps DEF RouteStep
<1>4. CASE SweepRestart
  BY <1>4, RestartKeeps
<1> QED BY <1>1, <1>2, <1>3, <1>4 DEF SnapshotNext

(* The gateway never takes a session for copied that is not: a delete that *)
(* is not forced follows a copy of all the session held when it was asked  *)
(* for, an archived session has a copy, and a copy _change_reason calls    *)
(* current holds what was listed (snapshot_sweeper.py, delete_session,     *)
(* archive_session).                                                       *)
THEOREM CopiesComeFirst == SnapshotSpec => CopiesAreThere
<1>1. SnapshotInit => SnapshotIInv
  BY SnapshotInitIInv
<1>2. SnapshotIInv /\ [SnapshotNext]_snapshotVars => SnapshotIInv'
  <2>1. ASSUME SnapshotIInv, UNCHANGED snapshotVars PROVE SnapshotIInv'
    BY <2>1 DEF snapshotVars, hermesVars, tableVars, runVars, SnapshotIInv, SnapshotShapes,
                ListedWas, CopiesHold, RouteHolds, PassIs
  <2> QED BY <2>1, SnapshotStepKeeps
<1>3. SnapshotIInv /\ [SnapshotNext]_snapshotVars
        => [\A s \in Sessions :
              /\ s \in gone' \ gone => route.op = "force" \/ newest[s].copy >= route.asked
              /\ filing'[s] = "archived" => newest'[s] # NoCopy
              /\ (/\ sweep.phase = "asking" /\ sweep.listed[s] # Unknown
                  /\ newest[s].by = "sweep" /\ ~NeedsCopy(s, sweep.listed[s]))
                    => newest[s].copy >= sweep.listed[s]]_snapshotVars
  BY SnapshotStepKeeps DEF StepIsSafe
<1> QED BY <1>1, <1>2, <1>3, PTL DEF SnapshotSpec, CopiesAreThere

-----------------------------------------------------------------------------
(* ProfileConnections: dashboards are few.                                 *)

(* The passes that have reaped what earlier launches of p left and have    *)
(* not launched their own dashboard yet.                                   *)
AboutToSpawn(p) == {b \in Passes : pass[b].at = "spawn" /\ pass[b].name = p}

PassFields == {"at", "phase", "wanted", "todo", "seen", "name", "process"}
IsPass(r) == DOMAIN r = PassFields /\ r = [f \in DOMAIN r |-> r[f]]
PassShapes ==
  /\ pass = [b \in Passes |-> pass[b]]
  /\ \A b \in Passes : IsPass(pass[b])
DashboardTypes ==
  /\ dashboards = [p \in Profiles |-> dashboards[p]]
  /\ unreaped \in [Profiles -> Nat]
  /\ \A p \in Profiles : IsFiniteSet(dashboards[p])

(* A step that takes no dashboard away but by a reap that worked, and adds *)
(* none.                                                                   *)
NoneAdded ==
  /\ dashboards' = [p \in Profiles |-> dashboards'[p]]
  /\ unreaped' \in [Profiles -> Nat]
  /\ \A p \in Profiles :
       /\ dashboards'[p] \subseteq dashboards[p]
       /\ ReapOrphans => unreaped'[p] = unreaped[p] \/ dashboards'[p] = {}

(* Each pass has at most one dashboard of p, there or on its way; the      *)
(* launches whose reap failed have one more each.                          *)
RoomForEach ==
  ReapOrphans => \A p \in Profiles :
    Cardinality(dashboards[p]) + Cardinality(AboutToSpawn(p)) <= Cardinality(Passes) + unreaped[p]

ProfileIInv == PassShapes /\ DashboardTypes /\ RoomForEach

(* The passes about to launch p can be counted ...                         *)
LEMMA SpawningIsFinite ==
  /\ IsFiniteSet(Passes) /\ Cardinality(Passes) \in Nat
  /\ \A p : /\ IsFiniteSet(AboutToSpawn(p)) /\ Cardinality(AboutToSpawn(p)) \in Nat
            /\ Cardinality(AboutToSpawn(p)) <= Cardinality(Passes)
<1>1. IsFiniteSet({Timer})
  BY FS_Singleton
<1>2. IsFiniteSet(Passes)
  BY <1>1, PassesAssumption, FS_Union DEF Passes
<1>3. \A p : AboutToSpawn(p) \in SUBSET Passes
  BY DEF AboutToSpawn
<1> QED BY <1>2, <1>3, FS_Subset, FS_CardinalityType

(* ... before and after a step.                                            *)
LEMMA SpawningIsFiniteNext ==
  \A p : /\ IsFiniteSet(AboutToSpawn(p)') /\ Cardinality(AboutToSpawn(p)') \in Nat
         /\ Cardinality(AboutToSpawn(p)') <= Cardinality(Passes)
<1>1. \A p : AboutToSpawn(p)' \in SUBSET Passes
  BY DEF AboutToSpawn
<1> QED BY <1>1, SpawningIsFinite, FS_Subset, FS_CardinalityType

(* It holds at the start.                                                  *)
LEMMA ProfilesInitIInv == ProfilesInit => ProfileIInv
<1> SUFFICES ASSUME ProfilesInit PROVE ProfileIInv
  OBVIOUS
<1>1. PassShapes
  BY DEF ProfilesInit, PassShapes, IsPass, PassFields, AtRest
<1>2. \A p \in Profiles : dashboards[p] = {}
  BY DEF ProfilesInit
<1>3. DashboardTypes
  BY <1>2, FS_EmptySet DEF ProfilesInit, DashboardTypes
<1>4. RoomForEach
  <2>1. \A p \in Profiles : unreaped[p] = 0
    BY DEF ProfilesInit
  <2> QED BY <1>2, <2>1, FS_EmptySet, SpawningIsFinite DEF RoomForEach
<1> QED BY <1>1, <1>3, <1>4 DEF ProfileIInv

(* A step that launches nothing leaves no less room.                       *)
LEMMA NoMoreLeavesRoom ==
  ASSUME ProfileIInv, PassShapes', NoneAdded,
         \A p \in Profiles : AboutToSpawn(p)' \subseteq AboutToSpawn(p)
  PROVE  ProfileIInv'
<1>1. DashboardTypes /\ RoomForEach
  BY DEF ProfileIInv
<1>2. ASSUME NEW p \in Profiles
      PROVE  /\ IsFiniteSet(dashboards'[p])
             /\ Cardinality(dashboards'[p]) <= Cardinality(dashboards[p])
             /\ Cardinality(AboutToSpawn(p)') <= Cardinality(AboutToSpawn(p))
             /\ Cardinality(dashboards[p]) \in Nat /\ Cardinality(dashboards'[p]) \in Nat
  <2>1. IsFiniteSet(dashboards[p]) /\ dashboards'[p] \in SUBSET dashboards[p]
    BY <1>1 DEF DashboardTypes, NoneAdded
  <2>2. IsFiniteSet(AboutToSpawn(p)) /\ AboutToSpawn(p)' \in SUBSET AboutToSpawn(p)
    BY SpawningIsFinite
  <2> QED BY <2>1, <2>2, FS_Subset, FS_CardinalityType
<1>3. DashboardTypes'
  BY <1>2 DEF DashboardTypes, NoneAdded
<1>4. RoomForEach'
  <2>1. SUFFICES ASSUME ReapOrphans, NEW p \in Profiles
                 PROVE  Cardinality(dashboards'[p]) + Cardinality(AboutToSpawn(p)')
                          <= Cardinality(Passes) + unreaped'[p]
    BY DEF RoomForEach
  <2>2. Cardinality(dashboards[p]) + Cardinality(AboutToSpawn(p)) <= Cardinality(Passes) + unreaped[p]
    BY <1>1, <2>1 DEF RoomForEach
  <2>3. unreaped[p] \in Nat /\ unreaped'[p] \in Nat
    BY <1>1 DEF NoneAdded, DashboardTypes
  <2>4. CASE unreaped'[p] = unreaped[p]
    BY <1>2, <2>2, <2>3, <2>4, SpawningIsFinite, SpawningIsFiniteNext
  <2>5. CASE dashboards'[p] = {}
    BY <2>3, <2>5, FS_EmptySet, SpawningIsFinite, SpawningIsFiniteNext
  <2> QED BY <2>1, <2>4, <2>5 DEF NoneAdded
<1> QED BY <1>3, <1>4 DEF ProfileIInv

(* A step that leaves the dashboards alone ...                             *)
LEMMA UntouchedAddsNone ==
  ASSUME ProfileIInv, UNCHANGED <<dashboards, unreaped>>
  PROVE  NoneAdded
BY DEF ProfileIInv, DashboardTypes, NoneAdded

(* A reap that works takes every dashboard of its profile, a process that  *)
(* is stopped without one takes its own.                                   *)
LEMMA ReapAddsNone ==
  ASSUME ProfileIInv, NEW q, NEW i, Reaped(q, i)
  PROVE  NoneAdded
<1>1. Left(q, i) \subseteq dashboards[q] /\ (ReapOrphans => Left(q, i) = {})
  BY DEF Left
<1> QED BY <1>1 DEF ProfileIInv, DashboardTypes, NoneAdded, Reaped

(* ... and so does a reap that fails when a dashboard is stopped.          *)
LEMMA FailedReapAddsNone ==
  ASSUME ProfileIInv, NEW q, NotReaped(q), unreaped' = unreaped
  PROVE  NoneAdded
BY DEF ProfileIInv, DashboardTypes, NoneAdded, NotReaped

(* One pass goes on to something that is not a launch.                     *)
LEMMA PassMoves ==
  ASSUME ProfileIInv, NEW b \in Passes, NEW r, pass' = [pass EXCEPT ![b] = r],
         IsPass(r), r.at # "spawn"
  PROVE  PassShapes' /\ \A p \in Profiles : AboutToSpawn(p)' \subseteq AboutToSpawn(p)
<1>1. pass'[b] = r /\ \A c \in Passes \ {b} : pass'[c] = pass[c]
  BY DEF ProfileIInv, PassShapes
<1> QED BY <1>1 DEF ProfileIInv, PassShapes, AboutToSpawn

(* A pass at rest is a pass.                                               *)
LEMMA RestIsPass == IsPass(AtRest) /\ AtRest.at = "rest"
  BY DEF IsPass, PassFields, AtRest

(* It survives the start of a pass ...                                     *)
LEMMA BeginKeeps ==
  ASSUME ProfileIInv, NEW b \in Passes, Begin(b)
  PROVE  ProfileIInv'
<1> DEFINE r == [AtRest EXCEPT !.at = "next", !.wanted = listed, !.todo = listed]
<1>1. pass' = [pass EXCEPT ![b] = r] /\ UNCHANGED <<dashboards, unreaped>>
  BY DEF Begin
<1>2. IsPass(r) /\ r.at = "next"
  BY RestIsPass DEF IsPass, PassFields
<1> HIDE DEF r
<1>3. PassShapes' /\ \A p \in Profiles : AboutToSpawn(p)' \subseteq AboutToSpawn(p)
  BY <1>1, <1>2, PassMoves
<1> QED BY <1>1, <1>3, UntouchedAddsNone, NoMoreLeavesRoom

(* ... its turn to the next profile ...                                    *)
LEMMA TurnKeeps ==
  ASSUME ProfileIInv, NEW b \in Passes, NEW p, NEW at \in {"stop", "reap", "next"}, Turn(b, p, at)
  PROVE  ProfileIInv'
<1>1. PICK skipped \in SUBSET Idle(b) :
        pass' = [pass EXCEPT ![b] = [pass[b] EXCEPT
          !.at = at, !.name = IF at = "next" THEN Nobody ELSE p,
          !.todo = pass[b].todo \ (skipped \cup {p}),
          !.process = IF at = "stop" THEN connections[p] ELSE Nobody]]
  BY DEF Turn
<1> DEFINE name == IF at = "next" THEN Nobody ELSE p
           todo == pass[b].todo \ (skipped \cup {p})
           process == IF at = "stop" THEN connections[p] ELSE Nobody
           r == [pass[b] EXCEPT !.at = at, !.name = name, !.todo = todo, !.process = process]
<1>2. pass' = [pass EXCEPT ![b] = r] /\ UNCHANGED <<dashboards, unreaped>>
  BY <1>1 DEF Turn
<1> HIDE DEF name, todo, process
<1>3. IsPass(pass[b])
  BY DEF ProfileIInv, PassShapes
<1>4. IsPass(r) /\ r.at # "spawn"
  BY <1>3 DEF IsPass, PassFields
<1> HIDE DEF r
<1>5. PassShapes' /\ \A q \in Profiles : AboutToSpawn(q)' \subseteq AboutToSpawn(q)
  BY <1>2, <1>4, PassMoves
<1> QED BY <1>2, <1>5, UntouchedAddsNone, NoMoreLeavesRoom

(* ... and to the next of its loops ...                                    *)
LEMMA NextLoopKeeps ==
  ASSUME ProfileIInv, NEW b \in Passes, NextLoop(b)
  PROVE  ProfileIInv'
<1> DEFINE wanted == pass[b].wanted
           todo == DOMAIN connections
           seen == connections
           r1 == [AtRest EXCEPT !.at = "next", !.phase = "revive", !.wanted = wanted, !.todo = todo,
                                !.seen = seen]
           r2 == [AtRest EXCEPT !.at = "next", !.phase = "remove", !.wanted = wanted, !.todo = todo]
<1>1. UNCHANGED <<dashboards, unreaped>>
  BY DEF NextLoop
<1>2. PICK r \in {AtRest, r1, r2} : pass' = [pass EXCEPT ![b] = r]
  BY DEF NextLoop
<1> HIDE DEF wanted, todo, seen
<1>3. IsPass(r1) /\ r1.at = "next" /\ IsPass(r2) /\ r2.at = "next"
  BY RestIsPass DEF IsPass, PassFields
<1> HIDE DEF r1, r2
<1>4. IsPass(r) /\ r.at # "spawn"
  BY <1>2, <1>3, RestIsPass
<1>5. PassShapes' /\ \A p \in Profiles : AboutToSpawn(p)' \subseteq AboutToSpawn(p)
  BY <1>2, <1>4, PassMoves
<1> QED BY <1>1, <1>5, UntouchedAddsNone, NoMoreLeavesRoom

(* ... the stop of a dashboard ...                                         *)
LEMMA StopKeeps ==
  ASSUME ProfileIInv, NEW b \in Passes, Stop(b)
  PROVE  ProfileIInv'
<1> DEFINE r1 == [pass[b] EXCEPT !.at = "reap", !.process = Nobody]
           r2 == [pass[b] EXCEPT !.at = "next", !.process = Nobody, !.name = Nobody]
<1>1. PICK r \in {r1, r2} : pass' = [pass EXCEPT ![b] = r]
  BY DEF Stop
<1>2. IsPass(pass[b])
  BY DEF ProfileIInv, PassShapes
<1>3. IsPass(r1) /\ r1.at = "reap" /\ IsPass(r2) /\ r2.at = "next"
  BY <1>2 DEF IsPass, PassFields
<1> HIDE DEF r1, r2
<1>4. IsPass(r) /\ r.at # "spawn"
  BY <1>1, <1>3
<1>5. PassShapes' /\ \A p \in Profiles : AboutToSpawn(p)' \subseteq AboutToSpawn(p)
  BY <1>1, <1>4, PassMoves
<1>6. NoneAdded
  BY ReapAddsNone, FailedReapAddsNone DEF Stop
<1> QED BY <1>5, <1>6, NoMoreLeavesRoom

(* What earlier launches of the profile left is reaped: all of its passes  *)
(* have room again.  Where the reap fails, the launch makes its own.       *)
LEMMA ReapKeeps ==
  ASSUME ProfileIInv, NEW b \in Passes, Reap(b)
  PROVE  ProfileIInv'
<1> DEFINE q == pass[b].name
           r == [pass[b] EXCEPT !.at = "spawn"]
<1>1. /\ \/ Reaped(q, Nobody)
         \/ NotReaped(q) /\ unreaped' = [unreaped EXCEPT ![q] = @ + 1]
      /\ pass' = [pass EXCEPT ![b] = r]
  BY DEF Reap
<1>2. PassShapes /\ DashboardTypes /\ RoomForEach /\ IsPass(pass[b])
  BY DEF ProfileIInv, PassShapes
<1>3. IsPass(r) /\ r.at = "spawn" /\ r.name = q
  BY <1>2 DEF IsPass, PassFields
<1> HIDE DEF r, q
<1>4. pass'[b] = r /\ \A c \in Passes \ {b} : pass'[c] = pass[c]
  BY <1>1, <1>2 DEF PassShapes
<1>5. PassShapes'
  BY <1>1, <1>2, <1>3, <1>4 DEF PassShapes
<1>6. \A p \in Profiles : /\ dashboards'[p] \subseteq dashboards[p]
                          /\ p # q => dashboards'[p] = dashboards[p]
  BY <1>1, <1>2 DEF DashboardTypes, Reaped, NotReaped, Left
<1>7. /\ unreaped' \in [Profiles -> Nat]
      /\ \A p \in Profiles : p # q => unreaped'[p] = unreaped[p]
  BY <1>1, <1>2 DEF DashboardTypes, Reaped
<1>8. DashboardTypes'
  <2>1. \A p \in Profiles : IsFiniteSet(dashboards'[p])
    BY <1>2, <1>6, FS_Subset DEF DashboardTypes
  <2>2. dashboards' = [p \in Profiles |-> dashboards'[p]]
    BY <1>1, <1>2 DEF DashboardTypes, Reaped, NotReaped
  <2> QED BY <1>7, <2>1, <2>2 DEF DashboardTypes
<1>9. RoomForEach'
  <2>1. SUFFICES ASSUME ReapOrphans, NEW p \in Profiles
                 PROVE  Cardinality(dashboards'[p]) + Cardinality(AboutToSpawn(p)')
                          <= Cardinality(Passes) + unreaped'[p]
    BY DEF RoomForEach
  <2>2. Cardinality(dashboards[p]) + Cardinality(AboutToSpawn(p)) <= Cardinality(Passes) + unreaped[p]
    BY <1>2, <2>1 DEF RoomForEach
  <2>3. unreaped[p] \in Nat /\ unreaped'[p] \in Nat
    BY <1>2, <1>7 DEF DashboardTypes
  <2>4. /\ Cardinality(dashboards[p]) \in Nat /\ Cardinality(dashboards'[p]) \in Nat
        /\ Cardinality(dashboards'[p]) <= Cardinality(dashboards[p])
    <3>1. IsFiniteSet(dashboards[p]) /\ dashboards'[p] \in SUBSET dashboards[p]
      BY <1>2, <1>6 DEF DashboardTypes
    <3> QED BY <3>1, FS_Subset, FS_CardinalityType
  <2>5. CASE p = q /\ Reaped(q, Nobody)
    <3>1. dashboards'[p] = {}
      BY <1>2, <2>1, <2>5 DEF DashboardTypes, Reaped, Left
    <3> QED BY <2>3, <3>1, FS_EmptySet, SpawningIsFinite, SpawningIsFiniteNext
  <2>6. CASE p = q /\ ~Reaped(q, Nobody)
    <3>1. unreaped'[p] = unreaped[p] + 1
      BY <1>1, <1>2, <2>6 DEF DashboardTypes
    <3>2. AboutToSpawn(p)' \subseteq AboutToSpawn(p) \cup {b}
      BY <1>4 DEF AboutToSpawn
    <3>3. /\ IsFiniteSet(AboutToSpawn(p) \cup {b})
          /\ Cardinality(AboutToSpawn(p) \cup {b})
               = IF b \in AboutToSpawn(p) THEN Cardinality(AboutToSpawn(p))
                                          ELSE Cardinality(AboutToSpawn(p)) + 1
      BY SpawningIsFinite, FS_AddElement
    <3>4. Cardinality(AboutToSpawn(p)') <= Cardinality(AboutToSpawn(p) \cup {b})
      BY <3>2, <3>3, FS_Subset
    <3>5. Cardinality(AboutToSpawn(p)') <= Cardinality(AboutToSpawn(p)) + 1
      BY <3>3, <3>4, SpawningIsFinite, SpawningIsFiniteNext
    <3> QED BY <2>2, <2>3, <2>4, <3>1, <3>5, SpawningIsFinite, SpawningIsFiniteNext
  <2>7. CASE p # q
    <3>1. dashboards'[p] = dashboards[p] /\ unreaped'[p] = unreaped[p]
      BY <1>6, <1>7, <2>7
    <3>2. AboutToSpawn(p)' \subseteq AboutToSpawn(p)
      BY <1>3, <1>4, <2>7 DEF AboutToSpawn
    <3>3. Cardinality(AboutToSpawn(p)') <= Cardinality(AboutToSpawn(p))
      BY <3>2, SpawningIsFinite, FS_Subset
    <3> QED BY <2>2, <2>3, <2>4, <3>1, <3>3, SpawningIsFinite, SpawningIsFiniteNext
  <2> QED BY <2>5, <2>6, <2>7
<1> QED BY <1>5, <1>8, <1>9 DEF ProfileIInv

(* A launch takes the place its pass had.                                  *)
LEMMA SpawnKeeps ==
  ASSUME ProfileIInv, NEW b \in Passes, Spawn(b)
  PROVE  ProfileIInv'
<1> DEFINE q == pass[b].name
           i == CHOOSE j \in Processes : Unused(q, j)
           r == [pass[b] EXCEPT !.at = "boot", !.process = i]
<1>1. /\ dashboards' = [dashboards EXCEPT ![q] = @ \cup {i}]
      /\ pass' = [pass EXCEPT ![b] = r] /\ pass[b].at = "spawn" /\ unreaped' = unreaped
  BY DEF Spawn
<1> HIDE DEF i
<1>2. PassShapes /\ DashboardTypes /\ RoomForEach /\ IsPass(pass[b])
  BY DEF ProfileIInv, PassShapes
<1>3. IsPass(r) /\ r.at = "boot"
  BY <1>2 DEF IsPass, PassFields
<1> HIDE DEF r
<1>4. PassShapes' /\ \A p \in Profiles : AboutToSpawn(p)' \subseteq AboutToSpawn(p)
  BY <1>1, <1>3, PassMoves
<1>5. pass'[b] = r
  BY <1>1, <1>2 DEF PassShapes
<1>6. \A p \in Profiles : dashboards'[p] = IF p = q THEN dashboards[p] \cup {i} ELSE dashboards[p]
  BY <1>1, <1>2 DEF DashboardTypes
<1> HIDE DEF q
<1>a. ASSUME NEW p \in Profiles
      PROVE  /\ IsFiniteSet(dashboards'[p]) /\ Cardinality(dashboards'[p]) \in Nat
             /\ Cardinality(dashboards'[p]) <= Cardinality(dashboards[p]) + 1
             /\ p # q => dashboards'[p] = dashboards[p]
  <2>1. IsFiniteSet(dashboards[p]) /\ Cardinality(dashboards[p]) \in Nat
    BY <1>2, FS_CardinalityType DEF DashboardTypes
  <2>2. /\ IsFiniteSet(dashboards[p] \cup {i})
        /\ Cardinality(dashboards[p] \cup {i}) = IF i \in dashboards[p] THEN Cardinality(dashboards[p])
                                                 ELSE Cardinality(dashboards[p]) + 1
    BY <2>1, FS_AddElement
  <2>3. dashboards'[p] = dashboards[p] \cup {i} \/ dashboards'[p] = dashboards[p]
    BY <1>6
  <2>4. p # q => dashboards'[p] = dashboards[p]
    BY <1>6
  <2> QED BY <2>1, <2>2, <2>3, <2>4
<1>7. DashboardTypes'
  BY <1>1, <1>2, <1>a DEF DashboardTypes
<1>8. RoomForEach'
  <2>1. SUFFICES ASSUME ReapOrphans, NEW p \in Profiles
                 PROVE  Cardinality(dashboards'[p]) + Cardinality(AboutToSpawn(p)')
                          <= Cardinality(Passes) + unreaped'[p]
    BY DEF RoomForEach
  <2>2. /\ Cardinality(dashboards[p]) \in Nat
        /\ unreaped[p] \in Nat /\ unreaped'[p] = unreaped[p]
    BY <1>1, <1>2, FS_CardinalityType DEF DashboardTypes
  <2>3. Cardinality(dashboards[p]) + Cardinality(AboutToSpawn(p)) <= Cardinality(Passes) + unreaped[p]
    BY <1>2, <2>1 DEF RoomForEach
  <2>4. CASE p = q
    <3>1. b \in AboutToSpawn(p) /\ AboutToSpawn(p)' \subseteq AboutToSpawn(p) \ {b}
      BY <1>1, <1>3, <1>4, <1>5, <2>4 DEF AboutToSpawn, q
    <3>2. /\ IsFiniteSet(AboutToSpawn(p) \ {b})
          /\ Cardinality(AboutToSpawn(p) \ {b}) = Cardinality(AboutToSpawn(p)) - 1
      BY <3>1, SpawningIsFinite, FS_RemoveElement
    <3>3. Cardinality(AboutToSpawn(p)') <= Cardinality(AboutToSpawn(p)) - 1
      BY <3>1, <3>2, FS_Subset
    <3>4. /\ Cardinality(dashboards'[p]) \in Nat
          /\ Cardinality(dashboards'[p]) <= Cardinality(dashboards[p]) + 1
      BY <1>a
    <3> QED BY <2>2, <2>3, <3>3, <3>4, SpawningIsFinite, SpawningIsFiniteNext
  <2>5. CASE p # q
    <3>1. Cardinality(AboutToSpawn(p)') <= Cardinality(AboutToSpawn(p))
      BY <1>4, SpawningIsFinite, FS_Subset
    <3>2. dashboards'[p] = dashboards[p]
      BY <1>a, <2>5
    <3> QED BY <2>2, <2>3, <3>1, <3>2, SpawningIsFinite, SpawningIsFiniteNext
  <2> QED BY <2>4, <2>5
<1> QED BY <1>4, <1>7, <1>8 DEF ProfileIInv

(* ... and every way a launch ends.                                        *)
LEMMA BootEndsKeep ==
  ASSUME ProfileIInv, NEW b \in Passes, Connected(b) \/ Died(b) \/ TimedOut(b) \/ Refused(b)
  PROVE  ProfileIInv'
<1> DEFINE r == [pass[b] EXCEPT !.at = "next", !.name = Nobody, !.process = Nobody]
<1>1. pass' = [pass EXCEPT ![b] = r]
  <2>1. pass' = [pass EXCEPT ![b].at = "next", ![b].name = Nobody, ![b].process = Nobody]
    BY DEF Connected, Died, TimedOut, Refused
  <2> QED BY <2>1 DEF ProfileIInv, PassShapes
<1>2. IsPass(pass[b])
  BY DEF ProfileIInv, PassShapes
<1>3. IsPass(r) /\ r.at = "next"
  BY <1>2 DEF IsPass, PassFields
<1> HIDE DEF r
<1>4. PassShapes' /\ \A p \in Profiles : AboutToSpawn(p)' \subseteq AboutToSpawn(p)
  BY <1>1, <1>3, PassMoves
<1>5. NoneAdded
  <2>1. CASE Connected(b) \/ Died(b)
    BY <2>1, UntouchedAddsNone DEF Connected, Died
  <2>2. CASE TimedOut(b)
    BY <2>2 DEF ProfileIInv, DashboardTypes, NoneAdded, TimedOut
  <2>3. CASE Refused(b)
    BY <2>3, ReapAddsNone, FailedReapAddsNone DEF Refused
  <2> QED BY <2>1, <2>2, <2>3
<1> QED BY <1>4, <1>5, NoMoreLeavesRoom

(* Every step keeps it.                                                    *)
LEMMA ProfileStepKeeps ==
  ASSUME ProfileIInv, [ProfilesNext]_profileVars
  PROVE  ProfileIInv'
<1>1. ASSUME UNCHANGED <<dashboards, pass, unreaped>> PROVE ProfileIInv'
  BY <1>1 DEF ProfileIInv, PassShapes, DashboardTypes, RoomForEach, AboutToSpawn
<1>2. CASE TimerFires
  BY <1>2, BeginKeeps DEF TimerFires, Passes
<1>3. ASSUME NEW r \in Requests, Changes(r) \/ RouteAsks(r) PROVE ProfileIInv'
  BY <1>1, <1>3, BeginKeeps DEF Changes, RouteAsks, Passes
<1>4. CASE ProfilesRestart
  <2>1. UNCHANGED <<dashboards, unreaped>> /\ pass' = [b \in Passes |-> AtRest]
    BY <1>4 DEF ProfilesRestart
  <2>2. PassShapes' /\ \A p \in Profiles : AboutToSpawn(p)' \subseteq AboutToSpawn(p)
    BY <2>1, RestIsPass DEF PassShapes, AboutToSpawn
  <2> QED BY <2>1, <2>2, UntouchedAddsNone, NoMoreLeavesRoom
<1>5. ASSUME NEW p \in Profiles, NEW i \in Processes, Exits(p, i) PROVE ProfileIInv'
  <2>1. dashboards' = [dashboards EXCEPT ![p] = @ \ {i}] /\ pass' = pass /\ unreaped' = unreaped
    BY <1>5 DEF Exits
  <2>2. NoneAdded
    BY <2>1 DEF ProfileIInv, DashboardTypes, NoneAdded
  <2> QED BY <2>1, <2>2, NoMoreLeavesRoom DEF ProfileIInv, PassShapes, AboutToSpawn
<1>6. ASSUME NEW b \in Passes, PassStep(b) PROVE ProfileIInv'
  <2>1. ASSUME NEW p \in Profiles, TearDown(b, p) \/ Launch(b, p) \/ GoneAlready(b, p)
        PROVE  ProfileIInv'
    BY <2>1, TurnKeeps DEF TearDown, Launch, GoneAlready
  <2> QED BY <1>6, <2>1, NextLoopKeeps, StopKeeps, ReapKeeps, SpawnKeeps, BootEndsKeep DEF PassStep
<1> QED BY <1>1, <1>2, <1>3, <1>4, <1>5, <1>6 DEF ProfilesNext, profileVars

(* With a reaper no profile ever has more isolated dashboards than there   *)
(* are passes and launches since its last reap whose own failed, however   *)
(* passes overlap and however often the gateway dies between two steps of  *)
(* one (SubprocessProfileLauncher).                                        *)
THEOREM DashboardsAreFew == ProfilesSpec => []FewDashboards
<1>1. ProfilesInit => ProfileIInv
  BY ProfilesInitIInv
<1>2. ProfileIInv /\ [ProfilesNext]_profileVars => ProfileIInv'
  BY ProfileStepKeeps
<1>3. ProfileIInv => FewDashboards
  <2>1. ASSUME ProfileIInv, ReapOrphans, NEW p \in Profiles
        PROVE  Cardinality(dashboards[p]) <= Cardinality(Passes) + unreaped[p]
    <3>1. Cardinality(dashboards[p]) \in Nat /\ unreaped[p] \in Nat
      BY <2>1, FS_CardinalityType DEF ProfileIInv, DashboardTypes
    <3> QED BY <2>1, <3>1, SpawningIsFinite DEF ProfileIInv, RoomForEach
  <2> QED BY <2>1 DEF FewDashboards
<1> QED BY <1>1, <1>2, <1>3, PTL DEF ProfilesSpec
=============================================================================
