------------------------ MODULE AttachmentOrchestrator ------------------------
(***************************************************************************)
(* Composer attachments: the upload and serve routes                       *)
(* (gateway/api/attachments.py) and the task that brings the bytes into    *)
(* the sandbox (gateway/domain/attachment_orchestrator.py).                *)
(*                                                                         *)
(* Without direct delivery the task asks the agent of the session to fetch *)
(* the file with a turn, polls the sandbox until the copy is byte-exact or *)
(* the deadline passes, and for an image issues image.attach.  The turn    *)
(* runs in Hermes when it likes: before, during or after the polling, or   *)
(* never.                                                                  *)
(***************************************************************************)
EXTENDS Integers, FiniteSets

CONSTANTS
  Attachments,   (* attachment ids                                         *)
  Images,        (* those of an image MIME type (kind_for_mime)            *)
  MaxStops,      (* bound: shutdowns and crashes of the gateway            *)
  MaxUploadFailures (* bound: writes that fail, failed startup sweeps      *)

ASSUME ImagesAssumption == Images \subseteq Attachments
ASSUME UploadBounds == MaxStops \in Nat /\ MaxUploadFailures \in Nat

VARIABLES
  direct,     \* whether the gateway can write into the sandbox itself
  row,        \* attachments table: the state of each row
  task,       \* where the task of each attachment is
  up,         \* whether the gateway process runs
  fetch,      \* Hermes: the fetch turn
  sandboxCopy,  \* the file in the sandbox
  shown,      \* Hermes: images attached to their session
  abandoned,  \* observed: rows left in flight by a write that failed
  stops, uploadFailures   \* observed: how often so far

outside == <<fetch, sandboxCopy, shown>>
uploadVars == <<direct, row, task, up, outside, abandoned, stops, uploadFailures>>

InFlight == {"uploaded", "priming", "attaching"}
Terminal == {"attached", "failed", "orphaned"}

UploadInit ==
  /\ direct \in BOOLEAN
  /\ row = [a \in Attachments |-> "none"]
  /\ task = [a \in Attachments |-> "none"]
  /\ up = TRUE
  /\ fetch = [a \in Attachments |-> "none"]
  /\ sandboxCopy = [a \in Attachments |-> "absent"]
  /\ shown = {}
  /\ abandoned = {}
  /\ stops = 0
  /\ uploadFailures = 0

-----------------------------------------------------------------------------
(* The task.                                                               *)

Put(a, state, stage) ==
  /\ row' = [row EXCEPT ![a] = state]
  /\ task' = [task EXCEPT ![a] = stage]

(* upload_attachment, for a file that is neither empty nor too large: the  *)
(* bytes, the row and the task, which has not begun.                       *)
Upload(a) ==
  /\ up
  /\ row[a] = "none"
  /\ Put(a, "uploaded", "scheduled")
  /\ UNCHANGED <<direct, up, outside, abandoned, stops, uploadFailures>>

(* _attach_and_finish: a document is attached by its path; an image needs  *)
(* one more call.                                                          *)
AttachAndFinish(a) ==
  IF a \in Images THEN Put(a, "attaching", "calling") ELSE Put(a, "attached", "none")

(* The task begins; with direct delivery it writes the file and goes on    *)
(* without an await, else it submits the fetch turn.                       *)
UploadBegin(a, delivered) ==
  /\ task[a] = "scheduled"
  /\ IF direct
     THEN /\ sandboxCopy' = IF delivered THEN [sandboxCopy EXCEPT ![a] = "exact"] ELSE sandboxCopy
          /\ IF delivered THEN AttachAndFinish(a) ELSE Put(a, "failed", "none")
     ELSE /\ Put(a, "priming", "submitting")
          /\ UNCHANGED sandboxCopy
  /\ UNCHANGED <<direct, up, fetch, shown, abandoned, stops, uploadFailures>>

(* prompt.submit: an error does not mean the turn was not queued.          *)
Submit(a, ok, queued) ==
  /\ task[a] = "submitting"
  /\ ok => queued
  /\ fetch' = IF queued THEN [fetch EXCEPT ![a] = "queued"] ELSE fetch
  /\ IF ok THEN Put(a, "priming", "polling") ELSE Put(a, "failed", "none")
  /\ UNCHANGED <<direct, up, sandboxCopy, shown, abandoned, stops, uploadFailures>>

(* What one probe of _poll_verify accepts: size and checksum.              *)
Verified(a) == sandboxCopy[a] = "exact"

(* A probe that does not verify changes nothing, and another follows.      *)
Probe(a) ==
  /\ task[a] = "polling"
  /\ Verified(a)
  /\ AttachAndFinish(a)
  /\ UNCHANGED <<direct, up, outside, abandoned, stops, uploadFailures>>

(* The deadline passes, whatever became of the fetch turn.                 *)
Expire(a) ==
  /\ task[a] = "polling"
  /\ Put(a, "failed", "none")
  /\ UNCHANGED <<direct, up, outside, abandoned, stops, uploadFailures>>

(* Only attached = true confirms.                                          *)
Confirmed(answer) == answer = "attached"

(* image.attach; an error may hide an image that was attached.             *)
AttachImage(a, answer, applied) ==
  /\ task[a] = "calling"
  /\ CASE answer = "attached" -> applied
       [] answer = "refused"  -> ~applied
       [] OTHER -> TRUE
  /\ shown' = IF applied THEN shown \cup {a} ELSE shown
  /\ Put(a, IF Confirmed(answer) THEN "attached" ELSE "failed", "none")
  /\ UNCHANGED <<direct, up, fetch, sandboxCopy, abandoned, stops, uploadFailures>>

(* A write of the running task fails: _run takes the exception and writes  *)
(* failed, unless that write fails as well.                                *)
CrashTask(a, written) ==
  /\ task[a] \in {"scheduled", "submitting", "polling", "calling"}
  /\ uploadFailures + (IF written THEN 1 ELSE 2) <= MaxUploadFailures
  /\ uploadFailures' = uploadFailures + (IF written THEN 1 ELSE 2)
  /\ Put(a, IF written THEN "failed" ELSE row[a], "none")
  /\ abandoned' = IF written THEN abandoned ELSE abandoned \cup {a}
  /\ UNCHANGED <<direct, up, outside, stops>>

-----------------------------------------------------------------------------
(* The agent's turn.                                                       *)

(* Seeded fault: the link serves whoever holds it, for ever.               *)
ServesAlways(a) == up /\ row[a] # "none"

(* serve_attachment: the link dies with the row's terminal state.          *)
Serves(a) == up /\ row[a] \in InFlight

(* The turn runs curl, which opens its file with the first bytes only.     *)
FetchBegin(a) ==
  /\ fetch[a] = "queued"
  /\ fetch' = [fetch EXCEPT ![a] = IF Serves(a) THEN "streaming" ELSE "over"]
  /\ sandboxCopy' = IF Serves(a) THEN [sandboxCopy EXCEPT ![a] = "partial"] ELSE sandboxCopy
  /\ UNCHANGED <<direct, row, task, up, shown, abandoned, stops, uploadFailures>>

(* The download ends: whole, or broken off.                                *)
FetchEnd(a, whole) ==
  /\ fetch[a] = "streaming"
  /\ whole => up
  /\ fetch' = [fetch EXCEPT ![a] = "over"]
  /\ sandboxCopy' = IF whole THEN [sandboxCopy EXCEPT ![a] = "exact"] ELSE sandboxCopy
  /\ UNCHANGED <<direct, row, task, up, shown, abandoned, stops, uploadFailures>>

-----------------------------------------------------------------------------
(* The process.                                                            *)

(* close cancels the tasks; one that has not begun never runs, so that     *)
(* _run orphans the others only.                                           *)
Cancelled(a) == IF task[a] \in {"none", "scheduled"} THEN row[a] ELSE "orphaned"

(* A shutdown cancels; a crash does not.  Requests in flight end with it.  *)
GatewayStops(clean) ==
  /\ up
  /\ stops < MaxStops
  /\ stops' = stops + 1
  /\ up' = FALSE
  /\ row' = IF clean THEN [a \in Attachments |-> Cancelled(a)] ELSE row
  /\ task' = [a \in Attachments |-> "none"]
  /\ fetch' \in [Attachments -> {"none", "queued", "streaming", "over"}]
  /\ \A a \in Attachments :
       fetch'[a] = fetch[a] \/ (task[a] = "submitting" /\ fetch'[a] = "queued")
  /\ shown' \in SUBSET Attachments
  /\ shown \subseteq shown' /\ \A a \in shown' \ shown : task[a] = "calling"
  /\ UNCHANGED <<direct, sandboxCopy, abandoned, uploadFailures>>

(* Seeded fault: the sweep takes the rows for in flight that say so.       *)
OrphanedBegun(a) == IF row[a] \in {"priming", "attaching"} THEN "orphaned" ELSE row[a]

(* orphan_on_startup                                                       *)
Orphaned(a) == IF row[a] \in InFlight THEN "orphaned" ELSE row[a]

(* Before the first request; the sweep's failure is logged and forgotten.  *)
Startup(swept) ==
  /\ ~up
  /\ up' = TRUE
  /\ uploadFailures' = uploadFailures + (IF swept THEN 0 ELSE 1)
  /\ uploadFailures' <= MaxUploadFailures
  /\ row' = IF swept THEN [a \in Attachments |-> Orphaned(a)] ELSE row
  /\ abandoned' = IF swept THEN {} ELSE {a \in Attachments : row[a] \in InFlight}
  /\ UNCHANGED <<direct, task, outside, stops>>

TaskStep(a) ==
  \/ \E delivered \in BOOLEAN : UploadBegin(a, delivered)
  \/ \E ok, queued \in BOOLEAN : Submit(a, ok, queued)
  \/ Probe(a)
  \/ Expire(a)
  \/ \E answer \in {"attached", "refused", "error"}, applied \in BOOLEAN :
       AttachImage(a, answer, applied)
  \/ \E written \in BOOLEAN : CrashTask(a, written)

UploadNext ==
  \/ \E a \in Attachments : \/ Upload(a)
                            \/ TaskStep(a)
                            \/ FetchBegin(a)
                            \/ \E whole \in BOOLEAN : FetchEnd(a, whole)
  \/ \E clean \in BOOLEAN : GatewayStops(clean)
  \/ \E swept \in BOOLEAN : Startup(swept)

UploadSpec == UploadInit /\ [][UploadNext]_uploadVars

(* The task's awaits end, by an answer, an error or the deadline, and a    *)
(* stopped gateway is started again.  Nothing makes the agent fetch.       *)
UploadFair ==
  UploadSpec /\ WF_uploadVars(\E swept \in BOOLEAN : Startup(swept))
       /\ \A a \in Attachments : WF_uploadVars(TaskStep(a))

-----------------------------------------------------------------------------
(* Properties.                                                             *)

(* What the app refers the agent to exists: an attached document lies in   *)
(* the sandbox byte for byte, and an attached image is in its session,     *)
(* whichever turn, download, deadline or restart came between; and the     *)
(* token in the transcript is dead once the row has ended: from then on    *)
(* the row stays as it is and no copy comes into being that was not under  *)
(* way.                                                                    *)
AttachedIsThere ==
  [][\A a \in Attachments :
       /\ row'[a] = "attached" =>
            sandboxCopy'[a] = "exact" /\ (a \in Images => a \in shown')
       /\ row[a] \in Terminal => row'[a] = row[a]
       /\ row[a] \in Terminal /\ fetch[a] # "streaming" =>
            sandboxCopy'[a] = sandboxCopy[a]]_uploadVars

(* Every upload comes to an end the app can see, although the fetch turn   *)
(* may never run: the deadline and the startup sweep see to it.            *)
UploadsEnd ==
  \A a \in Attachments : row[a] \in InFlight ~> (row[a] \in Terminal \/ a \in abandoned)
=============================================================================
