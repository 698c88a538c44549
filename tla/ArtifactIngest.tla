----------------------------- MODULE ArtifactIngest -----------------------------
(***************************************************************************)
(* How files of the sandbox become artifacts                               *)
(* (gateway/domain/artifact_ingest.py, artifact_store.py,                  *)
(* artifact_filing.py).  A file is ingested when a tool that wrote it      *)
(* completes, when a message names it, when a turn turns out to have       *)
(* changed it, or on demand; every way goes through one pipeline that      *)
(* fetches the bytes under a lock and then writes the row.                 *)
(*                                                                         *)
(* A file on disk is its content and the number of times it was written    *)
(* (its size and mtime).  A listing of the tree is taken to be read at one   *)
(* moment.                                                                 *)
(***************************************************************************)
EXTENDS Integers, FiniteSets, Sequences, SequencesExt

CONSTANTS
  Paths,
  Denied,        (* paths the ignore rules refuse                          *)
  Nested,        (* paths below a directory of the root                    *)
  Contents,
  Turns,         (* runs whose boundaries are announced                    *)
  MaxPending,    (* max_pending_runs                                       *)
  MaxWrites,     (* bound: writes to the sandbox                           *)
  MaxAsked,      (* bound: ingestions asked for outside of diffs           *)
  MaxFailures    (* bound: fetches, listings and deliveries that fail      *)

ASSUME ContentsAssumption == "no content" \notin Contents
ASSUME DeniedAssumption == Denied \subseteq Paths /\ Nested \subseteq Paths
ASSUME IngestBounds ==
  /\ MaxPending \in Nat \ {0}
  /\ MaxWrites \in Nat /\ MaxAsked \in Nat /\ MaxFailures \in Nat

NoContent == "no content"
NoTurn == "no turn"
Absent == [content |-> NoContent, writes |-> 0]

VARIABLES
  disk,       \* Hermes: the sandbox
  turns,      \* Hermes: fresh, running or over
  boundaries, \* frames the diff ingestor has not read yet
  deaf,       \* the diff ingestor is between two subscriptions
  starting,   \* _start_tasks: the turns whose first listing is under way
  before,     \* _pending: the first listing of each turn
  order,      \* _pending_order
  finishing,  \* the _handle_completed tasks: what each still has to do
  jobs,       \* ingestions waiting for the lock
  lock,       \* _lock: the job that holds it, if one does, and what it fetched
  rows,       \* artifacts, oldest first
  orphans,    \* turns whose project was deleted
  asked, failures,
  fetched,    \* observed: the last content fetched of each path
  reverted,   \* observed: paths that had some content twice
  skipped,    \* observed: turns whose end found no first listing
  evicted,    \* observed: turns that lost their first listing
  unheard     \* observed: turns with a boundary nobody read

sandbox == <<disk, turns>>
diff == <<boundaries, deaf, starting, before, order, finishing>>
pipeline == <<jobs, lock, rows>>
seen == <<fetched, reverted, skipped, evicted, unheard>>
ingestVars == <<sandbox, diff, pipeline, orphans, asked, failures, seen>>

IngestInit ==
  /\ disk = [p \in Paths |-> Absent]
  /\ turns = [t \in Turns |-> "fresh"]
  /\ boundaries = <<>> /\ deaf = FALSE
  /\ starting = {} /\ order = <<>>
  /\ before = [t \in Turns |-> <<"none">>]
  /\ finishing = {}
  /\ jobs = {} /\ lock = {} /\ rows = <<>>
  /\ orphans = {} /\ asked = 0 /\ failures = 0
  /\ fetched = [p \in Paths |-> NoContent]
  /\ reverted = {} /\ skipped = {} /\ evicted = {} /\ unheard = {}

Writes == FoldFunction(LAMBDA d, n : n + d.writes, 0, disk)
Failing == failures < MaxFailures /\ failures' = failures + 1

-----------------------------------------------------------------------------
(* The sandbox.                                                            *)

Announced(kind, t) ==
  IF deaf THEN /\ unheard' = unheard \cup {t} /\ UNCHANGED boundaries
  ELSE /\ boundaries' = Append(boundaries, [kind |-> kind, turn |-> t]) /\ UNCHANGED unheard

TurnStarts(t) ==
  /\ turns[t] = "fresh"
  /\ turns' = [turns EXCEPT ![t] = "running"]
  /\ Announced("message.started", t)
  /\ UNCHANGED <<disk, deaf, starting, before, order, finishing, pipeline, orphans, asked,
                 failures, fetched, reverted, skipped, evicted>>

TurnEnds(t) ==
  /\ turns[t] = "running"
  /\ turns' = [turns EXCEPT ![t] = "over"]
  /\ Announced("message.completed", t)
  /\ UNCHANGED <<disk, deaf, starting, before, order, finishing, pipeline, orphans, asked,
                 failures, fetched, reverted, skipped, evicted>>

Write(p, c) ==
  /\ Writes < MaxWrites
  /\ \E t \in Turns : turns[t] = "running"
  /\ disk' = [disk EXCEPT ![p] = [content |-> c, writes |-> @.writes + 1]]
  /\ reverted' = IF \E i \in DOMAIN rows : rows[i].path = p /\ rows[i].content = c
                 THEN reverted \cup {p} ELSE reverted
  /\ UNCHANGED <<turns, diff, pipeline, orphans, asked, failures, fetched, skipped, evicted,
                 unheard>>

ProjectDeleted(t) ==
  /\ t \notin orphans
  /\ orphans' = orphans \cup {t}
  /\ UNCHANGED <<sandbox, diff, pipeline, asked, failures, seen>>

-----------------------------------------------------------------------------
(* The pipeline.                                                           *)

Job(p, t, by) == [path |-> p, turn |-> t, by |-> by]

(* denies_file: the operational trees, the ignored folders and names.      *)
Denies(p) == p \in Denied

Asked(p, t, by) ==
  /\ asked < MaxAsked
  /\ t # NoTurn => turns[t] # "fresh"
  /\ disk[p] # Absent
  /\ Job(p, t, by) \notin jobs
  /\ jobs' = jobs \cup {Job(p, t, by)}
  /\ asked' = asked + 1
  /\ UNCHANGED <<sandbox, diff, lock, rows, orphans, failures, seen>>

(* A tool that writes files completes (ArtifactIngestor.observe).          *)
ToolCompletes(p, t) == ~Denies(p) /\ Asked(p, t, "tool")

(* A message names a file (MediaTagIngestor): the ignore rules are only    *)
(* logged.                                                                 *)
MessageNames(p, t) == Asked(p, t, "media")

(* The operator promotes a file.                                           *)
Promote(p) == Asked(p, NoTurn, "promote")

(* Seeded fault: fetches overlap, each is recorded when it is through.     *)
LockedByNobody == TRUE

Unlocked == lock = {}

(* The bytes, or a failure: no answer, a refusal, too many bytes, a store  *)
(* that cannot be written.                                                 *)
Fetch(j, ok) ==
  /\ j \in jobs /\ Unlocked
  /\ jobs' = jobs \ {j}
  /\ lock' = lock \cup {[job |-> j,
                         content |-> IF ok THEN disk[j.path].content ELSE NoContent]}
  /\ IF ok THEN fetched' = [fetched EXCEPT ![j.path] = disk[j.path].content] /\ UNCHANGED failures
     ELSE Failing /\ UNCHANGED fetched
  /\ UNCHANGED <<sandbox, diff, rows, orphans, asked, reverted, skipped, evicted, unheard>>

Of(p) == {i \in DOMAIN rows : rows[i].path = p}
Same(p, c) == {i \in Of(p) : rows[i].content = c}
NewestOf(S) == CHOOSE i \in S : \A j \in S : j <= i

(* A row takes the turn it was made by, unless it has one, or the insert   *)
(* of the turn's project violates a foreign key.                           *)
Provenance(had, t) == IF had # NoTurn \/ t \in orphans THEN had ELSE t

NewRow(p, c, t, tagged) ==
  Append(rows, [path |-> p, content |-> c, turn |-> Provenance(NoTurn, t), tagged |-> tagged])

(* _write_success_row and _write_failure_row: the row of this very version,*)
(* else the one that is waiting for its bytes, else a new one; only a new  *)
(* row with its bytes is tagged after its folders.                         *)
Written(p, c, t) ==
  LET waiting == Same(p, NoContent)
      row == IF Same(p, c) # {} THEN NewestOf(Same(p, c))
             ELSE IF waiting # {} THEN NewestOf(waiting) ELSE 0
  IN IF row = 0 THEN NewRow(p, c, t, c # NoContent)
     ELSE [rows EXCEPT ![row].content = c, ![row].turn = Provenance(@, t)]

Record(h) ==
  /\ rows' = Written(h.job.path, h.content, h.job.turn)
  /\ lock' = lock \ {h}
  /\ UNCHANGED <<sandbox, diff, jobs, orphans, asked, failures, seen>>

(* The operator takes an automatic tag off.                                *)
Untag(i) ==
  /\ rows[i].tagged
  /\ rows' = [rows EXCEPT ![i].tagged = FALSE]
  /\ UNCHANGED <<sandbox, diff, jobs, lock, orphans, asked, failures, seen>>

-----------------------------------------------------------------------------
(* The diff of a turn (SandboxDiffIngestor).                               *)

(* The subscriber's queue overflows: what is in it is lost, and what comes *)
(* before it has subscribed again.                                         *)
Desynchronized ==
  /\ ~deaf /\ boundaries # <<>> /\ Failing
  /\ deaf' = TRUE
  /\ boundaries' = <<>>
  /\ unheard' = unheard \cup {b.turn : b \in Range(boundaries)}
  /\ UNCHANGED <<sandbox, starting, before, order, finishing, pipeline, orphans, asked,
                 fetched, reverted, skipped, evicted>>

Resubscribe ==
  /\ deaf
  /\ deaf' = FALSE
  /\ UNCHANGED <<sandbox, boundaries, starting, before, order, finishing, pipeline, orphans,
                 asked, failures, seen>>

(* observe: each boundary becomes a task.                                  *)
Observe ==
  /\ boundaries # <<>>
  /\ LET b == Head(boundaries)
     IN IF b.kind = "message.started"
        THEN starting' = starting \cup {b.turn} /\ UNCHANGED finishing
        ELSE finishing' = finishing \cup {[turn |-> b.turn, first |-> <<"none">>, todo |-> {}]}
             /\ UNCHANGED starting
  /\ boundaries' = Tail(boundaries)
  /\ UNCHANGED <<sandbox, deaf, before, order, pipeline, orphans, asked, failures, seen>>

(* _snapshot: a directory that cannot be listed leaves its files out, and  *)
(* without the root there is no listing.                                   *)
Answers == {"all", "without a directory", "none"}

Listing(answer) ==
  IF answer = "none" THEN <<"failed">>
  ELSE <<"listed", [p \in Paths |-> IF answer # "all" /\ p \in Nested THEN Absent ELSE disk[p]]>>

Answered(answer) == IF answer = "all" THEN UNCHANGED failures ELSE Failing

(* _handle_started, with the eviction of the oldest.                       *)
Started(t, answer) ==
  /\ t \in starting
  /\ Answered(answer)
  /\ starting' = starting \ {t}
  /\ LET all == Append(order, t)
         out == IF Len(all) > MaxPending THEN {Head(all)} ELSE {}
     IN /\ order' = IF out = {} THEN all ELSE Tail(all)
        /\ before' = [u \in Turns |-> IF u \in out THEN <<"none">>
                                      ELSE IF u = t THEN Listing(answer) ELSE before[u]]
        /\ evicted' = evicted \cup out
  /\ UNCHANGED <<sandbox, boundaries, deaf, finishing, pipeline, orphans, asked, fetched,
                 reverted, skipped, unheard>>

(* Seeded fault: the first listing is not waited for.                      *)
MayFinishAtOnce(t) == TRUE

MayFinish(t) == t \notin starting

(* _handle_completed, up to the second listing: nothing without a first.   *)
Completed(d) ==
  /\ d \in finishing /\ d.first = <<"none">> /\ MayFinish(d.turn)
  /\ order' = SelectSeq(order, LAMBDA u : u # d.turn)
  /\ before' = [before EXCEPT ![d.turn] = <<"none">>]
  /\ skipped' = IF before[d.turn] = <<"none">> THEN skipped \cup {d.turn} ELSE skipped
  /\ finishing' = (finishing \ {d}) \cup
       IF Len(before[d.turn]) = 2 THEN {[d EXCEPT !.first = before[d.turn]]} ELSE {}
  /\ UNCHANGED <<sandbox, boundaries, deaf, starting, pipeline, orphans, asked, failures,
                 fetched, reverted, evicted, unheard>>

(* _new_or_changed_paths.                                                  *)
NewOrChanged(first, second) == {p \in Paths : second[p] # Absent /\ first[p] # second[p]}

(* The second listing; the files are then ingested one by one.             *)
Compared(d, answer) ==
  /\ d \in finishing /\ Len(d.first) = 2 /\ d.todo = {}
  /\ Answered(answer)
  /\ LET second == Listing(answer)
         todo == {p \in NewOrChanged(d.first[2], second[2]) : ~Denies(p)}
     IN finishing' = (finishing \ {d}) \cup
          IF Len(second) = 1 THEN {}
          ELSE {[turn |-> d.turn, first |-> <<"compared", second[2], d.first[2]>>, todo |-> todo]}
  /\ UNCHANGED <<sandbox, boundaries, deaf, starting, before, order, pipeline, orphans, asked,
                 fetched, reverted, skipped, evicted, unheard>>

Working(d) == \E j \in jobs \cup {h.job : h \in lock} :
                j.turn = d.turn /\ j.by = "diff"

IngestOne(d, p) ==
  /\ d \in finishing /\ Len(d.first) = 3 /\ p \in d.todo /\ ~Working(d)
  /\ jobs' = jobs \cup {Job(p, d.turn, "diff")}
  /\ finishing' = (finishing \ {d}) \cup {[d EXCEPT !.todo = @ \ {p}]}
  /\ UNCHANGED <<sandbox, boundaries, deaf, starting, before, order, lock, rows, orphans,
                 asked, failures, seen>>

Done(d) == Len(d.first) = 3 /\ d.todo = {} /\ ~Working(d)

DiffEnds(d) ==
  /\ d \in finishing /\ Done(d)
  /\ finishing' = finishing \ {d}
  /\ UNCHANGED <<sandbox, boundaries, deaf, starting, before, order, pipeline, orphans, asked,
                 failures, seen>>

IngestNext ==
  \/ \E t \in Turns : TurnStarts(t) \/ TurnEnds(t) \/ ProjectDeleted(t)
  \/ \E p \in Paths, c \in Contents : Write(p, c)
  \/ \E p \in Paths, t \in Turns : ToolCompletes(p, t) \/ MessageNames(p, t)
  \/ \E p \in Paths : Promote(p)
  \/ \E j \in jobs, ok \in BOOLEAN : Fetch(j, ok)
  \/ \E h \in lock : Record(h)
  \/ \E i \in DOMAIN rows : Untag(i)
  \/ Desynchronized \/ Resubscribe \/ Observe
  \/ \E t \in Turns, answer \in Answers : Started(t, answer)
  \/ \E d \in finishing :
       \/ Completed(d) \/ DiffEnds(d)
       \/ \E answer \in Answers : Compared(d, answer)
       \/ \E p \in Paths : IngestOne(d, p)

IngestSpec == IngestInit /\ [][IngestNext]_ingestVars

-----------------------------------------------------------------------------
(* The artifacts of a path are its versions.  Of each there is one, and at *)
(* most one that waits for its bytes, whoever asked for the file and       *)
(* whatever failed in between (the deduplication of _write_success_row);   *)
(* and the newest has what was fetched last, so a listing of latest        *)
(* versions shows it, unless the file went back to an earlier version:     *)
(* fetches and rows cannot overtake each other (ArtifactIngestor.ingest).  *)
ArtifactsAreVersions ==
  /\ \A i, j \in DOMAIN rows :
       rows[i].path = rows[j].path /\ rows[i].content = rows[j].content => i = j
  /\ \A p \in Paths \ reverted :
       LET whole == {i \in Of(p) : rows[i].content # NoContent}
       IN whole # {} /\ p \notin {h.job.path : h \in lock}
            => rows[NewestOf(whole)].content = fetched[p]

(* The end of a turn is compared with its beginning whenever both were     *)
(* announced to the ingestor and the beginning was not evicted; and when   *)
(* the comparison is done every file that changed in between and that the  *)
(* ignore rules allow has an artifact of what it had become, or one that   *)
(* waits for its bytes, unless it was written again since.                 *)
TurnsAreDiffed ==
  /\ skipped \subseteq evicted \cup unheard
  /\ \A d \in finishing : Done(d) =>
       \A p \in Paths \ Denied :
         d.first[2][p] # d.first[3][p] =>
           \/ disk[p] # d.first[2][p]
           \/ \E i \in Of(p) : rows[i].content \in {disk[p].content, NoContent}

=============================================================================
