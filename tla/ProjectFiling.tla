----------------------------- MODULE ProjectFiling -----------------------------
(***************************************************************************)
(* Which Hermes session is filed in which project, and what else refers to *)
(* projects and filings (gateway/api/projects.py, the creation of a filed  *)
(* session in gateway/api/sessions.py, forks and deletions in              *)
(* gateway/api/instance.py).  A handler that does not wait for Hermes is   *)
(* one action: it runs in the event loop with one transaction.             *)
(*                                                                         *)
(* The tables have foreign keys, and SQLite enforces them: a delete that   *)
(* would leave a reference behind is refused, an insert of one as well.    *)
(***************************************************************************)
EXTENDS Integers, FiniteSets, Sequences, SequencesExt

CONSTANTS
  Projects,     (* projects that may be created, each once                 *)
  Sessions,     (* stored sessions, each of one profile                    *)
  Profiles,
  DefaultProfile,
  Home,         (* the profile of each session                             *)
  MaxFilings,   (* bound: filings over time                                *)
  MaxRuns,      (* bound: recorded runs                                    *)
  MaxFiles,     (* bound: ingested artifacts                               *)
  MaxCopies,    (* bound: snapshots                                        *)
  MaxRequests   (* bound: creations and forks under way at once            *)

ASSUME HomeAssumption == Home \in [Sessions -> Profiles]
ASSUME DefaultAssumption == DefaultProfile \in Profiles
ASSUME FilingBounds == MaxFilings \in Nat /\ MaxRuns \in Nat /\ MaxFiles \in Nat
                /\ MaxCopies \in Nat /\ MaxRequests \in Nat

NoProject == "no project"
NoFiling == 0
NoRun == 0
NoListing == [project |-> NoProject]

VARIABLES
  projects,   \* projects: the live ones
  made,       \* projects ever created
  filings,    \* sessions: the rows that file a session in a project
  lastFiling, \* the id of the newest filing
  runs,       \* runs: by id; stamp is the project the recorder remembers
  files,      \* artifacts: by id
  copies,     \* session_snapshots: session and project
  store,      \* Hermes: whether each session exists
  creating,   \* create_and_file_session requests under way
  forking,    \* fork_session requests under way
  listing     \* the list_project_sessions request under way

references == <<runs, files, copies>>
requests == <<creating, forking>>
Busy == Cardinality(creating) + Cardinality(forking) >= MaxRequests
filingVars == <<projects, made, filings, lastFiling, references, store, requests,
                listing>>

FilingInit ==
  /\ projects = {} /\ made = {}
  /\ filings = {} /\ lastFiling = 0
  /\ runs = <<>> /\ files = <<>>
  /\ copies = {}
  /\ store = [s \in Sessions |-> "none"]
  /\ creating = {} /\ forking = {}
  /\ listing = NoListing

FilingOf(s) == {f \in filings : f.session = s}

(* file_stored_session: a new row when the session has none; a row there   *)
(* is in answers the request (the same project) or refuses it (another),   *)
(* and so is a project that is gone.                                       *)
FileStored(s, p) ==
  IF FilingOf(s) # {} \/ p \notin projects
  THEN UNCHANGED <<filings, lastFiling>>
  ELSE /\ lastFiling < MaxFilings
       /\ lastFiling' = lastFiling + 1
       /\ filings' = filings \cup {[id |-> lastFiling', session |-> s, project |-> p]}

-----------------------------------------------------------------------------
(* Projects.                                                               *)

CreateProject(p) ==
  /\ p \notin made
  /\ made' = made \cup {p}
  /\ projects' = projects \cup {p}
  /\ UNCHANGED <<filings, lastFiling, references, store, requests, listing>>

Detached(r, gone) == IF r.filing \in gone THEN [r EXCEPT !.filing = NoFiling] ELSE r

(* Seeded fault: only the runs recorded in the project are detached.       *)
DetachedFromRecorded(r, p) ==
  IF r.project = p THEN [r EXCEPT !.project = NoProject, !.filing = NoFiling] ELSE r

(* The runs recorded in the project, and those of sessions filed in it now.*)
DetachedFrom(r, p) ==
  IF r.project = p THEN [r EXCEPT !.project = NoProject, !.filing = NoFiling]
  ELSE Detached(r, {f.id : f \in {g \in filings : g.project = p}})

DeleteProject(p) ==
  /\ p \in projects
  /\ projects' = projects \ {p}
  /\ filings' = {f \in filings : f.project # p}
  /\ runs' = [i \in DOMAIN runs |-> DetachedFrom(runs[i], p)]
  /\ files' = [i \in DOMAIN files |->
                IF files[i].project = p THEN [files[i] EXCEPT !.project = NoProject] ELSE files[i]]
  /\ copies' = {IF c.project = p THEN [c EXCEPT !.project = NoProject] ELSE c : c \in copies}
  /\ UNCHANGED <<made, lastFiling, store, requests, listing>>

-----------------------------------------------------------------------------
(* Filing.                                                                 *)

FileSession(s, p) ==
  /\ store[s] # "none" /\ p \in projects
  /\ FilingOf(s) = {}
  /\ FileStored(s, p)
  /\ UNCHANGED <<projects, made, references, store, requests, listing>>

MoveFiledSession(s, p) ==
  /\ p \in projects
  /\ \E f \in FilingOf(s) :
       /\ f.project # p
       /\ filings' = (filings \ {f}) \cup {[f EXCEPT !.project = p]}
  /\ UNCHANGED <<projects, made, lastFiling, references, store, requests, listing>>

(* unfile_session, and the cleanup after a session is deleted from Hermes. *)
UnfileSession(s) ==
  /\ FilingOf(s) # {}
  /\ filings' = filings \ FilingOf(s)
  /\ runs' = [i \in DOMAIN runs |-> Detached(runs[i], {f.id : f \in FilingOf(s)})]
  /\ UNCHANGED <<projects, made, lastFiling, files, copies, store, requests,
                 listing>>

(* The project is looked up first, the session filed after Hermes made it. *)
CreateAsks(s, p) ==
  /\ p \in projects /\ store[s] = "none"
  /\ ~Busy /\ \A c \in creating : c.session # s
  /\ creating' = creating \cup {[session |-> s, project |-> p]}
  /\ UNCHANGED <<projects, made, filings, lastFiling, references, store, forking,
                 listing>>

HermesCreates(c) ==
  /\ store[c.session] = "none"
  /\ store' = [store EXCEPT ![c.session] = "there"]
  /\ UNCHANGED <<projects, made, filings, lastFiling, references, requests, listing>>

CreateFiles(c) ==
  /\ store[c.session] # "none"
  /\ creating' = creating \ {c}
  /\ FileStored(c.session, c.project)
  /\ UNCHANGED <<projects, made, references, store, forking, listing>>

(* session.branch, then _file_fork_with_its_parent: the parent's project   *)
(* as it is after the branch.                                              *)
HermesBranches(parent, s) ==
  /\ store[parent] = "there" /\ store[s] = "none" /\ Home[s] = Home[parent]
  /\ ~Busy /\ \A c \in creating : c.session # s
  /\ store' = [store EXCEPT ![s] = "there"]
  /\ forking' = forking \cup {[parent |-> parent, session |-> s]}
  /\ UNCHANGED <<projects, made, filings, lastFiling, references, creating, listing>>

ForkFiles(k) ==
  /\ forking' = forking \ {k}
  /\ IF FilingOf(k.parent) = {} THEN UNCHANGED <<filings, lastFiling>>
     ELSE \E f \in FilingOf(k.parent) : FileStored(k.session, f.project)
  /\ UNCHANGED <<projects, made, references, store, creating, listing>>

(* A session goes for good: through the gateway, whose cleanup is          *)
(* UnfileSession, or by another client.                                    *)
HermesDeletes(s) ==
  /\ store[s] = "there"
  /\ store' = [store EXCEPT ![s] = "deleted"]
  /\ UNCHANGED <<projects, made, filings, lastFiling, references, requests, listing>>

-----------------------------------------------------------------------------
(* What refers to projects and filings.                                    *)

ProjectOf(s) == IF FilingOf(s) = {} THEN NoProject
                ELSE (CHOOSE f \in FilingOf(s) : TRUE).project

(* _open_run_in.                                                           *)
OpenRun(s) ==
  /\ store[s] = "there" /\ Len(runs) < MaxRuns
  /\ runs' = Append(runs, [session |-> s, project |-> ProjectOf(s), stamp |-> ProjectOf(s),
                           filing |-> IF FilingOf(s) = {} THEN NoFiling
                                      ELSE (CHOOSE f \in FilingOf(s) : TRUE).id])
  /\ UNCHANGED <<projects, made, filings, lastFiling, files, copies, store, requests,
                 listing>>

(* A file of a run is ingested with the project its frame was stamped with;*)
(* when that is gone, without any provenance.                              *)
Ingest(r) ==
  /\ Len(files) < MaxFiles
  /\ files' = Append(files,
       IF runs[r].stamp \in projects \cup {NoProject}
       THEN [project |-> runs[r].stamp, run |-> r]
       ELSE [project |-> NoProject, run |-> NoRun])
  /\ UNCHANGED <<projects, made, filings, lastFiling, runs, copies, store, requests,
                 listing>>

(* A snapshot is filed where its session is.                               *)
Copy(s) ==
  /\ store[s] = "there" /\ Cardinality(copies) < MaxCopies
  /\ [session |-> s, project |-> ProjectOf(s)] \notin copies
  /\ copies' = copies \cup {[session |-> s, project |-> ProjectOf(s)]}
  /\ UNCHANGED <<projects, made, filings, lastFiling, runs, files, store, requests,
                 listing>>

-----------------------------------------------------------------------------
(* list_project_sessions.                                                  *)

FiledIn(p) == {f.session : f \in {g \in filings : g.project = p}}

(* The rows are read, then the profiles of the filed ones are asked, the   *)
(* default one when there is none.                                         *)
ListReads(p) ==
  /\ listing = NoListing /\ p \in projects
  /\ listing' = [project |-> p,
                 rows    |-> FiledIn(p),
                 orphans |-> {c.session : c \in {d \in copies : d.project = p}} \ FiledIn(p),
                 ask     |-> IF FiledIn(p) = {} THEN {DefaultProfile}
                             ELSE {Home[s] : s \in FiledIn(p)},
                 index   |-> {},
                 checked |-> {}]
  /\ UNCHANGED <<projects, made, filings, lastFiling, references, store, requests>>

(* One profile's sessions, or none: Hermes does not know the profile or    *)
(* cannot be asked.                                                        *)
ListAsks(f, ok) ==
  /\ listing # NoListing /\ f \in listing.ask
  /\ listing' = [listing EXCEPT
       !.ask = @ \ {f},
       !.checked = IF ok THEN @ \cup {f} ELSE @,
       !.index = IF ok THEN @ \cup {s \in Sessions : store[s] = "there" /\ Home[s] = f} ELSE @]
  /\ UNCHANGED <<projects, made, filings, lastFiling, references, store, requests>>

AllAnswered == listing # NoListing /\ listing.ask = {}

(* Seeded fault: any profile that was listed stands for all.               *)
MissingByAny == {s \in listing.rows : listing.checked # {} /\ s \notin listing.index}

Missing == {s \in listing.rows : Home[s] \in listing.checked /\ s \notin listing.index}

(* The rows of copies without a filing are judged by whether any profile   *)
(* was listed.                                                             *)
Deleted == {s \in listing.orphans : listing.checked # {} /\ s \notin listing.index}

ListAnswers ==
  /\ AllAnswered
  /\ listing' = NoListing
  /\ UNCHANGED <<projects, made, filings, lastFiling, references, store, requests>>

FilingNext ==
  \/ \E p \in Projects :
       \/ CreateProject(p) \/ DeleteProject(p)
       \/ \E s \in Sessions : FileSession(s, p) \/ MoveFiledSession(s, p) \/ CreateAsks(s, p)
       \/ ListReads(p)
  \/ \E s \in Sessions : UnfileSession(s) \/ HermesDeletes(s) \/ OpenRun(s) \/ Copy(s)
  \/ \E s, t \in Sessions : HermesBranches(s, t)
  \/ \E c \in creating : HermesCreates(c) \/ CreateFiles(c)
  \/ \E k \in forking : ForkFiles(k)
  \/ \E r \in DOMAIN runs : Ingest(r)
  \/ \E f \in Profiles, ok \in BOOLEAN : ListAsks(f, ok)
  \/ ListAnswers

FilingSpec == FilingInit /\ [][FilingNext]_filingVars

-----------------------------------------------------------------------------
(* No row refers to a project or a filing that is gone, so every delete    *)
(* goes through: a session's runs may have been recorded under the project *)
(* it was in before it was moved (delete_project: "Runs must be detached   *)
(* before the delete; the FKs are enforced and would refuse it otherwise").*)
NothingDangles ==
  LET known == projects \cup {NoProject}
  IN /\ \A f \in filings : f.project \in projects
     /\ \A i \in DOMAIN runs :
          /\ runs[i].project \in known
          /\ runs[i].filing \in {NoFiling} \cup {f.id : f \in filings}
     /\ \A i \in DOMAIN files : files[i].project \in known
     /\ \A c \in copies : c.project \in known

(* "missing is None means Hermes was unreachable, which is not the same as *)
(* gone" (is_archived): a filed session that a listing reports missing is  *)
(* gone from Hermes, not merely in a profile that could not be listed,     *)
(* however the rows changed while Hermes was asked.  Of a session that     *)
(* only has a copy this holds when every profile was listed.               *)
MissingIsGone ==
  AllAnswered =>
    /\ \A s \in Missing : store[s] = "deleted"
    /\ listing.checked = Profiles => \A s \in Deleted : store[s] = "deleted"
=============================================================================
