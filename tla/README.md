# Verification of the Astation gateway

Astation's gateway (`src/gateway`) stands between a mobile app and Hermes, an
agent host. It keeps one WebSocket to Hermes (and one for each further
profile), fans Hermes' events out to the apps over `/events`, and keeps records
of its own (runs, background tasks, a chat transcript, snapshots, attachments,
artifacts, projects) in SQLite, because neither Hermes nor the sockets remember
anything across a reconnect. A plugin in Hermes' process adds hooks and an audit
trail.

Nearly everything that can go wrong in it is an *order*: of frames and
reconnects, of a coroutine's two halves around an `await`, of three commits in
two databases around a crash, of two pages of a listing around a save. The
modules here model that; TLC checks them on small instances, and TLAPS proves
their safety for instances of every size.

    component             modules                                    checked by   proved in
    event stream          StreamContract, EventBroadcaster           stream       EventBroadcasterProofs
    run recorder          RunRecorder                                records      RunRecorderProofs
    durable capture       DurableCapture                             capture, late_claim   DurableCaptureProofs
    background tasks      BackgroundLedger                           background   BackgroundLedgerProofs
    hooks and audit       HookCapture                                background   BackgroundLedgerProofs
    connection, handles   CallContract, HermesConnection             calls        HermesConnectionProofs
    prompts in the chat   ChatPrompts                                service      ServiceProofs
    reasoning             Reasoning                                  records, shown_twice   RunRecorderProofs
    snapshots             Snapshots                                  upkeep, snapshots_starved   UpkeepProofs
    attachments           AttachmentOrchestrator                     upkeep       UpkeepProofs
    profile connections   ProfileConnections                         upkeep       UpkeepProofs
    projects              ProjectFiling                              library      LibraryProofs
    reading the library   ArtifactListing                            library      LibraryProofs
    artifacts             ArtifactIngest                             library      LibraryProofs
    tags, collections     Curation                                   library      LibraryProofs
    profiles              ProfileAdmin                               records      ServiceProofs
    sandbox files         SandboxFiles                               service, sandbox_lost   ServiceProofs
    settings              RuntimeConfig                              service      ServiceProofs
    converse              Converse                                   records      ServiceProofs
    prompt answers        PromptAnswers                              service      ServiceProofs

The `MC*` modules name model values and symmetry, and put small instances
beside each other. `PROJECT.json` has, for every definition, the source lines it
stands for, and under "hazards" what is hard to test in this code, each at its
line.

## 1. The system: inventory

The gateway is one asyncio process. Everything between two `await`s is atomic
with respect to the other coroutines; SQLite transactions are synchronous. So
the unit of interleaving, and of an action in the models, is the stretch of a
coroutine between two awaits, together with every synchronous call it makes.
Where the code leaves the event loop (`asyncio.to_thread`, the plugin's hooks
and its forwarder) the unit is a system call or a step under a lock.

### 1.1 What is modelled

**Event stream** (`domain/event_stream.py`, `api/events_ws.py`).
*State*: the stream epoch, the sequence counter, a history of the newest 512
frames, one bounded queue per subscriber (2048 frames, 8 MiB), the identity gap
flag, the Hermes connection generation last seen. *Operations*: forward a Hermes
event, inject one of another profile's connection, fan out, subscribe with or
without a cursor, cut off a slow subscriber, watch the generation. *Interacts*
with the Hermes adapter (its queue and its generation), with hooks (recorder,
background ledger, capture) called synchronously for each event, and with the
apps. *Hard*: cursors against an eviction boundary; epochs of an earlier
process; events that are lost before they get a number; a replaced connection
nobody talks on. *Correct when*: an app never misses a frame or a lost event
without being told (`NothingIsMissed`, `ImplementsContract`), is told of a
replaced connection before anything that was sent on the new one
(`ResyncComesFirst`, `ReplacedConnectionsAnnounced`), and is never left waiting
(`FramesArrive`).

**Run recorder** (`domain/run_recorder.py`, `domain/runs.py`, `api/runs.py`,
`api/prompts.py`). *State*: one record per session with an open run; the tables
`runs` and `run_events`. *Operations*: handle an event, sweep at startup and
when the connection is replaced, record an answer, close stale runs.
*Interacts* with the stream (called for each event), the prompt routes (a second
writer of rows), `GET /runs` (a third one, with an await between reading and
writing). *Hard*: a failed transaction between memory and table; the two other
writers. *Correct when*: timelines are contiguous (`SeqsContiguous`), a running
run can still be completed (`RunningIsAttended`), closed runs stay closed
(`ClosedRunsAreLeftAlone`).

**Durable capture** (`domain/event_inbox.py`, `domain/host_identity.py`, the
durable half of `event_stream.py`, `run_recorder.py` and `chat_store.py`), in
the gateway that is hosted inside Hermes. *State*: the inbox (10 000 rows, pages
of 100), the host's registry of live sessions, the replay cursor, and the rows
captured. *Operations*: put, resolve, bind, record, capture, acknowledge,
replay. *Interacts*: the host moves the registry whenever it likes; the stream's
pump and a timer both replay. *Hard*: live handles are reused; three commits; a
crash between any two; a later process that does not know the handle. *Correct
when*: nothing is lost silently or doubled (`CapturedOnce`), no event is
attributed by guess (`OwnersPrecedeForwarding`; `OwnersPrecedeReceipt`, which the
documents promise, fails), and a proven event ends up captured
(`ProvenIsCaptured`).

**Background tasks** (`domain/background_tasks.py`,
`domain/background_ledger.py`, `api/background.py`). *State*: one row per task
id. *Operations*: submit, complete, orphan, rescue. *Interacts*: Hermes runs the
task and announces its end once, to the connection the session was resumed on.
*Hard*: the row is written after the await of the submission, ids are reused,
connections and processes are replaced under a running task. *Correct when*: a
prompt never gets an earlier task's result (`NoEarlierResult`), "running" is not
claimed across connections (`RunningIsOfThisConnection`), and a task is not
stranded (`ReattachedAfterReconnect`).

**Hooks and audit** (`src/__init__.py`, `src/capture.py`,
`src/audit_forwarder.py`). *State*: a queue of hook events (10 000), a map from
turns to sessions (2000), the turns already closed, the newest prompt of each
session; a queue of audit rows (5000) and counters of what was lost.
*Operations*: fire a hook, drain the queue, post a batch of audit rows.
*Interacts*: hooks fire in Hermes' threads, the drain closes runs of the
recorder, the forwarder has a thread of its own. *Hard*: the same turn is told
by frames over a socket and by hooks in the process, in either order; either may
be lost, and hooks repeat. *Correct when*: a run whose end the host knows is
closed (`EndedRunsAreClosed`), and a lost audit row shows in a counter
(`AuditLossIsVisible`).

**Hermes adapter and live handles** (`adapters/hermes/client.py`,
`domain/hermes_runtime.py`, `domain/live_handles.py`). *State*: the socket, the
`_ws_live` flag, the heartbeat, the pending futures, the generation, the connect
lock, the cache from stored session to live handle. *Operations*: connect, tear
down, request, dispatch a reply, heartbeat, retry once, resume, cache and discard
a handle. *Interacts* with every route. *Hard*: a reply is resolved in one
connection and its coroutine goes on in the next; several calls find the
connection dead at once; a request whose fate is unknown must not be retried.
*Correct when*: a call is applied at most once and a reported success is real
(`ImplementsContract`), to its own session (`RightSession`), and nobody hangs
(`NobodyIsStranded`).

**Transcript** (`domain/chat_store.py`, `foreign_prompt_capture.py`,
`turn_backfill.py`, `reasoning_reconcile.py`, `api/chat.py`). *State*: user and
assistant rows with the run they belong to, reasoning held per turn (bounded),
an archive of reasoning, the tasks that read Hermes' transcript. *Operations*:
write a submit row, link it to the run that opens, fetch the prompt of another
client, place rows by time at startup; stream, seal, evict, complete and
reconcile reasoning. *Interacts* with the send route, the recorder (which opens
runs), and Hermes' transcript. *Hard*: "the newest waiting row" is a guess that
other clients, failed sends and restarts can spoil; a transcript is read before
an await and rows are completed after it; a reconnect takes a part of a stream, or
the frame that ends a step. *Correct when*: a run shows its own
prompt, once (`OwnPrompt`), and streamed reasoning is kept (`StreamedIsKept`)
and shown once (`ShownOnce`; of a step that streamed in part `NeverShownTwice`
fails).

**Snapshots** (`domain/snapshot_sweeper.py`, `snapshot_builder.py`,
`api/snapshots.py`, the delete route). *State*: the newest copy of each session
with the list count it was made at, the filings, a pass in progress.
*Operations*: sweep, take a copy by hand, archive, delete after copying.
*Interacts*: it resumes the sessions apps use, and closes what it opened.
*Hard*: three awaits per session, during which turns run and the app resumes,
archives and deletes. *Correct when*: nothing is deleted or called current
without its copy (`CopiesAreThere`), and filed sessions of the default profile
become durable (`FiledSessionsBecomeDurable`; those of others never do, see 5).

**Attachments** (`domain/attachment_orchestrator.py`, `api/attachments.py`).
*State*: a row per upload, a task per delivery. *Operations*: upload, serve by
token, deliver directly or by a fetch turn, verify, cancel, sweep at startup.
*Hard*: the fetch turn runs late, twice or never; the deadline; a stop.
*Correct when*: what is attached is there (`AttachedIsThere`) and every upload
ends (`UploadsEnd`).

**Profile connections** (`domain/profile_connection.py`). *State*: one
dashboard process and one connection per profile. *Operations*: reconcile, from
a timer and from routes, launch, reap, tear down. *Hard*: passes are not
serialized, what one read of Hermes is stale when it acts; processes outlive the
gateway. *Correct when*: connections follow Hermes' list
(`ProfilesFollowHermes`) and dashboards pile up only by launches whose reap failed
(`FewDashboards`).

**Projects** (`api/projects.py`, `create_and_file_session`, forks and deletions
in `api/instance.py`). *State*: projects, filings, and the runs, artifacts and
copies that name them. *Operations*: create, delete, file, move, unfile, fork,
list. *Hard*: enforced foreign keys against rows recorded under a filing that
has moved; lists that are answered while filings change. *Correct when*:
nothing dangles (`NothingDangles`) and "missing" means gone (`MissingIsGone`).

**Artifacts** (`domain/artifact_ingest.py`, `artifact_store.py`,
`artifact_filing.py`, `api/artifacts.py`, `tag_store.py`, `collection_store.py`).
*State*: a row per version of a file, the listings taken at the start of turns,
tags, collections. *Operations*: ingest by tool, by mention, by the difference of
a turn or by hand; list in pages, browse folders, archive, serve ranges; tag,
rename, collect, reorder. *Hard*: one file ingested by several tasks while it is
written; boundaries of turns heard late or not at all; a library that changes
between two pages. *Correct when*: rows are versions (`ArtifactsAreVersions`),
changed files are found (`TurnsAreDiffed`), readers see what stayed
(`ListingsAreComplete`), and the operator's tags and orders survive
(`RenamesKeepOwners`, `OrderIsTheOperators`).

**Profiles and settings** (`api/profile_admin.py`, `domain/profile_endpoint.py`,
`config/runtime_config.py`, `config/settings.py`, `api/config.py`). *State*:
Hermes' profiles, a cache of endpoints; an overlay file and its cache.
*Operations*: create, rename, delete, choose a model (which mirrors a provider),
resolve an endpoint; read and replace the overlay. *Hard*: handlers act after
awaits on what they read before; a thread parses a file that is being replaced;
a provider that cannot be mirrored and a file that cannot be read are passed over.
*Correct when*: a chosen model whose provider can be mirrored can be used
(`ChosenModelsAreUsable`), and the overlay that is read and written is the file's
as long as the file can be read (`OverlayIsKept`).

**Sandbox files** (`domain/sandbox_fs.py`, `api/sandbox_text.py`,
`domain/project_workspace.py`). *State*: one file, its temporary name. *Hard*:
compare and replace in worker threads, beside the agent. *Correct when*: saves
are conditional and files whole (`SavesAreSafe`), and what is replaced is what
was compared (`ComparedIsReplaced`, which fails).

**Converse** (`domain/converse.py`, `converse_context.py`, `api/converse.py`).
*State*: records, and the question at hand. *Hard*: a window with a budget,
filled from kinds of very different number. *Correct when*: every relevant kind
has its best record in the window while the budget lasts, and citations name the
window (`AnswersAreGrounded`).

**Prompt answers** (`api/prompts.py`). *State*: the prompts of a turn, the
answers under way. *Hard*: a lost reply, a second app, an expired prompt.
*Correct when*: apps are told the truth (`AppsAreToldTheTruth`).

**Startup and shutdown** (`api/bootstrap.py`) and **event normalization**
(`events/*.py`) appear in these modules as `Init`, `Restart`, the order of hooks,
the kinds of frames and the time at which a frame counts as observed.

### 1.2 How they interact

    Hermes --frames--> adapter queue --> EventBroadcaster --> apps
                                           +-- synchronous hooks: RunRecorder,
                                           |   BackgroundLedger, chat store
                                           +-- subscribers of their own: ArtifactIngest
    routes --requests--> HermesConnection --> Hermes
    Hermes' threads --hooks--> HookCapture --> RunRecorder; audit store

The composition that the code makes synchronous is inside an action (a frame and
its hooks). Where components meet over an await or a table, the module of the
one has the actions of the other that matter to it: `RunRecorder` the answer
routes, `ChatPrompts` the runs, `Snapshots` the delete route and the app,
`ProjectFiling` the recorder and the ingestor, `HookCapture` the frames.

### 1.3 What is not modelled

* **Storage schema** (`domain/models.py`, `db.py`): declarations; the tables
  are variables of the modules that write them.
* **Pure input and output**: speech, transcription, rewriting and prompt files
  (only where a rewrite takes its endpoint from, in `ProfileAdmin`), handing off,
  commands, subagents, the audit queries, uploads and moves in the sandbox, the
  plugin's side of the sandbox routes, authentication.
* **Functions of one request**: the model catalog, profile statistics,
  compression, search text, kinds of files, the recognition of media references,
  the wording of prompts, what a snapshot's text contains.
* **Single updates without a protocol**: stars and pins (only where a listing
  depends on them), promotion of artifacts (only its way into the pipeline),
  tool results in a served transcript, background results merged into it.
* **The retry of a sequence number that was taken** in `chat_store.py:748`: in
  one process every writer runs from reading the highest number to its commit
  without an await, so the models take it to succeed.
* The read routes of runs, chats, attachments and snapshots.

## 2. The models

Each module's header says what it models and what it takes for granted, each
definition which function it is, and `PROJECT.json` on which lines.

### 2.1 EventBroadcaster and StreamContract

`StreamContract` says what the stream promises, without queues or sockets: an
app that has not been told to reload is only ever extended by the very next
frame, of the epoch it follows. `EventBroadcaster` has the queues, the history,
resume cursors, epochs, gaps and generations, and implements the contract
(`Contract == INSTANCE StreamContract WITH ...`).

* `Offer`, `CutOff` - `_Subscriber.offer`: append, or give the reserved slot to
  one desynchronized frame and take no more. `Forward` - `_forward_events`, which
  unsubscribes after that frame.
* `NeedsReset`, `Newer`, `ReplayAvailable`, `ResumeCursor` - the decision of
  `subscribe` and `resume_cursor`; `Newer` is what follows the history up to the
  cursor (`UpTo`). `Resume`, `LegacyResume`, `Join` are the three ways an app can
  call.
* `PublishEvent` - `_forward_one` and `_deliver`, with the generation note and,
  for the end of a background task, the synthesized message; `InjectEvent`,
  `LoseEvent` (`_identity_resync`), `WatchGeneration`, `Restart`.
* The app itself is not in this repository. `Greeted`, `Absorb` and `Reload` are
  what `docs/STREAM_RECOVERY.md` obliges it to do; a control frame is handled in
  the order of the feed. The map marks them external.

Left out: the in-memory quarantine used without an inbox (a held event is one
that is forwarded later, or lost), payloads, and the JSON of frames; a frame has
a size, and a control frame has size 1.

### 2.2 RunRecorder

`HandleEvent(s, f, up)` is `handle_event` for a frame of session `s`; `up` says
whether the one transaction commits. The record is dropped or advanced only
after the commit, as in the code. `Sweep` is the connection sweep and the startup
sweep: records first, tables second. `RecordSynthetic` is the row of an answer,
with the durable fallback when no run is open. `ReadStale`, `ListActive`,
`CloseStale` are `_reconcile_stale_running` before, at and after its await.

Hermes is three states per session (idle, working, ending) because the staleness
check asks it whether a session is busy; a completion may be lost on the way
(`LoseCompletion`: a full queue, a dead connection), as the adapter allows.

Left out: the timestamps of rows, the in-flight counters, `is_watched` sessions
(which skip recording altogether), and the read routes.

### 2.3 DurableCapture

A frame carries a handle and, unknown to the gateway, the registry entry that
sent it. The inbox and the page of a pass are sets of rows, whose ids give the
order (`Page`, `LastOf`, `Behind`). `_forward_one` is one pass over a page
(`StartPass`, `ReplayRow`, `SkipRow`) followed by one of `ForwardRefused`,
`ForwardHeld`, `ForwardCaptured`; a timer's pass ends with `EndPass`. Within
`Capture`, `reach` says how far bind, record, capture and acknowledge get before
one of them fails; any prefix is possible, and the failure is counted. `Restart`
is a new host process: new epoch, empty registry, startup sweep, inbox kept.

Time is the number of registry entries made so far: `received` is when the frame
was sent to the gateway, `observed` the time `normalize_event` takes when the pump
forwards it, and an entry may claim an event if it is not younger than that.

Left out: the two databases' own crash atomicity (a commit is atomic), and
payloads. Passes and forwarding do not interleave, because neither awaits; the
host's actions interleave with both, since the host runs in other threads.

### 2.4 BackgroundLedger

`Submit` is the route up to Hermes' acknowledgement, `RecordSubmitted` the rest
of the route. `Finish` is Hermes; `Deliver` is `_forward_one` with
`handle_completed`, preceded by the note of a replaced connection, as in the
code. `NoteGeneration` with `Noted` orphans, `StartRescue` and `RescueSession`
are the rescue task. Each of the database writes and resumes may fail. A result
is the number of the attempt that produced it, so that `NoEarlierResult` can
compare them.

Left out: merging results into a served transcript, and the archive of texts.

### 2.5 HermesConnection and CallContract

`CallContract` says what a route may tell an app: a call is done at most once,
"done" is said only of one that was, and a call that was given up may have been
done all the same. `HermesConnection` has the coroutines of `_with_reconnect`,
`_ensure_connected`, `connect`, `request` and `_with_live_handle`, each stretch
between two awaits one action, and Hermes with its handles.

* `SeekConnection`, `Acquire` - the connect lock, and the second look at the
  connection once it is held.
* `BeginConnect`, `Open`, `Ready`, `Advertised` - the awaits of `connect`;
  `ConnectFails` and `ReadyTimesOut` its failures. After a failed announcement of
  capabilities the socket stays up without a heartbeat, as in the code.
* `Request`, `Dispatch`, `RequestTimesOut`, `FailPending`; `LinkDies`,
  `HeartbeatFails`.
* `HandleRejected`, `SessionResumed`, `SessionCreated`, `CallDone`, `CallFails` -
  what a coroutine does with the reply, after comparing generations.
* `HermesResumes`, `HermesActs`, `HermesRefuses`, `HermesForgets` - the server,
  modelled from how the code uses it and marked external.

Assumptions about what is outside: `ws.send` is one step, and one that raises
has delivered nothing (the retry rule of the code rests on this); resuming a
session is idempotent within a connection; a handle is not minted twice on one
connection, and may be reused on the next. The waiters of the lock are woken in
any order (asyncio wakes them in theirs). Left out: the eviction of the handle
cache at 256 entries (an evicted entry is one that is not found), the reply to
the capabilities request beyond success and failure, and the choice of an
adapter per profile.

### 2.6 HookCapture

`BeginTurn`, `CallsModel`, `UsesTool` and `EndTurn` are Hermes running turns: each
puts frames on the socket and fires hooks (`Fired`: a full queue refuses the new
event; `EndTurn` may fire its hook again). `FrameArrives` and `FrameLost` are the
socket as the recorder sees it. `OnPreLlmCall`, `OnPostApiRequest`, `OnSessionEnd`
and `OnOther` are the handlers of `HookDrain`, one event each, with the tables
bounded to `MaxTracked` (`Bounded`); `OnSessionEnd` notes the turn as closed before
its write, which may fail. `UsesTool` also records an audit row, dropping the
oldest of a full queue and counting it before it appends (`Full`). `DrainBatch`
and `Posted` are the forwarder's loop; a post may fail before or after it arrived.

Left out: what rows and usage contain, the time to live of `TurnMap`.

### 2.7 ChatPrompts

The user rows of one session. `SubmitWrites`, `HermesAccepts`, `SubmitAnswered`
and `SubmitFails` are the send route: the row first, Hermes next, and a row that
is discarded when the send fails. `OpenRun` with `AttachTurn` is the first frame
of a run, which takes the newest waiting row, or starts a capture of a foreign
prompt; the captures under way are a set, as `_tasks` is, and `CaptureResumes`
and `CaptureStores` are a task at its awaits. `GatewayRestarts` cuts off captures
and places rows without a run by time (`Backfilled`). Hermes has a queue, a transcript that a compaction may
replace with a summary, and prompts of other clients.

Assumption: Hermes has the prompt's row in its transcript from the start of the
turn. Left out: texts (a prompt is who sent it), and the branch that takes the
prompt from a hook.

### 2.8 Reasoning

A text is the set of its chunks, in the order of Hermes; it is longer when it has
more, and it is part of another when it has no gap in it (`Within`). `Delta` is a
chunk that arrives; `ThinksSilently` one that does not, because the model does not
stream it or because a reconnect lost the frame. The two come in any order, so
that the gateway may have a step whole, or without its start, its end or a part
between. `Unheard` is the end of a step, or of the turn, that a reconnect lost: the
buffer then goes on with the next step. `Interim`, `ToolStarted`, `Completed` are
the ends that are heard, `Evict` the bound on turns held, `FinalReasoning` the
choice of what the last row shows.
`SyncReads`/`SyncReconciles` and `LoadReads`/`LoadReconciles` are the two readers
of Hermes' transcript with their await; `Crash` loses what is held in memory.
Archive writes may fail (`ok`). `Claims` is what `message.completed` may carry once
more: nothing, or the most recent reasoning of the turn. `Upgraded` are the rows
completed from the transcript, each from the first step that matches it and no
earlier row.

`unsure` has the turns whose buffer was dropped or that had an end unheard.
`ShownOnce` is about the others, and about steps that streamed whole
(`StreamedWhole`); `NeverShownTwice` about all steps of the others, and false.

### 2.9 Snapshots

A transcript is the number of its rows; of a session's copies only the newest
index row is read by the code. A pass is `SweepBegin`, `SweepList`, `SweepPlan`,
`SweepCopy`, `SweepClose`, in a fixed order of sessions and at most `MaxPerPass`
attempts; a copy identical to the prior one is rolled back (`unchanged`). `foreign`
are the sessions of other profiles: the pass asks the default connection only
(`SweepList`), so that they are never listed, and a route's own listing may leave
them out as well (`RouteCopy`). A
route is `Ask` (by `CreateSnapshot`, `ArchiveSession`, `DeleteSession`),
`RouteResume`, `RouteCopy`, `RouteDelete`, `RouteClose`. Turns, the app's own
resumes, filings and restarts come in between.

### 2.10 AttachmentOrchestrator

`Upload` and `UploadBegin` are the route, `Submit` the fetch turn, `Probe` and
`Expire` the polling, `AttachImage` the RPC for images, `CrashTask` an
exception in the task, `GatewayStops` (which cancels the tasks, or is a crash) and
`Startup` the process. `FetchBegin` and `FetchEnd` are the turn in Hermes, which
downloads by the row's token and runs when it likes, or never.

### 2.11 ProfileConnections

A pass of `reconcile` reads Hermes' list, tears down what is gone and launches
what is missing, with an await at each: `TimerFires` or `RouteAsks`, `Begin`,
`NextLoop`, `TearDown`, `GoneAlready`, `Stop`, then `Launch`, `Reap`, `Spawn`,
`Connected` or `Died`, `TimedOut`, `Refused`. Several passes run at once.
Dashboards are process ids, which the system reuses; `Exits` and `ProfilesRestart`
are a dashboard's death and the gateway's. A reap works (`Reaped`), or fails and is
swallowed with some or no dashboards gone (`NotReaped`); a launch goes ahead either
way. `unreaped` counts, for each profile, the launches since a reap last worked
whose own failed.

Left out: the default profile, whose connection is the shared one, and the
rebinding of the default adapter.

### 2.12 ProjectFiling

A handler without an await is one action (`CreateProject`, `DeleteProject`,
`FileSession`, `MoveFiledSession`, `UnfileSession`); the creation of a filed
session (`CreateAsks`, `HermesCreates`, `CreateFiles`), a fork
(`HermesBranches`, `ForkFiles`) and a project's view (`ListReads`, `ListAsks`,
`ListAnswers`) have one per await. `OpenRun`, `Ingest` and `Copy` are the other
components that write a project into their rows. An insert whose foreign key is
not there is refused, a delete that would leave one behind as well.

### 2.13 ArtifactListing

`FirstPage` and `NextPage` read the library by save or by file, with a cursor that
names a row; `Saved`, `Archive` and `Bookmark` change it in between. `Folder` and
`FolderTree` are operators on its paths: the loop that joins directories with
nothing else in them is described by where it ends (`EndsAt`). `Span` is the
interpretation of a range request.

### 2.14 ArtifactIngest

A file is its content and how often it was written. `ToolCompletes`,
`MessageNames` and `Promote` ask for an ingestion, as does `IngestOne` of a
turn's difference; `Fetch` and `Record` are the pipeline's two halves under its
lock. `Observe` reads the boundaries of turns, `Started` takes the first listing,
`Completed` and `Compared` the second and the difference. The lock is the set of
its holders, of which there is at most one. Listings may fail or
miss a directory; the subscription may be cut off (`Desynchronized`,
`Resubscribe`). A listing is taken to be read at one moment.

### 2.15 Curation

`GetOrCreate`, `Attach`, `RenameTag`, `ApplyBulk` and the deletion of a tag;
creation, renaming, `Add`, `RemoveMember` and `Reorder` of collections. A typed
name is normalized before it is used, or refused.

### 2.16 ProfileAdmin

Hermes' profiles have a provider, the request that set it, and the providers
defined in their own configuration. `CreateProfile`, `SetModel`, `Rename` and
`Delete` begin a handler; `Write`, `Mirror` and `ReadBack` are its awaits, any of
which may fail after it took effect. Of the user-defined providers `Mirrorable` are
those with an `api_url` and a slug the CLI can take; the others are skipped without
an error (`MustMirror`). A rewrite is `Hit` or `Miss` of the endpoint
cache, with `ProfilesRead`, `EndpointStamp` and `OptionsRead` between its awaits.
A call to Hermes takes at most `CallTimeout`, the request and its reconnects
together. That may be longer than the lifetime of the cache (an answer is given up
after 30 seconds, entries after 60, but a call may reconnect and be repeated), so
a rewrite may use what was true a lifetime or a call ago, whichever is longer.

### 2.17 SandboxFiles

A file is an inode and its text. A save is `SaveAsks`, `Exists`, `ReadCurrent`,
then `WriteByHermes`, or in a worker thread `Compare`, `Open`, `Fill`, `Swap`,
`Reread`; two saves share the temporary name. `AgentEdits` and `Dies` come in
between; `Refused` stands for the checks that refuse a request before it reads.

### 2.18 RuntimeConfig

`read_overlay` is `TakeStamp`, `Look`, `Parse`, `CheckStamp`, `Keep`, in the event
loop's thread or another. `TakeStamp` may fail to stat the file, which counts as no
file, and `Parse` to read it, which counts as an empty one and is cached like any
other; `unread` says that this happened to the present version. A change is `Update`, `Merged`, `WriteSpare`,
`Replace`, `Invalidate`, all in the event loop. `OperatorEdits` is a hand edit, `Restarts`
the death of the process anywhere. Assumption: each write of the overlay has
its own stamp. Left out: fallback and source reporting, and probing.

### 2.19 Converse

A record is its kind, its place in time, its score and its length in units.
`Asked`, `TranscriptRead` or `TranscriptFails`, `Selects` (`Window`), `Answers` or
`ModelFails`. `Window` says what the loop of `select_context` comes to: with the
order in which records are offered (`Earlier`), a record is in it when it fits
beside those taken before it, or would be the first (`Fitting`); only one set is
like that. Condensing texts and the wording are data.

### 2.20 PromptAnswers

`AsksPerson`, `MovesOn`, `Interrupts` are the agent; `Approves` and `AnswersText`
the routes with the bodies an app may send (`ResolvedChoice`, `TellsSomething`),
`Sends`, `NotTaken`, `Taken`, `ReplyLost`, `Replied` the connection, and `Unrecognized` a
status that is passed on.

## 3. The runs

Every action of every module fires in a passing run, and every property has a
seeded fault (`mutants`) that makes it fail in its run. The definitions of the
faults sit beside the code they distort, each under a comment "Seeded fault".

    run                states   shows
    stream             231 K    an app that stalls, hangs up and resumes never misses a frame or a
                                lost event silently; frames and replaced connections become known
    records            2.9 M    timelines and closed runs, under failing writes, answers, sweeps
                                and the staleness check; reasoning is kept, and shown once; answers
                                are grounded; models can be used
    capture            615 K    nothing lost, nothing duplicated, nothing guessed; proven events are
                                captured, across failures and a restart of the host
    background         275 K    results are not mixed up, nothing is stranded; a run whose end the
                                host knows is closed, a lost audit row is counted
    calls              1.5 M    at most once, to the right session, nobody hangs
    upkeep             636 K    copies are taken before anything is deleted, uploads end, profiles
                                follow Hermes
    library            1.9 M    rows are versions, turns are compared, tags and orders survive;
                                no reference dangles, missing is gone, a paged listing is complete
    service            3.7 M    a run shows its own prompt, once; saves are safe, the overlay is
                                the file's, apps are told the truth
    snapshots_starved  fails    finding 1
    sandbox_lost       fails    finding 2
    late_claim         fails    finding 3
    shown_twice        fails    finding 4

`records`, `calls`, `library` and `service` use symmetry, and check no liveness;
their counts are of classes of states.

`background`, `records`, `upkeep`, `library` and `service` hold several small
instances beside each other: `part` is chosen in the initial state, says which one
a behaviour is about, and the others stutter. The state space is the sum of the
parts, not their product, and every property is about one part.

### 3.1 Bounds

The code's own limits become constants, small enough that the limit is reached.

* `stream`: one app (subscribers share nothing but the broadcaster's counters,
  which one app exercises), feeds of 2 frames or 3 bytes with frames of 1 or 2
  bytes (so that either cap is hit first), a history of 2 with 3 frames (so that
  a cursor can fall out of it by one), 2 processes, 2 connections, 1 lost event.
* `records`: 2 sessions of 1 turn, 2 runs, 2 rows, 1 sweep, 1 request. Two sessions
  are enough for a row to land in the wrong one. A session of one turn can still
  open both runs, because a frame after a sweep or a stale close opens another.
  Reasoning: 1 turn of 2 steps with 3 chunks each (so that a stream can lose its
  start, its end or its middle), 2 texts (so that rows can be confused), 1 failed
  write or crash; the turn is evicted as the bound on held turns would evict it.
  Up to 5 records of 8 shapes under a budget of 4 and up to 3 anchors: turns, best
  matches and a record that is too long alone are all left out in some state. 2
  names of profiles and 2 requests about them, providers of which 1 is hosted, 1
  can be mirrored and 1 cannot, an endpoint cache of 1 tick in 2 and calls of at
  most 1, 2 writes, 1 lost reply.
* `capture`: 1 handle that 2 sessions get in turn, an inbox of 2 read in pages
  of 1 (so that the cursor matters and the inbox fills), 2 events, 2 hosts, 1
  failure at any place.
* `background`: 1 task id submitted twice, 2 sessions, 2 connections, 1 restart,
  1 failure. Hooks: 1 session of 2 turns and 2 tool calls, a queue of 3 events,
  tables of 1 turn, a queue of 1 audit row (so that each bound is exceeded), 1
  fault.
* `calls`: 2 calls, 2 sessions, 2 handles, 2 connections. Two calls are the
  fewest that can meet at the lock; two connections and two handles the fewest
  that make a stale handle another session's.
* `upkeep`: 2 sessions, a cap of 2 copies a pass, 1 turn, 2 requests, 1 failure,
  1 restart: a pass, a turn and two routes can meet in one session. The second
  session may be of another profile.
  A document and an image, 2 stops and 2 failed writes. One profile (passes meet
  only at one name), 5 process ids (passes and failed reaps may leave some behind,
  and ids are reused), the timer's pass and one route's, 2 changes and 2 faults; dashboards are
  launched with a reaper.
* `library`: 2 paths (one the ignore rules refuse, one in a directory), 2
  contents, 2 turns of which 1 is remembered, 2 writes, and either 1 ingestion
  asked for outside of diffs or 1 failure (`OneTrouble`). 2 artifacts and a project,
  2 tags, 4 names of which 2 are the same when normalized and 1 is refused, 1
  collection with positions to 4. 2 projects, 2 sessions of different profiles, 2
  filings, 1 run, 1 request, and 1 file or 1 copy (`OneReference`). A library of 3 rows, 2
  times, pages of 1, so that rows of one time fall on two pages; by file, and by
  save with star and kind.
* `service`: 1 prompt of the app and 2 of other clients, and either 1 compaction or
  1 restart (`OneTrouble`): the fewest with a row that waits while another run
  opens, and a foreign prompt behind a newer one. 2 savers of 3 saves, 2 edits of
  the agent, 1 error. 2 settings, 2 changes by the app and 2 by hand, 1 outage; a
  stat or a read may fail at any time. 2 apps, 1 approval, 1 question, 3 choices,
  2 lost connections.
* `snapshots_starved`: 2 sessions and a cap of 1 (the least that can starve), no
  failures. `sandbox_lost`: 2 savers, 3 saves, no agent and no errors. `late_claim`:
  as `capture`. `shown_twice`: 1 turn of 2 steps of 2 chunks, no failure.

Deadlock is checked in `stream`, `capture`, `calls` and `snapshots_starved`, where some input (a frame, a restart, an app that calls) is
always enabled. In the others an instance may really stop when its bounded
inputs are used up and nothing is under way, so it is not.

### 3.2 Fairness

* `stream`: weak fairness of `Forward` of every app (the forwarder task of an
  open socket; a socket that fails leaves the subscription) and of
  `WatchGeneration` (a poll). Nothing else is assumed: no event has to happen and
  no app has to reload.
* `capture`: weak fairness of a timer's pass and of the steps of a pass that has
  begun, which are the body of one synchronous function. Failures are bounded by
  `MaxFailures`, so fairness of "the step, failing or not" is enough: a write
  that fails for ever is not recovered by any code.
* `background`: weak fairness of the watcher's poll and of the rescue task's
  steps, and of the drain, which polls its queue while the gateway runs.
  `ReattachedAfterReconnect` excuses a connection that is lost again,
  `EndedRunsAreClosed` a run whose write failed.
* `upkeep` and `snapshots_starved`: weak fairness of the sweep's steps (a timer,
  and awaits that end, by answer or failure); of the startup sweep and the
  steps of a delivery task; of the reconciliation timer and the steps of a pass.
  Hermes and the app need not do anything: no fetch turn has to run.
* The other runs check safety only, and assume no fairness.

### 3.3 Findings

1. *`snapshots_starved`.* A session whose newest copy is identical to its
   transcript is rolled back as unchanged (`snapshot_sweeper.py:380`), so its row
   keeps the old count and it is a candidate in every pass. Candidates are tried
   in a fixed order, at most `max_per_pass` a pass (`snapshot_sweeper.py:317`), so
   sessions sorted after it may never get their turn. The module's docstring
   calls the sweep "what makes filed sessions durable without a tap".
2. *`sandbox_lost`.* `_write_text_sync` compares and replaces in one worker
   thread (`sandbox_fs.py:402`), but two saves run in two threads without a lock,
   through one temporary file: both compare the same text, and the second
   replaces what the first has just written. Its docstring says there is no
   await point in between, and `sandbox_text.py:184` relies on the backend to
   "close that gap".
3. *`late_claim`.* A frame is resolved against the time `normalize_event` takes as
   the pump forwards it (`event_stream.py:877`, `events/normalizer.py:68`), after it
   waited in the adapter's queue. A session that was opened on the handle meanwhile
   has `created_at` before that, so it claims the frame, and run, rows and chat get
   it. `docs/STREAM_RECOVERY.md:21` says that a session created after the frame's
   original receipt cannot. `OwnersPrecedeReceipt` is what it says,
   `OwnersPrecedeForwarding` what the code keeps.
4. *`shown_twice`.* A reconnect takes a part of a step's stream; the rest goes onto
   the step's row and is noted as spent. The completion claims the step's whole
   reasoning; `final_reasoning` compares it with what was spent for equality
   (`chat_store.py:181`), finds it new and writes it onto the final row, though its
   docstring says that "repeating it would show it twice". `NeverShownTwice` is that
   sentence; `ShownOnce` holds for steps that streamed whole.

## 4. The proofs

TLAPS checks the theorems below for every value of the constants. They rest on
the `ASSUME`s of the modules, which say

* that bounds, sizes and scores are natural numbers, and that queues, pages, tables, the
  remembered listings, the anchor of a reasoning text and the sessions a pass may
  try are not empty or zero (`BoundAssumption`, `QueueAssumption`,
  `HistoryAssumption`, `InboxAssumption`, `HookBounds`, `ReasoningBounds`,
  `IngestBounds`, `BudgetAssumption`, `NAssumption`, ...), that a frame's size is a number
  (`SizeAssumption`), and row ids and times are (`ListingAssumptions`,
  `TtlAssumption`), and that only user-defined providers are mirrored
  (`MirrorableAssumption`);
* that values which stand for nothing are not among the real ones, and kinds of
  things are apart: `NamesAssumption`, `ChatAssumption`, `ContentsAssumption`,
  `TextsAssumption`, `PromptsAssumption`;
* what the code's own constants say: an approval can be given once and denied
  (`ChoicesAssumption`), every session and the default has a profile
  (`HomeAssumption`, `DefaultAssumption`), images are attachments
  (`ImagesAssumption`), ignored paths are paths (`DeniedAssumption`), a path is a
  sequence of at least one name (`PathsAssumption`), a question has one of three
  scopes (`ScopesAssumption`), a name is
  normalized to a name or refused (`TypedAssumption`);
* that the requests that reconcile profiles (`PassesAssumption`) and the savers of
  a file (`SaversAssumption`) are finitely many at a time, and that turns are
  numbered from 1 (`TurnsAssumption`).

No other set is assumed finite: apps, sessions, profiles, prompts, calls, paths,
contents and tags may be any. Where a proof needs a finite set (the rows of a
library, the dashboards of a profile) the invariant says it is, since it grows by
one in a step.

### 4.1 RunRecorderProofs

`TypesAreKept`, `TimelinesAreContiguous`, `RecordsAgree`,
`RunningRunsAreAttended` and `ClosedRunsStayClosed`, for any sessions, requests,
runs and rows; three of them are properties of the run `records`, and
`RecordsAgree` (`RecordsMatchLedger`) is what they rest on.

None of the invariants is inductive by itself. The number of the next row is
`lastSeq + 1` of the *record*, so contiguity needs the record to agree with the
table; agreement needs the record to name a run of its own session, and that
the run is running or was closed behind the recorder's back; and that no run is
left running without a record needs the sweep to have written. `LedgerOK` is the
conjunction of these, `IInv == LedgerOK /\ SurroundingsOK` adds the types of the
rest. The argument: `HandleEvent`, `Sweep`, `RecordSynthetic` and `CloseStale`
each establish `Keeps` (`LedgerOK'`, the table only grows, closed runs are left
alone), one lemma per way a frame can be handled; every action of `Next` is one
of them or leaves the tables alone. The helper lemmas say that a numbered
timeline's last number is its length, that appending the next row keeps it
numbered, and that `RequestedRun` finds a run of the sessions it looks at.

The module also has the proofs about `Reasoning`, for any number of turns, steps,
chunks, texts and troubles. `ReasoningSurvives` (`StreamedIsKept`) needs
`CursorBehind`: the archive row that stands for a held text says a beginning of
it, so that the row may be replaced by one that says more. `StreamedIsShownOnce`
(`ShownOnce`) needs much more, because three writers fill rows: the frames, and
two readers of a transcript that may be old. `ShownIInv` says that steps are
numbered and every chunk belongs to one (`StepsNumbered`); that the buffer of a
turn that is not unsure has what streamed of the step under way, and that the
finished steps that streamed whole are known as spent (`BuffersFollow`), which is
what keeps a completion from showing one again; that rows show what finished steps
thought (`RowsAreOfSteps`), and that a step that streamed whole is on one row
(`OneRowEach`) and has a row with its text (`RunningHaveRows`). Of a step that
streamed in part none of this is claimed: its chunks may be on two rows (finding
4). The last
holds as well for everything a reader has read before its await
(`TranscriptsReported`): that is why a reader does not take a row of another step
for the one it has a text for. A lemma each says that this
survives a chunk (`ThoughtKeepsShown`), the end of a step (`StepEndKeepsShown`), the
loss of a buffer (`DropsKeepShown`) and a reconciliation (`ReconcileKeepsShown`), of
which `UpgradeIs` says all that matters: a row is completed by a step with its
text that contains what it showed, and a row that showed nothing only if it is the
only one with that text.

### 4.2 HermesConnectionProofs

Seven theorems, for any calls, sessions, handles and bound on the generation:
`TypesAreKept`, `LockComesFree` (`LockIsReturned`), `NobodyWaitsInVain`
(`NobodyIsStranded`), `CacheNeverCrosses` (`CacheIsOfThisConnection`),
`CallsReachTheirSession` (`RightSession`), `WorkingConnectionStays`
(`WorkingConnectionIsKept`) and `ContractIsKept`: `HermesConnection` implements
`CallContract` under the refinement mapping of `ImplementsContract`. Three of
these are the properties of the run `calls`; the others are proved only.

The invariant `IInv` has these parts beside the types:

* `LockOK`: the holder of the connect lock, and nobody else, is connecting; it
  only does so while there is no connection that works, and opens a socket only
  when there is none. So a working connection is never replaced, and the lock is
  not left behind on any way out of `connect`.
* `PendingOK`: the requests the reader knows of are exactly those that are
  awaited without an answer, and there are some only while a reader lives.
* `GenerationsOK`: no cache entry and no coroutine is stamped with a generation
  that is still to come, and while a socket is being opened none is stamped with
  the present one. Without it a stale cache entry would become valid in the
  step in which the link comes up.
* `RepliesOK`: a coroutine whose reply is there knows of a handle that belongs
  to its session, as long as the connection it came from lives. The cache is
  filled from this, and only when the generation has not changed meanwhile.
* `WireOK`: a call has at most one frame in the air, and what it carries
  belongs to the session it names.
* `AppliedOK`: a call is applied at most once, and to the session it was sent
  to; a coroutine that may still retry has had nothing applied. This is what
  makes the retry rule of `_with_reconnect` safe.

The argument has one lemma per way a step changes the state: a coroutine without
a request in flight goes on, by sending, waiting for the lock or ending
(`GoesKeeps`, whose cases are collected in `GoingGoes`); the reader ends
(`ReaderEndsKeeps`); a coroutine gets on with connecting (`OwnStepKeeps`); a
request is given up (`TimeoutKeeps`); a reply is handed out (`DispatchKeeps`);
Hermes answers (`HermesKeeps`). `StepsAre` says that `Next` has no others. For
the refinement, `ContractSteps` says which changes of a call's status are steps
of the contract, and `StepsImplement` that each step makes one of them or none;
it needs `AppliedOK` for what a call may be told, and `WireOK` for what Hermes
may still do with it.

### 4.3 EventBroadcasterProofs

`NothingIsEverMissed`, `ResyncAlwaysFirst` and `ContractIsKept` (the broadcaster
implements `StreamContract`), for any apps, sizes of queue and history, numbers
of frames, processes, connections and losses.

`NothingIsMissed` speaks of what an app has *now*; to keep it, the feed has to be
in order. The invariant has, for every open feed, `FeedOK`: a feed that is cut
off has its desynchronized frame (`CutShort`); the numbers in the queue are not
above the counter (`Numbered`), and none skips one, unless a frame before it makes
the app reload (`Follows`); an event of a newer connection stands behind
its resync (`ToldFirst`), and the connections are announced in their order
(`Rising`); what is missing is queued or announced, and so is a loss
(`Complete`); and the app has heard of the connection the stream has seen, or has
its resync queued, or was cut off (`Heard`). `HistoryOK` says that the history is
the last frames numbered, without a hole, so that a cursor is served exactly
when its successor is there (`NewerIs`, `ReplayKeeps`).

One lemma per thing that happens to a feed: a control frame (`ControlKeeps`) or
an event (`EventKeeps`) is offered, the feed is cut off (`CutKeeps`) or stays so
(`CutStays`), the app takes a frame (`TakeKeeps`), the counter or the generation
moves (`NumberedKeeps`, `NotedKeeps`), a feed is opened (`OpenedKeeps`).
`OneAppKeeps` puts a change of one app's feed back into the invariant. For the
refinement, a step maps as follows: publishing and injecting to `Publish`; a
frame that reaches an app which owes a reload, a frame that makes one reload, and
a connect without replay, to `Tell`; an event to an app that trusts its
transcript, to `Deliver` when it is the next and to a stutter when the app has
it (`Follows`); the others to themselves or to a stutter.

### 4.4 DurableCaptureProofs

`NothingIsLostOrDoubled` (`CapturedOnce`) and `AttributionPrecedesForwarding`
(`OwnersPrecedeForwarding`), for any handles, sessions, sizes of inbox and page, and any
number of events, hosts and failures.

What is lost or doubled is decided by four writes in three stores, any prefix of
which may have happened before a retry. The invariant keeps what a retry can rely
on: the record and the two tables agree (`StoreOK`); registry entries are the
present host's, on their handles (`RegistryOK`); what was sent on a handle was
sent by the entry that is on it now, or by an older one (`SentEarlier`, in
`WireOK` and `EventsOK`); and `InboxOK`, a row whose event is recorded already
has its owner bound, and the owner is the session of the run, so that the retry
finds the same session, hence the same run (`RunForOf`), and writes no second row.
`PassOK` says that a page has rows as they are in the inbox. `Attributed` and
`NothingLost` are then kept by `RecordKeeps`, `StoreKeeps`, `CaptureKeeps` and
`LossKeeps`, the lemmas about the parts of `Capture`.

### 4.5 BackgroundLedgerProofs

`ResultsAreNotMixedUp` (`NoEarlierResult`) and `RunningMeansNow`
(`RunningIsOfThisConnection`), for any tasks, sessions, attempts, connections and
restarts. The argument is about ids: Hermes mints one again only after a restart,
which takes the connection along. So a frame stamped with the present connection
is of the last attempt under its id, which is not free while the connection lives
(`Completions`), and no row, written or still to be written, is of a later one
(`Submissions`). A result of an earlier attempt can only be in a frame of an
earlier connection, and that is not accepted.

`LossesAreCounted` (`AuditLossIsVisible` of `HookCapture`), for any sessions and
sizes of queues and tables: rows are posted in the order they were recorded, and
stand in three sequences, the posted, the batch and the queue, each rising and
before the next (`RowsRise`); as long as no counter of losses moved, each row is
in one of them (`LossShows`).

### 4.6 LibraryProofs

*Projects.* `ReferencesHold` (`NothingDangles`) and `MissingSessionsAreGone`
(`MissingIsGone`), for any projects, sessions, profiles and numbers of filings,
runs, files, copies and requests. `NothingDangles` is inductive with the types;
the other needs that what is filed or copied, and what a listing has read, was in
Hermes before (`FiledWereThere`, `ListedWereThere`): a session that has been there
and is in no list of its own profile has been deleted, and stays so.

*Listings.* `LibraryIsListed` (`ListingsAreComplete`), for libraries, pages, filters
and paths of any size and depth.

Its half about pages is `PagingMissesNothing` (`PagesAreComplete`).
`ListingIInv` says that ids name rows, and of every reader (`ReaderIsWell`) that
each row that stayed in the library is shown or lies beyond the cursor; and, by
save, that nothing shown does, which is why nothing is shown twice although
saving a file moves its row. That a page is the first rows beyond the cursor is
argued by counting: the rows before another one are fewer (`FewerBefore`), so a
set that is not empty has a first and a last (`OneIsFirst`, `OneIsLast`), hence
what is not on a full page is behind its last row (`PageIsFirst`).

The other half, `FoldersPartition`, is about the paths of the library in any state
whose rows have paths that are listed (`PathsKept`). A chain of directories that are
joined ends, at the least beginning of a file's path that is not joined
(`ChainEnds`). What lies in its first directory lies in its last (`ChainHolds`): at
the first place where a path would leave the chain, the directory there has two
entries or a file, and is not joined. So the files of a folder are those of the
directory it starts from (`FolderHolds`), a file belongs to one folder
(`FoldersPart`), and a folder leaves a choice or is a single file
(`FolderIsAChoice`). That no folder is lost for want of an end is what `EndsAt`
could hide, and `ChainEnds` rules out.

*Ranges.* `SpansAreAsked`: for a file of any size and any range, the bytes served
are those named, as far as the file goes. A statement about an operator, not
about behaviours; its lemmas are the two forms of a range (`SuffixSpan`,
`PrefixSpan`).

*Artifacts.* `VersionsAreArtifacts` (`ArtifactsAreVersions`): a version has one row,
and the row that waits for its bytes is the newest (`OneOfEach`); of a file that
never went back to an earlier content, what is on disk or was fetched is the newest
row if it is one (`NewestIsFetched`). This needs the lock: between the two halves
of an ingestion nobody else ingests. `EveryTurnIsDiffed` (`TurnsAreDiffed`): the
end of a turn is heard once, and after its beginning (`BoundariesInOrder`,
`EndsHaveBeginnings`), unless it was evicted or unheard; a listing never has a
version that is still to be written (`ListingsArePast`), so that a file written
since differs from it (`PastStays`); and what differs between two listings is
noticed: it has been written again, or is being ingested, or has its row
(`ChangesAreNoticed`).

*Tags and collections.* `OwnersFollowTheirTags` (`RenamesKeepOwners`) and
`OrderStaysTheOperators` (`OrderIsTheOperators`), for any owners, names and orders:
a name has one id and what carries an id exists (`TagsKept`); positions of a
collection are distinct and below some number, so that there is room behind them
(`PlacesKept`).

### 4.7 ServiceProofs

*Prompt answers.* `ToldTheTruth` (`AppsAreToldTheTruth`), for any apps, prompts and
choices and any number of lost connections. `Answering` says, at each point of an
app's request, whether its answer counts: not before Hermes has taken it, for its
prompt once the reply is ok, for none if the reply is "expired". That a request is
not sent again once Hermes may have it is what keeps the first of these.

*Prompts in the chat.* `PromptsFindTheirRuns` (`OwnPrompt`), for any prompts,
compactions and restarts, as long as clients wait for each other (`alone`, as in
the property; without it the property is false, see 5). Then at most one prompt
is under way, and the system is in one of three states: nothing is
(`AtRest`), one is on its way to its run and no other row waits (`Coming`), or its
run is open and the row has been found (`Handled`). `RunsHaveRows` says that a run
has exactly one row, or a reason to have none yet or ever; `CapturesFit`, that a
capture is of the last run, and the newest prompt of the transcript is that
run's, however far the capture has come and whatever was compacted meanwhile.

*Profiles.* `ModelsStayUsable` (`ChosenModelsAreUsable`), for any profiles, providers,
requests and times. A write is recognised by its number, which nobody else has
(`NumbersKept`); `WritesKept` says whose profile has it between write, mirroring
and answer. `EndpointsKept` dates what the cache, a resolution and a rewrite know:
if the profile has another model by now, it was changed after the question. A
provider that cannot be mirrored is outside of the theorem.

*Settings.* `SettingsAreKept` (`OverlayIsKept`), for any settings, values and threads.
A stamp is of a file that was (`TimesKept`), so what is known of the present stamp
is the present file's (`ReadsKept`), and what a change merges is one of the files
there were since it read (`MergesKept`), or nothing when stat or read failed on one
of these versions: a failed read that was cached is known to be of the version its
stamp is of.

*Sandbox files.* `NoBlindNorTornSave` (`SavesAreSafe`), for any savers and texts: a
save that is past its comparison expects a text the file had since it was asked
(`NotBlind`), and as long as no two saves were writing at once the temporary file
is the writer's own and not the file (`WholeKept`).

*Converse.* `AnswersStayGrounded` (`AnswersAreGrounded`), for any records, scopes,
replies and bounds. The state is simple (`ConverseIInv`); the argument is about
`select_context`. Who is offered before whom is a strict order (`EarlierIs`): ranks
tell the records of a kind apart, since the better has the lower (`RanksRise`), and
at one rank the bests of the kinds decide (`BestIs`, `BeforeIs`). So the offered have
places, and a window filled to some place can be filled to the next (`FillsOn`,
`FillsAll`): there is one, the choice in `Window` is of it (`WindowIs`), and there is
no other (`OneWindow`). One of the newest turns was not taken because it does not
fit beside those before it, which are newer turns (`TurnsLeftOut`); before the best of a kind only turns and bests of
better kinds are offered (`BestsComeFirst`, `LeftOutForWantOfRoom`); and the last of
the window fits beside the others or is alone (`BudgetIsKept`). What a set of records
takes of the budget is counted in units, so that sums are cardinalities
(`CellsAre`, `UsedAdds`). `NewestTurnsAreShown` adds that no turn is left out when the
budget has room for `AnchorUnits` of the greatest length, which the defaults
provide and the settings need not (5).

### 4.8 UpkeepProofs

`WhatIsAttachedIsThere` (`AttachedIsThere`), for any attachments, stops and failures:
`Upheld` says what a row, its task, its fetch turn and the copy in the sandbox
know of each other, above all that a copy that is whole is out of the reach of any
fetch turn that is still to come.

`CopiesComeFirst` (`CopiesAreThere`), for any number of sessions, turns, requests
and copies a pass. A listing is never ahead of Hermes (`ListedWas`), a copy of the
sweep has at least the rows its index row counts (`CopiesHold`), and a route that
is about to delete has a copy of at least what there was when it was asked, or was
told to go on without (`RouteHolds`).

`DashboardsAreFew` (`FewDashboards`), for any profiles, process ids and requests:
with a reaper, the dashboards of a profile and the passes about to launch one for
it are together no more than the passes, and one for each launch whose reap failed
since a reap worked (`RoomForEach`). A reap that works makes room for every pass; one
that fails adds the one dashboard its launch is about to start.

### 4.9 What is model-checked only

* Liveness, which rests on fairness and ENABLED: `FramesArrive`,
  `ReplacedConnectionsAnnounced`, `ProvenIsCaptured`,
  `ReattachedAfterReconnect`, `EndedRunsAreClosed`,
  `FiledSessionsBecomeDurable`, `UploadsEnd`, `ProfilesFollowHermes`.

## 5. Observations

Met while modelling. Most are behaviours of the models, the others (such as
exceptions and short pages) are in what the models leave out; no property rules
them out, and no run is spent on them.

*Stream, runs, capture, background tasks, connection*

* `docs/STREAM_RECOVERY.md:15` announces a `stream.reset` frame after a refused
  cursor; `resume_cursor` (`event_stream.py:604`) turns the cursor into none, and
  the app learns of it from `cursor_reset` in `stream.ready` only.
* `GET /runs` reads running rows, awaits Hermes and closes the rows without
  looking again (`api/runs.py:167`): the outcome of a completion that arrived in
  between is lost. `ClosedRunsAreLeftAlone` leaves runs closed as stale out.
* `_record_synthetic` (`run_recorder.py:408`) writes an answer on the session's
  open run, though another run may have asked.
* `record_submitted` (`background_tasks.py:39`) deletes a row made by a
  completion that was applied before the route went on.
* `create_and_file_session` (`api/sessions.py:480`) submits the first message on
  a handle that a reconnect inside that submission has voided.
* The synthesized message of a background task has seq 0, so it is neither in
  the history nor replayed, although `stream_ready_frame` says that replay
  replaces a reload; a duplicate completion synthesizes the message again.
* A completion the adapter drops leaves the record, and the next turn of that
  session is recorded into the same run until the staleness check closes it.
* The retry of a durable event without a `run_events` row (a delta) is not
  recognised as a retry and may open a second, empty run.
* Rows of dead hosts without a proven owner count against the inbox quota for
  ever, and paging may capture two held events of one session in the opposite
  order of their arrival.
* The ledger write of a completion that fails is swallowed in
  `background_ledger.py:173`, and the inbox row acknowledged all the same; the
  generation stamp of a task's row is read after the await (`api/background.py:106`).
* A comment in `api/bootstrap.py` says that tasks orphaned at startup are not
  rescued; the first connection's change of generation rescues their sessions.
* Announcing capabilities can raise in `connect`, which leaves a socket that is
  up and has no heartbeat.
* A change of generation of the default connection interrupts the runs of every
  profile.

*Hooks and audit*

* An end hook that is drained before the socket's completion frame closes the run
  first, and the frame then opens and closes a run of its own; a late end hook of
  one turn closes the run of the next, and usage of a finished turn goes to the
  run that is open then, or nowhere. A late `pre_llm_call` leaves a prompt behind for the
  wrong run.
* A turn is noted as closed before its write, so a hook that repeats does not
  repeat a failed write. The audit counters are shared between threads without a
  lock, an error that is none of the network loses its batch counted as one
  error, and nobody calls `AuditForwarder.close`.

*Transcript*

* `OwnPrompt` is conditional: when clients do not wait for each other, a foreign turn
  may take the row of a send that is under way.
* A send that fails after Hermes accepted the prompt discards the row though its
  run has it. The first prompt of `create_and_file_session` writes no row.
* A turn that completes while a reasoning sync is reading is not reconciled
  until the next load; a step that never streamed may be shown on two rows after
  a reconcile.
* When the frame that ends a step is lost (`Unheard`), the buffer goes on with the
  next step and the row shows reasoning of two steps; the reconciliation finds it
  in neither, and leaves it.

*Snapshots, attachments, profiles*

* The routes list sessions after they read the transcript, so a row may carry a
  count newer than its copy and the sweep calls the copy current; the newest copy of
  a route may also be older than the one before it. `CopiesAreThere` and
  `Settled` speak of the sweep's copies.
* The sweep closes a session when no app held it as the sweep read its cache; an
  app may have resumed it since (`snapshot_sweeper.py:367`, `:387`).
* The sweep asks the default connection for its sessions (`snapshot_sweeper.py:274`,
  `:277`). A filed session of another profile is a candidate, but is never listed and
  skipped in every pass (`:299-301`): no pass makes it durable, while a project's
  view asks each profile (`api/projects.py:288-291`).
  `FiledSessionsBecomeDurable` speaks of the default profile's sessions. Copies by
  hand and before a deletion resume a session on its own profile, but take its list
  row from the default connection as well (`snapshot_builder.py:259`).
* `reap()` swallows its own failure, a timeout and an answer it does not understand
  (`profile_connection.py:199-216`), and `launch()` spawns regardless (`:224-226`): as
  long as reaping fails every launch may add a dashboard, without a limit. The
  bound of `FewDashboards` counts these launches.
* A task cancelled before its first step never orphans its row; the startup sweep
  does.
* Two passes that both launch a profile leave one connection that nobody closes.
  A stale pass revives a deleted profile, until the next. A launch that
  times out under `docker exec` kills the client only; a launch that is cancelled
  leaves its dashboard. A socket that drops while its dashboard runs is not reopened.
  The interval of the reconciliation is 0 (never) by default.
* The docstring of `resolve_profile_adapter` and its fallback disagree, and
  `invalidate_profile_endpoint_cache` is never called.

*Projects and artifacts*

* A session that only has a copy is called deleted if any profile was listed
  (`api/projects.py:656`), and a malformed answer counts as an empty list;
  moving and unfiling look at no profile; runs keep the project they began in.
  `create_and_file_session` answers 500 and leaves a session unfiled when its
  project is deleted meanwhile.
* Content that returns to an earlier version touches the older row. A row that
  waited for its bytes never gets the tags of its filing, and stays unavailable if
  the bytes turn out to be an older version. A file that its owner unfiled is
  filed again by the next ingestion. Files written before the first listing, or below
  a directory the second could not read, are missed. A path that fails
  validation is written outside the lock.
* By file, paging starts again when the cursor's row has vanished; the kind
  filter comes after the limit, so a page may be short; the bookmark shelf ignores
  the kind; a folder prefix that names a file raises IndexError.
* Renaming a collection to a taken name, and naming an artifact twice in one
  addition, raise IntegrityError. A tag that promotion refuses is
  refused after the ingestion.

*Service*

* A profile that is renamed and recreated under a PUT gets the provider of whoever
  has the name by then; cloning while a provider is mirrored copies a profile
  without it.
* `_mirror_provider_into_profile` returns without an error for a user-defined
  provider that has no `api_url` or whose slug its pattern refuses
  (`api/profile_admin.py:261-268`), and the route answers 200: the profile has a model
  whose provider it does not define, and its first turn fails, which is what the
  comment at `:253` wants to avoid. `ChosenModelsAreUsable` speaks of providers that
  can be mirrored.
* A stat that fails counts as an absent overlay (`config/runtime_config.py:735-737`), a
  read that fails as an empty one (`:782-784`), which is kept under the stamp until
  the file changes (`:741-755`). A PUT then writes what it was given on top of nothing
  (`api/config.py:223-228`) and drops every other override, although the warning says
  that the gateway uses `.env` and "nothing else changed". `OverlayIsKept` excepts
  versions of the file on which stat or read failed.
* Two saves share a temporary name, so a file may be torn or a save answer 500.
  The backend that asks Hermes has no condition at all.
  `ensure_instructions_file` takes an unreadable or too large file for an absent one.
* A hand edit between reading and replacing the overlay is lost, one of the same
  size within one tick of the clock is not noticed, and a PUT drops entries that are
  not valid. A report reads settings and overlay one after the other.
* The setting "Recent records always included" (`config/runtime_config.py:359`) goes
  up to 50 records, but a record may take a quarter of the budget, and 400 characters
  of a budget that may be 200: from five long records on, some are left out.
* In the scope of a document the "recency" anchors are its last chunks; a condensed
  text may exceed its limit by the joins.
* `gateway/api/compress.py:181` uses the name `profile`, which is not defined there.

## 6. What is left

In the order of their worth:

1. A composition of `HermesConnection` with `BackgroundLedger` and the sweep over
   one generation and one set of live handles; they are modelled with a connection
   of their own each.
2. Two databases and one handler: `ArtifactIngest` with `ProjectFiling`, for the
   project a late ingestion is filed in.
3. Promotion and search of artifacts, the tool results of a served transcript,
   uploads and moves in the sandbox.
