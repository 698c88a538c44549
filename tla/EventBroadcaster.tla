-------------------------- MODULE EventBroadcaster --------------------------
(***************************************************************************)
(* The gateway -> app event stream: EventBroadcaster and _Subscriber of    *)
(* gateway/domain/event_stream.py, the socket handler of                   *)
(* gateway/api/events_ws.py, and the app as docs/STREAM_RECOVERY.md        *)
(* obliges it to behave (the app's own code is not in this repository).    *)
(*                                                                         *)
(* A frame is numbered when it is fanned out and every subscriber has a    *)
(* bounded private queue.  A subscriber that falls behind is cut off with  *)
(* one desynchronized frame; an app that comes back presents the epoch and *)
(* the sequence number it stopped at and is either replayed from a bounded *)
(* history or told to reload.  Frames with seq 0 are control frames (and   *)
(* the synthesized message of a finished background task): they are never  *)
(* part of the history.                                                    *)
(*                                                                         *)
(* Everything between two awaits of the event loop is one action: the pump *)
(* notes a replaced Hermes connection and fans out in the same turn.       *)
(***************************************************************************)
EXTENDS Integers, Sequences, FiniteSets, SequencesExt

CONSTANTS
  Clients,     (* the apps                                                 *)
  MaxFrames,   (* _MAX_SUBSCRIBER_QUEUED_FRAMES                            *)
  MaxBytes,    (* _MAX_SUBSCRIBER_QUEUED_BYTES, in the unit of Sizes       *)
  HistoryMax,  (* _HISTORY_MAX_FRAMES                                      *)
  Sizes,       (* the sizes an event frame may have                        *)
  MaxSeq,      (* bound: frames numbered per epoch                         *)
  MaxEpoch,    (* bound: gateway processes, one after the other            *)
  MaxGen,      (* bound: Hermes connections per process                    *)
  MaxLost      (* bound: events lost to an identity failure per process    *)

ASSUME QueueAssumption   == MaxFrames \in Nat \ {0} /\ MaxBytes \in Nat \ {0}
ASSUME HistoryAssumption == HistoryMax \in Nat \ {0}
ASSUME SizeAssumption    == Sizes # {} /\ Sizes \subseteq Nat
ASSUME BoundAssumption   == /\ MaxSeq \in Nat /\ MaxEpoch \in Nat /\ MaxGen \in Nat
                            /\ MaxLost \in Nat

VARIABLES
  epoch,       \* stream_epoch: a fresh one for every broadcaster
  lastSeq,     \* _last_seq; _seq hands out lastSeq + 1 next
  history,     \* _history: the newest numbered frames, oldest first
  gap,         \* _identity_gap: an event was lost, and stays lost
  generation,  \* the adapter's connection_generation
  seen,        \* _generation_seen
  subscribed,  \* _subscribers: the apps with a registered feed
  feed,        \* each app's _Subscriber
  client,      \* what each app knows and believes
  lost         \* observed: events of this process that no frame ever carried

streamVars == <<epoch, lastSeq, history, gap, lost>>
vars == <<epoch, lastSeq, history, gap, generation, seen, subscribed, feed,
          client, lost>>

-----------------------------------------------------------------------------
(* Frames.                                                                 *)

NoCursor == -1
ControlSize == 1

EventFrame(seq, gen, size) ==
  [type |-> "event", seq |-> seq, gen |-> gen, size |-> size]
ControlFrame(type, gen) ==
  [type |-> type, seq |-> 0, gen |-> gen, size |-> ControlSize]

ResetFrame  == ControlFrame("reset", generation)
ResyncFrame == ControlFrame("resync", generation)
SynthFrame  == ControlFrame("synth", generation)
DesyncFrame == ControlFrame("desync", generation)

(* Frames that tell the app to reload its transcript.                      *)
Reloading == {"reset", "desync"}

-----------------------------------------------------------------------------
(* The subscriber: a bounded queue that is cut off, never thinned out.     *)

EmptyFeed == [queue |-> <<>>, desync |-> FALSE]

QueuedBytes(q) == FoldLeft(LAMBDA n, f : n + f.size, 0, q)

Fits(q, f) ==
  /\ Len(q) < MaxFrames
  /\ QueuedBytes(q) + f.size <= MaxBytes

CutOff(q) == [queue |-> Append(q, DesyncFrame), desync |-> TRUE]

(* Seeded fault: a frame that does not fit is dropped, silently.           *)
OfferDropping(f, sub) ==
  IF Fits(sub.queue, f) THEN [sub EXCEPT !.queue = Append(@, f)] ELSE sub

(* _Subscriber.offer                                                       *)
Offer(f, sub) ==
  IF sub.desync THEN sub
  ELSE IF Fits(sub.queue, f) THEN [sub EXCEPT !.queue = Append(@, f)]
  ELSE CutOff(sub.queue)

(* Offering a run of frames to a feed that has just been opened: the first *)
(* k are taken, and the next, if there is one, does not fit.               *)
Taken(frames, k) ==
  /\ \A j \in 1..k : Fits(SubSeq(frames, 1, j - 1), frames[j])
  /\ k < Len(frames) => ~Fits(SubSeq(frames, 1, k), frames[k + 1])

Opened(frames, k) ==
  IF k < Len(frames) THEN CutOff(SubSeq(frames, 1, k))
  ELSE [queue |-> frames, desync |-> FALSE]

(* _fan_out, for every registered subscriber                               *)
FanOut(f, feeds) ==
  [c \in Clients |-> IF c \in subscribed THEN Offer(f, feeds[c]) ELSE feeds[c]]

(* The history deque, which drops its oldest frame when full.              *)
Remember(f) ==
  LET h == Append(history, f)
  IN  IF Len(h) > HistoryMax THEN Tail(h) ELSE h

-----------------------------------------------------------------------------
(* Resuming.                                                               *)

(* Seeded fault: the history is taken to reach one frame further back.     *)
NeedsResetLate(after) ==
  /\ after # NoCursor
  /\ after # lastSeq
  /\ after > lastSeq \/ history = <<>> \/ history[1].seq > after + 2

NeedsReset(after) ==
  /\ after # NoCursor
  /\ after # lastSeq
  /\ after > lastSeq \/ history = <<>> \/ history[1].seq > after + 1

(* The retained frames numbered after the cursor: the rest of the history  *)
(* behind the last one that is not.                                        *)
UpTo(after) ==
  CHOOSE n \in 0..Len(history) : \A i \in DOMAIN history : i > n <=> history[i].seq > after

Newer(after) ==
  IF after = NoCursor \/ NeedsReset(after) THEN <<>>
  ELSE SubSeq(history, UpTo(after) + 1, Len(history))

ReplayAvailable(after) == after # NoCursor /\ ~gap /\ ~NeedsReset(after)

(* Seeded fault: a cursor is honoured whatever epoch it comes from.        *)
ResumeCursorAnyEpoch(after, ep) ==
  IF after # NoCursor /\ ReplayAvailable(after) THEN after ELSE NoCursor

(* resume_cursor: the cursor the socket handler goes on with.              *)
ResumeCursor(after, ep) ==
  IF after # NoCursor /\ ep = epoch /\ ReplayAvailable(after) THEN after ELSE NoCursor

-----------------------------------------------------------------------------
(* The app: the contract of docs/STREAM_RECOVERY.md.                       *)

(* epoch/cursor: the pair it resumes with.  known: it believes that it     *)
(* holds every frame up to this one.  stale: it owes a reload.  gen: the   *)
(* newest Hermes connection it was told of.  lost: the lost events its     *)
(* last reload gave it.                                                    *)
NewClient == [epoch |-> 0, cursor |-> 0, known |-> 0, stale |-> TRUE,
              gen |-> 0, lost |-> 0]

(* stream.ready: adopt the epoch and start over, unless it says replay.    *)
Greeted(cl, replay) ==
  IF replay THEN [cl EXCEPT !.gen = generation]
  ELSE [NewClient EXCEPT !.epoch = epoch, !.gen = generation]

Larger(m, n) == IF m > n THEN m ELSE n

Absorb(cl, f) ==
  CASE f.type = "event"  -> [cl EXCEPT !.cursor = Larger(@, f.seq),
                                       !.known = Larger(@, f.seq)]
    [] f.type = "synth"  -> cl
    [] f.type = "resync" -> [cl EXCEPT !.gen = f.gen]
    [] OTHER             -> [cl EXCEPT !.stale = TRUE]

-----------------------------------------------------------------------------
Init ==
  /\ epoch = 1
  /\ lastSeq = 0
  /\ history = <<>>
  /\ gap = FALSE
  /\ generation = 0
  /\ seen = 0
  /\ subscribed = {}
  /\ feed = [c \in Clients |-> EmptyFeed]
  /\ client = [c \in Clients |-> NewClient]
  /\ lost = 0

(* adapter.connect: the number moves before anything is sent on the new    *)
(* connection, and the broadcaster finds out later.                        *)
Reconnect ==
  /\ generation < MaxGen
  /\ generation' = generation + 1
  /\ UNCHANGED <<streamVars, seen, subscribed, feed, client>>

(* Seeded fault: the replaced connection is noted, and nobody is told.     *)
NotedSilently == feed

(* _note_connection_generation: the feeds after a resync frame, if due.    *)
Noted == IF seen = generation THEN feed ELSE FanOut(ResyncFrame, feed)

(* The watcher's poll.                                                     *)
WatchGeneration ==
  /\ seen # generation
  /\ feed' = Noted
  /\ seen' = generation
  /\ UNCHANGED <<streamVars, generation, subscribed, client>>

(* _forward_one and _deliver of an event whose owner is known.  The event  *)
(* that ends a background task may be followed by the task's message.      *)
PublishEvent(size, background) ==
  LET f == EventFrame(lastSeq + 1, generation, size)
      delivered == FanOut(f, Noted)
  IN  /\ generation > 0
      /\ lastSeq < MaxSeq
      /\ lastSeq' = f.seq
      /\ history' = Remember(f)
      /\ feed' = IF background THEN FanOut(SynthFrame, delivered) ELSE delivered
      /\ seen' = generation
      /\ UNCHANGED <<epoch, gap, generation, subscribed, client, lost>>

(* inject: an event of another profile's connection.  It is numbered from  *)
(* the same counter but this connection's generation says nothing of it.   *)
InjectEvent(size) ==
  LET f == EventFrame(lastSeq + 1, 0, size)
  IN  /\ lastSeq < MaxSeq
      /\ lastSeq' = f.seq
      /\ history' = Remember(f)
      /\ feed' = FanOut(f, feed)
      /\ UNCHANGED <<epoch, gap, generation, seen, subscribed, client, lost>>

(* _identity_resync inside _forward_one: the event's owner cannot be       *)
(* proved, so the event is never numbered.                                 *)
LoseEvent ==
  /\ generation > 0
  /\ lost < MaxLost
  /\ lost' = lost + 1
  /\ gap' = TRUE
  /\ feed' = FanOut(ResetFrame, Noted)
  /\ seen' = generation
  /\ UNCHANGED <<epoch, lastSeq, history, generation, subscribed, client>>

(* stream_events up to stream.ready, of an app that presents  after  and   *)
(* ep: its own cursor and epoch, its own cursor without an epoch (a legacy *)
(* app), or no cursor at all.                                              *)
Connect(c, after, ep) ==
  LET cursor == ResumeCursor(after, ep)
      frames == IF NeedsReset(cursor) \/ gap THEN <<ResetFrame>> ELSE Newer(cursor)
  IN  /\ c \notin subscribed
      /\ generation > 0
      /\ subscribed' = subscribed \cup {c}
      /\ \E k \in 0..Len(frames) :
            /\ Taken(frames, k)
            /\ feed' = [feed EXCEPT ![c] = Opened(frames, k)]
      /\ client' = [client EXCEPT ![c] = Greeted(@, ReplayAvailable(cursor))]
      /\ UNCHANGED <<streamVars, generation, seen>>

Resume(c) == client[c].epoch > 0 /\ Connect(c, client[c].cursor, client[c].epoch)
LegacyResume(c) == client[c].epoch > 0 /\ Connect(c, client[c].cursor, 0)
Join(c) == Connect(c, NoCursor, 0)

Unsubscribe(c) ==
  /\ subscribed' = subscribed \ {c}
  /\ feed' = [feed EXCEPT ![c] = EmptyFeed]

(* _forward_events sends the oldest frame; a desynchronized one is the     *)
(* last, and the handler then closes the socket.                           *)
Forward(c) ==
  LET f == Head(feed[c].queue)
  IN  /\ c \in subscribed
      /\ feed[c].queue # <<>>
      /\ client' = [client EXCEPT ![c] = Absorb(@, f)]
      /\ IF f.type = "desync" THEN Unsubscribe(c)
         ELSE /\ feed' = [feed EXCEPT ![c].queue = Tail(@)]
              /\ UNCHANGED subscribed
      /\ UNCHANGED <<streamVars, generation, seen>>

(* The app hangs up, its network fails, or the upstream watch ends the     *)
(* socket: whatever is still queued for it is gone.                        *)
Disconnect(c) ==
  /\ c \in subscribed
  /\ Unsubscribe(c)
  /\ UNCHANGED <<streamVars, generation, seen, client>>

(* The app replaces its transcript by the gateway's authoritative one.     *)
Reload(c) ==
  /\ c \in subscribed
  /\ client[c].stale
  /\ client' = [client EXCEPT ![c].stale = FALSE, ![c].known = lastSeq,
                              ![c].lost = lost]
  /\ UNCHANGED <<streamVars, generation, seen, subscribed, feed>>

(* The gateway process ends and another starts, with a fresh broadcaster.  *)
Restart ==
  /\ epoch < MaxEpoch
  /\ epoch' = epoch + 1
  /\ lastSeq' = 0
  /\ history' = <<>>
  /\ gap' = FALSE
  /\ generation' = 0
  /\ seen' = 0
  /\ subscribed' = {}
  /\ feed' = [c \in Clients |-> EmptyFeed]
  /\ lost' = 0
  /\ UNCHANGED client

Next ==
  \/ Reconnect
  \/ WatchGeneration
  \/ \E size \in Sizes, background \in BOOLEAN : PublishEvent(size, background)
  \/ \E size \in Sizes : InjectEvent(size)
  \/ LoseEvent
  \/ \E c \in Clients : \/ Resume(c) \/ LegacyResume(c) \/ Join(c)
                         \/ Forward(c) \/ Disconnect(c) \/ Reload(c)
  \/ Restart

Spec == Init /\ [][Next]_vars

(* The forwarder task of an open socket and the generation watcher run as  *)
(* long as their socket or process does; nothing else has to happen.       *)
FairSpec ==
  /\ Spec
  /\ WF_vars(WatchGeneration)
  /\ \A c \in Clients : WF_vars(Forward(c))

-----------------------------------------------------------------------------
(* Correctness.                                                            *)

Holds(q, s) == \E i \in DOMAIN q : q[i].type = "event" /\ q[i].seq = s
Announced(q) == \E i \in DOMAIN q : q[i].type \in Reloading

(* An app on an open socket that owes no reload misses nothing.  Every     *)
(* frame beyond what it holds is queued for it, or a frame that tells it   *)
(* to reload is: this is what cut-offs, eviction from the history, wrong   *)
(* epochs and cursors must never break.  And an event the gateway could    *)
(* attribute to nobody was never numbered, so sequence numbers cannot      *)
(* betray it: the app has reloaded since, or is being told to.             *)
NothingIsMissed ==
  \A c \in subscribed :
    \/ client[c].stale
    \/ Announced(feed[c].queue)
    \/ /\ \A s \in (client[c].known + 1)..lastSeq : Holds(feed[c].queue, s)
       /\ client[c].lost = lost

(* Live handles die with a Hermes connection: a frame stamped with a newer *)
(* connection than the app knows of reaches it only after the resync.      *)
ResyncComesFirst ==
  \A c \in subscribed : \A i \in DOMAIN feed[c].queue :
    LET f == feed[c].queue[i]
    IN  f.type = "event" /\ f.gen > client[c].gen =>
          \E j \in 1..(i - 1) : /\ feed[c].queue[j].type = "resync"
                                /\ feed[c].queue[j].gen >= f.gen

(* An app that trusts its transcript is only ever extended by the next     *)
(* frame, whatever it was connected to before: see StreamContract.         *)
Contract == INSTANCE StreamContract WITH
  published <- lastSeq,
  known     <- [c \in Clients |-> [epoch |-> client[c].epoch, upTo |-> client[c].known]],
  told      <- [c \in Clients |-> client[c].stale]

ImplementsContract == Contract!Spec

(* A frame an app is still missing is delivered, or the app is told to     *)
(* reload, or its socket ends; a socket that stays open never stalls.      *)
FramesArrive ==
  \A c \in Clients : \A s \in 1..MaxSeq :
    (c \in subscribed /\ ~client[c].stale /\ client[c].known < s /\ s <= lastSeq)
      ~> (client[c].known >= s \/ client[c].stale \/ c \notin subscribed)

(* Every replaced Hermes connection is eventually known to every app with  *)
(* an open socket, although no event may ever arrive to reveal it.         *)
ReplacedConnectionsAnnounced ==
  \A c \in Clients : \A g \in 1..MaxGen :
    (c \in subscribed /\ generation = g)
      ~> (client[c].gen >= g \/ c \notin subscribed \/ generation # g)
=============================================================================
