-------------------------- MODULE HermesConnection --------------------------
(***************************************************************************)
(* Calls to Hermes over the one shared connection: HermesAdapter of        *)
(* gateway/adapters/hermes/client.py (connect, request, the receive loop), *)
(* the reconnect and retry rules of gateway/domain/hermes_runtime.py and   *)
(* the handle cache of gateway/domain/live_handles.py.                     *)
(*                                                                         *)
(* A call names a stored session; Hermes acts on live handles, which it    *)
(* mints per connection and which a later connection may give to another   *)
(* session.  Each call is a coroutine, and everything it does between two  *)
(* awaits is one action.  Sending a frame is one too: it either reaches    *)
(* the connection or raises, and then Hermes received nothing, which is    *)
(* what the retry rule of the code rests on.                               *)
(***************************************************************************)
EXTENDS Integers, Sequences

CONSTANTS
  Calls,         (* the coroutines of routes that call Hermes              *)
  Sessions,      (* stored session ids                                     *)
  Handles,       (* live handles                                           *)
  MaxGeneration  (* bound: connections                                     *)

ASSUME BoundAssumption == MaxGeneration \in Nat

VARIABLES
  generation,  \* connection_generation
  link,        \* "down": no reader; "broken": a reader, but _ws_live is off; "up"
  beating,     \* the heartbeat task runs
  lock,        \* hermes_connect_lock: the call that holds it, or Nobody
  call,        \* each call's coroutine
  pending,     \* _pending: the calls with a request in flight
  wire,        \* requests and replies on the connection
  owner,       \* Hermes: the session each handle of this connection was minted for
  forgotten,   \* Hermes: handles it has forgotten with the connection still open
  cache,       \* LiveHandleCache: the handle of each session, and its generation
  applied      \* observed: the sessions each call was applied to

hermesVars == <<owner, forgotten>>
vars == <<generation, link, beating, lock, call, pending, wire, owner, forgotten,
          cache, applied>>

Nobody    == "nobody"
NoHandle  == "no handle"
NoSession == "no session"

ASSUME NamesAssumption ==
  Nobody \notin Calls /\ NoHandle \notin Handles /\ NoSession \notin Sessions

Up == link = "up"

(* pc: idle, waiting (for the lock), connecting (with the lock), opening,  *)
(* readying, advertising (three awaits of connect), awaiting (a reply),    *)
(* done, failed.  kind: "send" goes through _with_live_handle, "create" is *)
(* create_and_file_session.  asks, cached, handle, gen: the request in     *)
(* flight.  answer: what its future holds.                                 *)
IdleCall == [pc |-> "idle", kind |-> "send", session |-> NoSession, tries |-> 1,
             asks |-> "none", cached |-> FALSE, handle |-> NoHandle, gen |-> 0,
             answer |-> "none"]

Ended == {"idle", "done", "failed"}

(* What is left of a coroutine that ends, or starts its operation anew.    *)
End(rec, pc) ==
  [IdleCall EXCEPT !.pc = pc, !.kind = rec.kind, !.session = rec.session]

Anew(rec, pc) ==
  [End(rec, pc) EXCEPT !.tries = rec.tries,
                       !.handle = IF rec.kind = "create" THEN rec.handle ELSE NoHandle]

-----------------------------------------------------------------------------
(* The handle cache.                                                       *)

Empty == [gen |-> 0, handle |-> NoHandle]

(* get                                                                     *)
Cached(s) == IF cache[s].gen = generation THEN cache[s].handle ELSE NoHandle

(* put                                                                     *)
Put(s, h) == cache' = [cache EXCEPT ![s] = [gen |-> generation, handle |-> h]]

(* discard                                                                 *)
Discard(s) == cache' = [cache EXCEPT ![s] = IF @.gen = generation THEN Empty ELSE @]

-----------------------------------------------------------------------------
(* _ensure_connected and _with_reconnect.                                  *)

Waiting == {c \in Calls : call[c].pc = "waiting"}

(* What a coroutine does that finds the connection down.  holder: who has  *)
(* the lock now.  A lock that others wait for is not taken past them.      *)
SeekConnection(c, rec, holder) ==
  IF holder = Nobody /\ Waiting \ {c} = {}
  THEN /\ lock' = c
       /\ call' = [call EXCEPT ![c] = Anew(rec, "connecting")]
  ELSE /\ lock' = holder
       /\ call' = [call EXCEPT ![c] = Anew(rec, "waiting")]

(* The request was never sent: one retry, from _ensure_connected on.       *)
NotSent(c, rec, holder) ==
  IF rec.tries = 1 THEN SeekConnection(c, [rec EXCEPT !.tries = 2], holder)
  ELSE /\ lock' = holder
       /\ call' = [call EXCEPT ![c] = End(rec, "failed")]

(* request, up to its await.                                               *)
Request(c, rec, holder) ==
  \/ /\ Up
     /\ call' = [call EXCEPT ![c] =
                   [rec EXCEPT !.pc = "awaiting", !.gen = generation, !.answer = "none"]]
     /\ pending' = pending \cup {c}
     /\ wire' = wire \cup {[call |-> c, asks |-> rec.asks, handle |-> rec.handle,
                            session |-> rec.session, answer |-> "none"]}
     /\ lock' = holder
     /\ UNCHANGED link
  \/ /\ link' = IF Up THEN "broken" ELSE link
     /\ NotSent(c, rec, holder)
     /\ UNCHANGED <<pending, wire>>

(* The operation a route hands to _with_reconnect, up to its first await.  *)
Operate(c, rec, holder) ==
  LET h == Cached(rec.session)
  IN  IF rec.kind = "create"
      THEN Request(c, [rec EXCEPT !.asks = IF rec.handle = NoHandle THEN "create" ELSE "submit"],
                   holder)
      ELSE Request(c, [rec EXCEPT !.asks   = IF h = NoHandle THEN "resume" ELSE "submit",
                                  !.cached = h # NoHandle,
                                  !.handle = h], holder)

(* _with_reconnect, up to its first await.                                 *)
Enter(c, rec) ==
  \/ Up /\ Operate(c, rec, lock)
  \/ /\ ~Up
     /\ SeekConnection(c, rec, lock)
     /\ UNCHANGED <<link, pending, wire>>

-----------------------------------------------------------------------------
Init ==
  /\ generation = 0
  /\ link = "down"
  /\ beating = FALSE
  /\ lock = Nobody
  /\ call = [c \in Calls |-> IdleCall]
  /\ pending = {}
  /\ wire = {}
  /\ owner = [h \in Handles |-> NoSession]
  /\ forgotten = {}
  /\ cache = [s \in Sessions |-> Empty]
  /\ applied = [c \in Calls |-> <<>>]

(* A session to be created is nobody's yet.                                *)
Fresh(s) ==
  /\ \A h \in Handles : owner[h] # s
  /\ cache[s] = Empty
  /\ \A d \in Calls : call[d].session = s => call[d].pc \in Ended

(* A route is called.  Its coroutine is new; frames of the one that had    *)
(* its name are gone.                                                      *)
Start(c, s, kind) ==
  /\ call[c].pc \in Ended
  /\ \A f \in wire : f.call # c
  /\ kind = "create" => Fresh(s)
  /\ Enter(c, [IdleCall EXCEPT !.kind = kind, !.session = s])
  /\ applied' = [applied EXCEPT ![c] = <<>>]
  /\ UNCHANGED <<generation, beating, hermesVars, cache>>

(* The lock is free; somebody may have connected in the meantime.          *)
Acquire(c) ==
  /\ call[c].pc = "waiting"
  /\ lock = Nobody
  /\ \/ Up /\ Operate(c, call[c], Nobody)
     \/ /\ ~Up
        /\ lock' = c
        /\ call' = [call EXCEPT ![c].pc = "connecting"]
        /\ UNCHANGED <<link, pending, wire>>
  /\ UNCHANGED <<generation, beating, hermesVars, cache, applied>>

-----------------------------------------------------------------------------
(* connect.                                                                *)

(* Seeded fault: the calls that wait for a reply are not told.             *)
TellNobody(calls) == calls

(* The receive loop ends: every future it will not resolve is failed.      *)
FailPending(calls) ==
  [d \in Calls |-> IF d \in pending THEN [calls[d] EXCEPT !.answer = "closed"] ELSE calls[d]]

(* The socket and its reader are gone, and Hermes drops its handles.       *)
ReaderEnds(calls) ==
  /\ link' = "down"
  /\ call' = FailPending(calls)
  /\ pending' = {}
  /\ wire' = {}
  /\ owner' = [h \in Handles |-> NoSession]
  /\ forgotten' = {}

(* _teardown_ws, and the generation before anything else.                  *)
BeginConnect(c) ==
  /\ call[c].pc = "connecting"
  /\ generation < MaxGeneration
  /\ generation' = generation + 1
  /\ beating' = FALSE
  /\ ReaderEnds([call EXCEPT ![c].pc = "opening"])
  /\ UNCHANGED <<lock, cache, applied>>

Open(c) ==
  /\ call[c].pc = "opening"
  /\ call' = [call EXCEPT ![c].pc = "readying"]
  /\ link' = "up"
  /\ UNCHANGED <<generation, beating, lock, pending, wire, hermesVars, cache, applied>>

(* gateway.ready has been read.                                            *)
Ready(c) ==
  /\ call[c].pc = "readying"
  /\ link # "down"
  /\ call' = [call EXCEPT ![c].pc = "advertising"]
  /\ UNCHANGED <<generation, link, beating, lock, pending, wire, hermesVars, cache, applied>>

(* connect returns, the lock is released, and the operation begins.        *)
Advertised(c) ==
  /\ call[c].pc = "advertising"
  /\ beating' = TRUE
  /\ Operate(c, call[c], Nobody)
  /\ UNCHANGED <<generation, hermesVars, cache, applied>>

(* Connecting raised: the lock is released and the call fails.             *)
FailedConnecting(c) ==
  /\ call' = [call EXCEPT ![c] = End(@, "failed")]
  /\ lock' = Nobody

(* The login, the ticket or the upgrade fails, or the capabilities cannot  *)
(* be announced: the socket, if there is one, stays.                       *)
ConnectFails(c) ==
  /\ call[c].pc \in {"connecting", "opening", "advertising"}
  /\ FailedConnecting(c)
  /\ UNCHANGED <<generation, link, beating, pending, wire, hermesVars, cache, applied>>

(* gateway.ready did not come in time: the socket is closed.               *)
ReadyTimesOut(c) ==
  /\ call[c].pc = "readying"
  /\ ReaderEnds([call EXCEPT ![c] = End(@, "failed")])
  /\ beating' = FALSE
  /\ lock' = Nobody
  /\ UNCHANGED <<generation, cache, applied>>

-----------------------------------------------------------------------------
(* The connection.                                                         *)

LinkDies ==
  /\ link # "down"
  /\ ReaderEnds(call)
  /\ UNCHANGED <<generation, beating, lock, cache, applied>>

(* A heartbeat is not answered: nothing more is sent, the reader goes on.  *)
HeartbeatFails ==
  /\ beating
  /\ Up
  /\ link' = "broken"
  /\ beating' = FALSE
  /\ UNCHANGED <<generation, lock, call, pending, wire, hermesVars, cache, applied>>

(* _dispatch_line: a reply resolves its future, if it still waits.         *)
Dispatch(f) ==
  /\ f.answer # "none"
  /\ wire' = wire \ {f}
  /\ pending' = pending \ {f.call}
  /\ call' = IF f.call \in pending
             THEN [call EXCEPT ![f.call].answer = f.answer, ![f.call].handle = f.handle]
             ELSE call
  /\ UNCHANGED <<generation, link, beating, lock, hermesVars, cache, applied>>

-----------------------------------------------------------------------------
(* Hermes: resumes are idempotent within a connection, and a handle is not *)
(* minted twice on one.                                                    *)

Live(h) == owner[h] # NoSession /\ h \notin forgotten

HandlesFor(s) ==
  LET live == {h \in Handles : Live(h) /\ owner[h] = s}
  IN  IF live # {} THEN live ELSE {h \in Handles : owner[h] = NoSession}

Reply(f, answer, h) ==
  wire' = (wire \ {f}) \cup {[f EXCEPT !.answer = answer, !.handle = h]}

HermesResumes(f) ==
  /\ f.answer = "none"
  /\ f.asks \in {"resume", "create"}
  /\ \E h \in HandlesFor(f.session) :
        /\ owner' = [owner EXCEPT ![h] = f.session]
        /\ Reply(f, "ok", h)
  /\ UNCHANGED <<generation, link, beating, lock, call, pending, forgotten, cache, applied>>

HermesActs(f) ==
  /\ f.answer = "none"
  /\ f.asks = "submit"
  /\ IF Live(f.handle)
     THEN /\ Reply(f, "ok", f.handle)
          /\ applied' = [applied EXCEPT ![f.call] = Append(@, owner[f.handle])]
     ELSE /\ Reply(f, "unknown", f.handle)
          /\ UNCHANGED applied
  /\ UNCHANGED <<generation, link, beating, lock, call, pending, hermesVars, cache>>

(* Any other error of Hermes.                                              *)
HermesRefuses(f) ==
  /\ f.answer = "none"
  /\ Reply(f, "error", f.handle)
  /\ UNCHANGED <<generation, link, beating, lock, call, pending, hermesVars, cache, applied>>

HermesForgets(h) ==
  /\ Live(h)
  /\ forgotten' = forgotten \cup {h}
  /\ UNCHANGED <<generation, link, beating, lock, call, pending, wire, owner, cache, applied>>

-----------------------------------------------------------------------------
(* A coroutine goes on after its await.                                    *)

(* Seeded fault: the connection is not compared.                           *)
AnyConnection(c) == TRUE

SameConnection(c) == call[c].gen = generation

Resumable(c) == call[c].pc = "awaiting" /\ call[c].answer # "none"

(* What the call gets back and does not handle.                            *)
Hopeless(c) ==
  \/ call[c].answer \in {"closed", "error"}
  \/ ~SameConnection(c)
  \/ call[c].answer = "unknown" /\ ~call[c].cached

(* Seeded fault: a request whose connection closed is tried again.         *)
CallFailsUnlessRetried(c) ==
  /\ Resumable(c)
  /\ Hopeless(c)
  /\ NotSent(c, call[c], lock)
  /\ UNCHANGED <<generation, link, beating, pending, wire, hermesVars, cache, applied>>

CallFails(c) ==
  /\ Resumable(c)
  /\ Hopeless(c)
  /\ call' = [call EXCEPT ![c] = End(@, "failed")]
  /\ UNCHANGED <<generation, link, beating, lock, pending, wire, hermesVars, cache, applied>>

Answered(c, asks, answer) ==
  Resumable(c) /\ ~Hopeless(c) /\ call[c].asks = asks /\ call[c].answer = answer

(* A cached handle was rejected: it is discarded, the session resumed.     *)
HandleRejected(c) ==
  /\ Answered(c, "submit", "unknown")
  /\ Discard(call[c].session)
  /\ Request(c, [call[c] EXCEPT !.asks = "resume", !.cached = FALSE, !.handle = NoHandle], lock)
  /\ UNCHANGED <<generation, beating, hermesVars, applied>>

(* _resume_for_live_id returns, and the operation is run on its handle.    *)
SessionResumed(c) ==
  /\ Answered(c, "resume", "ok")
  /\ Put(call[c].session, call[c].handle)
  /\ Request(c, [call[c] EXCEPT !.asks = "submit"], lock)
  /\ UNCHANGED <<generation, beating, hermesVars, applied>>

(* create_and_file_session goes on to the first message.                   *)
SessionCreated(c) ==
  /\ Answered(c, "create", "ok")
  /\ Put(call[c].session, call[c].handle)
  /\ Enter(c, [call[c] EXCEPT !.tries = 1])
  /\ UNCHANGED <<generation, beating, hermesVars, applied>>

CallDone(c) ==
  /\ Answered(c, "submit", "ok")
  /\ call' = [call EXCEPT ![c] = End(@, "done")]
  /\ UNCHANGED <<generation, link, beating, lock, pending, wire, hermesVars, cache, applied>>

(* No reply in time: HermesProtocolError, which nobody retries.            *)
RequestTimesOut(c) ==
  /\ call[c].pc = "awaiting"
  /\ call[c].answer = "none"
  /\ call' = [call EXCEPT ![c] = End(@, "failed")]
  /\ pending' = pending \ {c}
  /\ UNCHANGED <<generation, link, beating, lock, wire, hermesVars, cache, applied>>

Connects(c) ==
  BeginConnect(c) \/ Open(c) \/ Ready(c) \/ Advertised(c) \/ ConnectFails(c) \/ ReadyTimesOut(c)

GoesOn(c) ==
  \/ CallFails(c) \/ HandleRejected(c) \/ SessionResumed(c) \/ SessionCreated(c)
  \/ CallDone(c) \/ RequestTimesOut(c)

Next ==
  \/ \E c \in Calls :
        \/ \E s \in Sessions, kind \in {"send", "create"} : Start(c, s, kind)
        \/ Acquire(c)
        \/ Connects(c)
        \/ GoesOn(c)
  \/ LinkDies
  \/ HeartbeatFails
  \/ \E f \in wire :
        Dispatch(f) \/ HermesResumes(f) \/ HermesActs(f) \/ HermesRefuses(f)
  \/ \E h \in Handles : HermesForgets(h)

Spec == Init /\ [][Next]_vars

-----------------------------------------------------------------------------
(* Correctness.                                                            *)

CallType ==
  [pc: Ended \cup {"waiting", "connecting", "opening", "readying", "advertising", "awaiting"},
   kind: {"send", "create"}, session: Sessions \cup {NoSession}, tries: {1, 2},
   asks: {"none", "resume", "create", "submit"}, cached: BOOLEAN,
   handle: Handles \cup {NoHandle}, gen: 0..MaxGeneration,
   answer: {"none", "ok", "unknown", "error", "closed"}]

FrameType ==
  [call: Calls, asks: {"resume", "create", "submit"}, handle: Handles \cup {NoHandle},
   session: Sessions, answer: {"none", "ok", "unknown", "error"}]

(* The types of the variables.  A submission always carries a handle.      *)
TypeOK ==
  /\ generation \in 0..MaxGeneration
  /\ link \in {"down", "broken", "up"}
  /\ beating \in BOOLEAN
  /\ lock \in Calls \cup {Nobody}
  /\ call \in [Calls -> CallType]
  /\ pending \subseteq Calls
  /\ wire \subseteq FrameType
  /\ \A f \in wire : f.asks = "submit" => f.handle # NoHandle
  /\ owner \in [Handles -> Sessions \cup {NoSession}]
  /\ forgotten \subseteq Handles
  /\ cache \in [Sessions -> [gen: 0..MaxGeneration, handle: Handles \cup {NoHandle}]]
  /\ applied \in [Calls -> Seq(Sessions)]

(* What goes to a session goes to no other: a call made through            *)
(* _with_live_handle is never applied to a session that was given its      *)
(* handle on another connection, whatever was replaced while it waited.    *)
RightSession ==
  \A c \in Calls : \A i \in DOMAIN applied[c] :
    call[c].kind = "send" => applied[c][i] = call[c].session

(* A handle the cache would hand out now was minted on this connection,    *)
(* for this session.                                                       *)
CacheIsOfThisConnection ==
  \A s \in Sessions :
    link # "down" /\ Cached(s) # NoHandle => owner[Cached(s)] = s

(* A call that waits for a reply waits for something: a live reader will   *)
(* resolve its future, or has.                                             *)
NobodyIsStranded ==
  \A c \in Calls :
    call[c].pc = "awaiting" /\ call[c].answer = "none" => c \in pending /\ link # "down"

(* A working connection is never replaced: of all the calls that found it  *)
(* broken, one rebuilds it.  Every replacement voids every live handle.    *)
WorkingConnectionIsKept ==
  [][generation' # generation => ~Up]_vars

(* Calls are done at most once, and are done if they are said to be: see   *)
(* CallContract.                                                           *)
Contract == INSTANCE CallContract WITH
  outcome <- [c \in Calls |->
                IF call[c].pc \in Ended THEN call[c].pc ELSE "asked"],
  times   <- [c \in Calls |-> Len(applied[c])]

ImplementsContract == Contract!Spec

(* The lock is never left behind, so nobody waits for it for ever: who     *)
(* holds it is connecting, and every step of connecting has a timeout.     *)
LockIsReturned ==
  lock # Nobody => call[lock].pc \in {"connecting", "opening", "readying", "advertising"}
=============================================================================
