----------------------- MODULE HermesConnectionProofs -----------------------
(***************************************************************************)
(* Theorems about HermesConnection for any number of calls, sessions,      *)
(* handles and connections: the types, the lock, the futures of requests   *)
(* in flight, the handle cache, the session a call is applied to, and that *)
(* the connection implements CallContract.  All rest on one inductive      *)
(* invariant, IInv.                                                        *)
(***************************************************************************)
EXTENDS HermesConnection, SequenceTheorems, TLAPS

Connecting == {"connecting", "opening", "readying", "advertising"}
Asks       == {"resume", "create", "submit"}
Mints      == {"resume", "create"}

(* The connect lock: its holder, and nobody else, is connecting, and only  *)
(* while there is no connection that works.                                *)
LockOK ==
  /\ lock # Nobody => call[lock].pc \in Connecting
  /\ \A c \in Calls :
       /\ call[c].pc \in Connecting => lock = c
       /\ call[c].pc = "connecting" => ~Up
       /\ call[c].pc = "opening" => link = "down"

(* Requests in flight: exactly those wait that a live reader knows of.     *)
PendingOK ==
  \A c \in Calls :
    /\ c \in pending <=> call[c].pc = "awaiting" /\ call[c].answer = "none"
    /\ c \in pending => link # "down"

(* Generations: nothing is stamped with a connection that is not there yet.*)
GenerationsOK ==
  /\ \A s \in Sessions : cache[s].gen <= generation
  /\ \A c \in Calls : call[c].gen <= generation
  /\ \A c \in Calls : call[c].pc = "opening" =>
       /\ \A s \in Sessions : cache[s].gen < generation
       /\ \A d \in Calls : call[d].gen < generation

(* What a coroutine has in its hands when its reply is there.              *)
RepliesOK ==
  \A c \in Calls :
    /\ call[c].pc # "idle" => call[c].session \in Sessions
    /\ call[c].pc = "awaiting" => call[c].asks \in Asks
    /\ call[c].pc = "awaiting" /\ call[c].answer = "ok" /\ call[c].asks \in Mints =>
         /\ call[c].handle \in Handles
         /\ call[c].gen = generation /\ link # "down" => owner[call[c].handle] = call[c].session

(* A call is applied at most once, to its own session if it is sent to one,*)
(* and what the coroutine knows of that is true.                           *)
AppliedOK ==
  \A c \in Calls :
    /\ \/ applied[c] = <<>>
       \/ \E s \in Sessions : /\ applied[c] = <<s>>
                              /\ call[c].kind = "send" => s = call[c].session
    /\ call[c].pc \in Connecting \cup {"waiting"} => applied[c] = <<>>
    /\ call[c].pc = "done" => applied[c] # <<>>
    /\ call[c].pc = "awaiting" /\ call[c].answer \in {"ok", "unknown", "error"} =>
         (applied[c] # <<>> <=> call[c].asks = "submit" /\ call[c].answer = "ok")

(* A frame on the wire.                                                    *)
FrameOK(f) ==
  /\ link # "down"
  /\ f.session = call[f.call].session
  /\ f.call \in pending \/ call[f.call].pc = "failed"
  /\ f.call \in pending => f.asks = call[f.call].asks
  /\ f.asks \in Mints /\ f.answer = "ok" => f.handle \in Handles /\ owner[f.handle] = f.session
  /\ f.asks = "submit" /\ call[f.call].kind = "send" => owner[f.handle] = f.session
  /\ applied[f.call] # <<>> <=> f.asks = "submit" /\ f.answer = "ok"

WireOK ==
  /\ \A f \in wire : FrameOK(f)
  /\ \A f, g \in wire : f.call = g.call => f = g

(* The inductive invariant.                                                *)
IInv ==
  /\ TypeOK
  /\ LockOK /\ PendingOK /\ GenerationsOK /\ RepliesOK /\ AppliedOK /\ WireOK
  /\ CacheIsOfThisConnection

-----------------------------------------------------------------------------
(* What becomes of a coroutine that goes for a connection and a request.   *)

(* It sends a request and waits for the reply, ...                         *)
Sent(c, r) ==
  /\ Up
  /\ r.pc = "awaiting" /\ r.answer = "none" /\ r.gen = generation /\ r.asks \in Asks
  /\ r.asks = "submit" =>
       r.handle \in Handles /\ (r.kind = "send" => owner[r.handle] = r.session)
  /\ pending' = pending \cup {c}
  /\ wire' = wire \cup {[call |-> c, asks |-> r.asks, handle |-> r.handle,
                         session |-> r.session, answer |-> "none"]}
  /\ link' = link

(* ... or it has found the connection gone.                                *)
Unsent(c, r) ==
  /\ r.pc \in {"connecting", "waiting", "failed"}
  /\ r.gen \in {0, call[c].gen}
  /\ pending' = pending /\ wire' = wire
  /\ link' \in {link, "broken"} /\ link' # "up"
  /\ link' = "down" <=> link = "down"

Goes(c, kind, session, holder) ==
  \E r \in CallType :
    /\ r.kind = kind /\ r.session = session
    /\ call' = [call EXCEPT ![c] = r]
    /\ Sent(c, r) \/ Unsent(c, r)
    /\ IF r.pc = "connecting" THEN holder = Nobody /\ lock' = c ELSE lock' = holder

(* A coroutine that ends, or starts its operation anew.                    *)
LEMMA EndFacts ==
  ASSUME NEW rec \in CallType,
         NEW pc \in Ended \cup {"connecting", "waiting"}
  PROVE  /\ End(rec, pc) \in CallType
         /\ End(rec, pc).pc = pc /\ End(rec, pc).kind = rec.kind
         /\ End(rec, pc).session = rec.session /\ End(rec, pc).gen = 0
<1>1. IdleCall \in CallType /\ IdleCall.gen = 0
  BY BoundAssumption DEF IdleCall, CallType, Ended
<1>2. rec.kind \in {"send", "create"} /\ rec.session \in Sessions \cup {NoSession}
  BY DEF CallType
<1>3. End(rec, pc) = [IdleCall EXCEPT !.pc = pc, !.kind = rec.kind, !.session = rec.session]
  BY DEF End
<1> QED  BY <1>1, <1>2, <1>3 DEF CallType, Ended

(* A coroutine that seeks the connection.                                  *)
LEMMA SeekFacts ==
  ASSUME NEW c \in Calls, NEW rec \in CallType, NEW holder, SeekConnection(c, rec, holder)
  PROVE  \E r \in CallType :
           /\ r.kind = rec.kind /\ r.session = rec.session /\ r.gen = 0
           /\ call' = [call EXCEPT ![c] = r]
           /\ r.pc \in {"connecting", "waiting"}
           /\ IF r.pc = "connecting" THEN holder = Nobody /\ lock' = c ELSE lock' = holder
<1>1. ASSUME NEW pc \in {"connecting", "waiting"}
      PROVE  /\ Anew(rec, pc) \in CallType /\ Anew(rec, pc).pc = pc
             /\ Anew(rec, pc).kind = rec.kind /\ Anew(rec, pc).session = rec.session
             /\ Anew(rec, pc).gen = 0
  <2> DEFINE h == IF rec.kind = "create" THEN rec.handle ELSE NoHandle
             e == End(rec, pc)
  <2>1. /\ h \in Handles \cup {NoHandle} /\ rec.tries \in {1, 2} /\ 0 \in 0..MaxGeneration
        /\ rec.kind \in {"send", "create"} /\ rec.session \in Sessions \cup {NoSession}
    BY BoundAssumption DEF CallType
  <2>2. Anew(rec, pc) = [e EXCEPT !.tries = rec.tries, !.handle = h]
    BY DEF Anew
  <2>3. /\ e \in CallType /\ e.pc = pc /\ e.kind = rec.kind /\ e.session = rec.session
        /\ e.gen = 0
    BY EndFacts
  <2> HIDE DEF h, e
  <2> QED  BY <2>1, <2>2, <2>3 DEF CallType
<1>2. CASE holder = Nobody /\ Waiting \ {c} = {}
  BY <1>1, <1>2 DEF SeekConnection
<1>3. CASE ~(holder = Nobody /\ Waiting \ {c} = {})
  BY <1>1, <1>3 DEF SeekConnection
<1> QED  BY <1>2, <1>3

(* A request that was not sent ends its call, or has it seek a connection. *)
LEMMA NotSentFacts ==
  ASSUME NEW c \in Calls, NEW rec \in CallType, NEW holder, NotSent(c, rec, holder)
  PROVE  \E r \in CallType :
           /\ r.kind = rec.kind /\ r.session = rec.session /\ r.gen = 0
           /\ call' = [call EXCEPT ![c] = r]
           /\ r.pc \in {"connecting", "waiting", "failed"}
           /\ IF r.pc = "connecting" THEN holder = Nobody /\ lock' = c ELSE lock' = holder
<1>1. CASE rec.tries = 1
  <2> DEFINE again == [rec EXCEPT !.tries = 2]
  <2>1. again \in CallType /\ again.kind = rec.kind /\ again.session = rec.session
    BY DEF CallType
  <2>2. SeekConnection(c, again, holder)
    BY <1>1 DEF NotSent
  <2> HIDE DEF again
  <2> QED  BY <2>1, <2>2, SeekFacts
<1>2. CASE rec.tries # 1
  <2>1. /\ End(rec, "failed") \in CallType /\ End(rec, "failed").pc = "failed"
        /\ End(rec, "failed").kind = rec.kind /\ End(rec, "failed").session = rec.session
        /\ End(rec, "failed").gen = 0
    BY EndFacts DEF Ended
  <2> QED  BY <1>2, <2>1 DEF NotSent
<1> QED  BY <1>1, <1>2

(* A coroutine that makes a request sends it, or goes on without having sent.*)
LEMMA RequestGoes ==
  ASSUME TypeOK, NEW c \in Calls, NEW rec \in CallType, NEW holder, Request(c, rec, holder),
         rec.asks \in Asks,
         Up /\ rec.asks = "submit" =>
           rec.handle \in Handles /\ (rec.kind = "send" => owner[rec.handle] = rec.session)
  PROVE  Goes(c, rec.kind, rec.session, holder)
<1>1. CASE Up /\ lock' = holder /\ UNCHANGED link
             /\ call' = [call EXCEPT ![c] = [rec EXCEPT !.pc = "awaiting", !.gen = generation,
                                                       !.answer = "none"]]
             /\ pending' = pending \cup {c}
             /\ wire' = wire \cup {[call |-> c, asks |-> rec.asks, handle |-> rec.handle,
                                    session |-> rec.session, answer |-> "none"]}
  <2> DEFINE r == [rec EXCEPT !.pc = "awaiting", !.gen = generation, !.answer = "none"]
  <2>1. /\ r \in CallType /\ r.pc = "awaiting" /\ r.gen = generation /\ r.answer = "none"
        /\ r.kind = rec.kind /\ r.session = rec.session /\ r.asks = rec.asks
        /\ r.handle = rec.handle
    BY DEF CallType, TypeOK
  <2>2. call' = [call EXCEPT ![c] = r]
    BY <1>1
  <2> HIDE DEF r
  <2>3. Sent(c, r)
    BY <1>1, <2>1 DEF Sent
  <2> QED  BY <1>1, <2>1, <2>2, <2>3 DEF Goes
<1>2. CASE /\ link' = IF Up THEN "broken" ELSE link
           /\ NotSent(c, rec, holder)
           /\ UNCHANGED <<pending, wire>>
  <2>1. link' \in {link, "broken"} /\ link' # "up" /\ (link' = "down" <=> link = "down")
    BY <1>2 DEF Up
  <2> QED  BY <1>2, <2>1, NotSentFacts DEF Goes, Unsent
<1> QED  BY <1>1, <1>2 DEF Request

(* So does one that carries out its operation,                             *)
LEMMA OperateGoes ==
  ASSUME TypeOK, CacheIsOfThisConnection, NEW c \in Calls, NEW rec \in CallType,
         rec.session \in Sessions, NEW holder, Operate(c, rec, holder)
  PROVE  Goes(c, rec.kind, rec.session, holder)
<1> DEFINE h == Cached(rec.session)
<1>1. h \in Handles \cup {NoHandle} /\ (Up /\ h # NoHandle => owner[h] = rec.session)
  BY DEF Cached, TypeOK, CacheIsOfThisConnection, Up
<1>2. CASE rec.kind = "create"
  <2> DEFINE r == [rec EXCEPT !.asks = IF rec.handle = NoHandle THEN "create" ELSE "submit"]
  <2>1. /\ r \in CallType /\ r.kind = "create" /\ r.session = rec.session
        /\ r.asks \in Asks /\ (r.asks = "submit" => r.handle \in Handles)
    BY <1>2 DEF CallType, Asks
  <2>2. Request(c, r, holder)
    BY <1>2 DEF Operate
  <2> HIDE DEF r
  <2> QED  BY <1>2, <2>1, <2>2, RequestGoes
<1>3. CASE rec.kind = "send"
  <2> DEFINE r == [rec EXCEPT !.asks = IF h = NoHandle THEN "resume" ELSE "submit",
                              !.cached = h # NoHandle, !.handle = h]
  <2>1. Request(c, r, holder)
    BY <1>3 DEF Operate
  <2> HIDE DEF h
  <2>2. /\ r \in CallType /\ r.kind = "send" /\ r.session = rec.session /\ r.handle = h
        /\ r.asks = IF h = NoHandle THEN "resume" ELSE "submit"
    BY <1>1, <1>3 DEF CallType, Asks
  <2> HIDE DEF r
  <2>3. r.asks \in Asks /\ (Up /\ r.asks = "submit" =>
                              r.handle \in Handles /\ owner[r.handle] = r.session)
    BY <1>1, <2>2 DEF Asks
  <2> QED  BY <1>3, <2>1, <2>2, <2>3, RequestGoes
<1>4. rec.kind \in {"send", "create"}
  BY DEF CallType
<1> QED  BY <1>2, <1>3, <1>4

(* and one that enters _with_reconnect.                                    *)
LEMMA EnterGoes ==
  ASSUME TypeOK, CacheIsOfThisConnection, NEW c \in Calls, NEW rec \in CallType,
         rec.session \in Sessions, Enter(c, rec)
  PROVE  Goes(c, rec.kind, rec.session, lock)
<1>1. CASE Up /\ Operate(c, rec, lock)
  BY <1>1, OperateGoes
<1>2. CASE ~Up /\ SeekConnection(c, rec, lock) /\ UNCHANGED <<link, pending, wire>>
  BY <1>2, SeekFacts DEF Goes, Unsent, Up
<1> QED  BY <1>1, <1>2 DEF Enter

(* What such a coroutine may do to the cache before it goes.               *)
CacheStep ==
  \A s \in Sessions :
    \/ cache'[s] = cache[s]
    \/ cache'[s] = Empty
    \/ /\ cache'[s].gen = generation /\ cache'[s].handle \in Handles
       /\ \A d \in Calls : call[d].pc # "opening"
       /\ link # "down" => owner[cache'[s].handle] = s

(* A coroutine without a request in flight may go.                         *)
LEMMA GoesKeeps ==
  ASSUME IInv, NEW c \in Calls, NEW kind \in {"send", "create"}, NEW session \in Sessions,
         NEW holder, Goes(c, kind, session, holder),
         c \notin pending, \A f \in wire : f.call # c,
         (holder = lock /\ lock # c) \/ (holder = Nobody /\ lock \in {c, Nobody}),
         applied' = [applied EXCEPT ![c] = <<>>],
         cache' \in [Sessions -> [gen: 0..MaxGeneration, handle: Handles \cup {NoHandle}]],
         CacheStep, beating' \in BOOLEAN, UNCHANGED <<generation, hermesVars>>
  PROVE  IInv'
<1>1. PICK r \in CallType :
        /\ r.kind = kind /\ r.session = session
        /\ call' = [call EXCEPT ![c] = r]
        /\ Sent(c, r) \/ Unsent(c, r)
        /\ IF r.pc = "connecting" THEN holder = Nobody /\ lock' = c ELSE lock' = holder
  BY DEF Goes
<1>2. /\ call \in [Calls -> CallType] /\ call' \in [Calls -> CallType] /\ call'[c] = r
      /\ \A d \in Calls : d # c => call'[d] = call[d]
  BY <1>1 DEF IInv, TypeOK
<1>3. /\ generation' = generation /\ owner' = owner /\ forgotten' = forgotten
      /\ generation \in Nat
      /\ \A d \in Calls : call[d].gen \in Nat
  BY BoundAssumption DEF hermesVars, IInv, TypeOK, CallType
<1>4. /\ r.pc \in {"awaiting", "connecting", "waiting", "failed"}
      /\ r.pc = "awaiting" <=> Sent(c, r)
      /\ r.gen \in {0, generation, call[c].gen}
      /\ link' = "down" <=> link = "down"
      /\ link' \in {"down", "broken", "up"}
      /\ link' = "up" <=> Sent(c, r)
      /\ Sent(c, r) => link = "up" /\ link' = "up"
  BY <1>1 DEF Sent, Unsent, Up, IInv, TypeOK
<1>5. /\ applied'[c] = <<>> /\ \A d \in Calls : d # c => applied'[d] = applied[d]
      /\ applied' \in [Calls -> Seq(Sessions)]
  <2>1. <<>> \in Seq(Sessions)
    BY EmptySeq
  <2> QED  BY <2>1 DEF IInv, TypeOK
<1> DEFINE f0 == [call |-> c, asks |-> r.asks, handle |-> r.handle, session |-> r.session,
                  answer |-> "none"]
<1>6. /\ Sent(c, r) => pending' = pending \cup {c} /\ wire' = wire \cup {f0}
      /\ ~Sent(c, r) => pending' = pending /\ wire' = wire
  BY <1>1 DEF Sent, Unsent
<1>7. Sent(c, r) => /\ f0 \in FrameType
                    /\ f0.asks = "submit" => f0.handle \in Handles
  BY <1>1 DEF Sent, FrameType, Asks, CallType
<1>10. TypeOK'
  <2>1. wire' \subseteq FrameType /\ \A f \in wire' : f.asks = "submit" => f.handle # NoHandle
    BY <1>6, <1>7, NamesAssumption DEF IInv, TypeOK
  <2>2. lock' \in Calls \cup {Nobody}
    BY <1>1 DEF IInv, TypeOK
  <2>3. pending' \subseteq Calls
    BY <1>6 DEF IInv, TypeOK
  <2> QED  BY <1>2, <1>3, <1>4, <1>5, <2>1, <2>2, <2>3 DEF IInv, TypeOK
<1>11. LockOK'
  <2>1. \A d \in Calls : d # c /\ call[d].pc \in Connecting => lock = d /\ holder = lock
    BY DEF IInv, LockOK
  <2>2. r.pc = "connecting" => holder = Nobody /\ lock' = c
    BY <1>1
  <2>3. r.pc # "connecting" => lock' = holder
    BY <1>1
  <2>4. lock' # Nobody => call'[lock'].pc \in Connecting
    <3>1. CASE r.pc = "connecting"
      BY <2>2, <1>2, <3>1 DEF Connecting
    <3>2. CASE r.pc # "connecting" /\ holder # Nobody
      <4>1. lock' = lock /\ lock # c /\ lock \in Calls
        BY <3>2, <2>3 DEF IInv, TypeOK
      <4> QED  BY <4>1, <3>2, <2>3, <1>2 DEF IInv, LockOK
    <3> QED  BY <3>1, <3>2, <2>3
  <2>5. ASSUME NEW d \in Calls
        PROVE  /\ call'[d].pc \in Connecting => lock' = d
               /\ call'[d].pc = "connecting" => link' # "up"
               /\ call'[d].pc = "opening" => link' = "down"
    <3>1. CASE d = c
      BY <3>1, <1>2, <1>4, <2>2 DEF Connecting, Sent
    <3>2. CASE d # c
      <4>1. call'[d] = call[d]
        BY <3>2, <1>2
      <4>2. call[d].pc \in Connecting => lock' = d
        BY <2>1, <2>2, <2>3, <3>2, NamesAssumption
      <4>3. /\ call[d].pc = "connecting" => link # "up"
            /\ call[d].pc = "opening" => link = "down"
        BY DEF IInv, LockOK, Up
      <4> QED  BY <4>1, <4>2, <4>3, <1>4
    <3> QED  BY <3>1, <3>2
  <2> QED  BY <2>4, <2>5 DEF LockOK, Up
<1>12. PendingOK'
  <2> SUFFICES ASSUME NEW d \in Calls
               PROVE  /\ d \in pending' <=> call'[d].pc = "awaiting" /\ call'[d].answer = "none"
                      /\ d \in pending' => link' # "down"
    BY DEF PendingOK
  <2>1. CASE d = c
    BY <2>1, <1>2, <1>4, <1>6 DEF Sent
  <2>2. CASE d # c
    BY <2>2, <1>2, <1>4, <1>6 DEF IInv, PendingOK
  <2> QED  BY <2>1, <2>2
<1>13. GenerationsOK'
  <2>1. \A s \in Sessions : cache'[s].gen <= generation
    BY <1>3 DEF IInv, GenerationsOK, CacheStep, Empty
  <2>2. \A d \in Calls : call'[d].gen <= generation
    BY <1>2, <1>3, <1>4 DEF IInv, GenerationsOK
  <2>3. ASSUME NEW d \in Calls, call'[d].pc = "opening"
        PROVE  /\ \A s \in Sessions : cache'[s].gen < generation
               /\ \A e \in Calls : call'[e].gen < generation
    <3>1. d # c /\ call[d].pc = "opening" /\ link = "down"
      BY <2>3, <1>2, <1>4 DEF IInv, LockOK
    <3>2. 0 < generation /\ \A e \in Calls : call[e].gen < generation
      BY <3>1, <1>3 DEF IInv, GenerationsOK
    <3>3. r.gen < generation
      BY <3>1, <3>2, <1>1, <1>4 DEF Unsent
    <3>4. \A s \in Sessions : cache'[s].gen < generation
      BY <3>1, <3>2 DEF IInv, GenerationsOK, CacheStep, Empty
    <3> QED  BY <3>2, <3>3, <3>4, <1>2
  <2> QED  BY <2>1, <2>2, <2>3, <1>3 DEF GenerationsOK
<1>14. RepliesOK'
  <2> SUFFICES ASSUME NEW d \in Calls
               PROVE  /\ call'[d].pc # "idle" => call'[d].session \in Sessions
                      /\ call'[d].pc = "awaiting" => call'[d].asks \in Asks
                      /\ call'[d].pc = "awaiting" /\ call'[d].answer = "ok"
                         /\ call'[d].asks \in Mints =>
                           /\ call'[d].handle \in Handles
                           /\ call'[d].gen = generation /\ link' # "down" =>
                                owner[call'[d].handle] = call'[d].session
    BY <1>3 DEF RepliesOK
  <2>1. CASE d = c
    BY <2>1, <1>1, <1>2, <1>4 DEF Sent
  <2>2. CASE d # c
    BY <2>2, <1>2, <1>4 DEF IInv, RepliesOK
  <2> QED  BY <2>1, <2>2
<1>15. AppliedOK'
  <2> SUFFICES ASSUME NEW d \in Calls
               PROVE  /\ \/ applied'[d] = <<>>
                         \/ \E s \in Sessions : /\ applied'[d] = <<s>>
                                                /\ call'[d].kind = "send" => s = call'[d].session
                      /\ call'[d].pc \in Connecting \cup {"waiting"} => applied'[d] = <<>>
                      /\ call'[d].pc = "done" => applied'[d] # <<>>
                      /\ call'[d].pc = "awaiting" /\ call'[d].answer \in {"ok", "unknown", "error"}
                         => (applied'[d] # <<>> <=> call'[d].asks = "submit"
                                                    /\ call'[d].answer = "ok")
    BY DEF AppliedOK
  <2>1. CASE d = c
    BY <2>1, <1>2, <1>4, <1>5 DEF Sent
  <2>2. CASE d # c
    BY <2>2, <1>2, <1>5 DEF IInv, AppliedOK
  <2> QED  BY <2>1, <2>2
<1>16. WireOK'
  <2>1. \A f \in wire : f.call \in Calls /\ f.call # c
    BY DEF IInv, TypeOK, FrameType
  <2>2. \A f \in wire : FrameOK(f)'
    BY <2>1, <1>2, <1>3, <1>4, <1>5, <1>6 DEF IInv, WireOK, FrameOK
  <2>3. Sent(c, r) => FrameOK(f0)'
    BY <1>1, <1>2, <1>3, <1>4, <1>5, <1>6 DEF Sent, FrameOK
  <2>4. wire' \subseteq wire \cup {f0} /\ (f0 \in wire' => Sent(c, r) \/ f0 \in wire)
    BY <1>6
  <2>5. f0.call = c
    OBVIOUS
  <2> HIDE DEF f0
  <2> QED  BY <2>1, <2>2, <2>3, <2>4, <2>5 DEF IInv, WireOK
<1>17. CacheIsOfThisConnection'
  <2> SUFFICES ASSUME NEW s \in Sessions, link' # "down", cache'[s].gen = generation,
                      cache'[s].handle # NoHandle
               PROVE  owner[cache'[s].handle] = s
    BY <1>3 DEF CacheIsOfThisConnection, Cached
  <2> QED  BY <1>4 DEF CacheStep, Empty, IInv, CacheIsOfThisConnection, Cached
<1> QED  BY <1>10, <1>11, <1>12, <1>13, <1>14, <1>15, <1>16, <1>17 DEF IInv

-----------------------------------------------------------------------------
(* The other ways a step changes the state.                                *)

(* The reader ends, on its own or because a coroutine tears it down.       *)
LEMMA ReaderEndsKeeps ==
  ASSUME IInv, NEW calls \in [Calls -> CallType], ReaderEnds(calls),
         \A d \in Calls :
           \/ calls[d] = call[d]
           \/ /\ call[d].pc \in Connecting /\ calls[d].pc \in {"opening", "failed"}
              /\ calls[d].kind = call[d].kind /\ calls[d].session = call[d].session
              /\ calls[d].gen \in {0, call[d].gen},
         lock' \in Calls \cup {Nobody},
         lock' # Nobody => calls[lock'].pc \in Connecting,
         \A d \in Calls : calls[d].pc \in Connecting => lock' = d,
         generation' \in 0..MaxGeneration,
         \/ generation' = generation /\ \A d \in Calls : calls[d].pc = "opening" => calls[d] = call[d]
         \/ generation' = generation + 1,
         beating' \in BOOLEAN, UNCHANGED <<cache, applied>>
  PROVE  IInv'
<1>1. /\ call \in [Calls -> CallType] /\ generation \in Nat /\ generation' \in Nat
      /\ \A d \in Calls : call[d].gen \in Nat /\ calls[d].gen \in Nat
      /\ \A s \in Sessions : cache[s].gen \in Nat
  BY BoundAssumption DEF IInv, TypeOK, CallType
<1>2. /\ link' = "down" /\ pending' = {} /\ wire' = {} /\ forgotten' = {}
      /\ owner' = [h \in Handles |-> NoSession]
      /\ call' = [d \in Calls |-> IF d \in pending THEN [calls[d] EXCEPT !.answer = "closed"]
                                  ELSE calls[d]]
  BY DEF ReaderEnds, FailPending
<1>3. call' \in [Calls -> CallType]
  <2> SUFFICES ASSUME NEW d \in Calls
               PROVE  (IF d \in pending THEN [calls[d] EXCEPT !.answer = "closed"] ELSE calls[d])
                        \in CallType
    BY <1>2
  <2>1. calls[d] \in CallType
    OBVIOUS
  <2> QED  BY <2>1 DEF CallType
<1>4. ASSUME NEW d \in Calls
      PROVE  /\ call'[d].pc = calls[d].pc /\ call'[d].kind = calls[d].kind
             /\ call'[d].session = calls[d].session /\ call'[d].gen = calls[d].gen
             /\ call'[d].asks = calls[d].asks /\ call'[d].handle = calls[d].handle
             /\ call'[d].answer = IF d \in pending THEN "closed" ELSE calls[d].answer
  <2>1. calls[d] \in CallType
    OBVIOUS
  <2> QED  BY <2>1, <1>2 DEF CallType
<1>5. \A d \in Calls : calls[d] # call[d] =>
        /\ call[d].pc \in Connecting /\ calls[d].pc \in {"opening", "failed"}
        /\ calls[d].kind = call[d].kind /\ calls[d].session = call[d].session
        /\ calls[d].gen \in {0, call[d].gen}
  OBVIOUS
<1>6. \A d \in Calls : d \in pending <=> call[d].pc = "awaiting" /\ call[d].answer = "none"
  BY DEF IInv, PendingOK
<1>10. TypeOK'
  BY <1>2, <1>3 DEF IInv, TypeOK
<1>11. LockOK'
  <2>1. lock' # Nobody => lock' \in Calls
    OBVIOUS
  <2>2. \A d \in Calls : calls[d].pc = "connecting" => link' # "up"
    BY <1>2
  <2> QED  BY <2>1, <2>2, <1>2, <1>4 DEF LockOK, Up
<1>12. PendingOK'
  <2> SUFFICES ASSUME NEW d \in Calls
               PROVE  ~(call'[d].pc = "awaiting" /\ call'[d].answer = "none")
    BY <1>2 DEF PendingOK
  <2> QED  BY <1>4, <1>5, <1>6
<1>13. GenerationsOK'
  <2>1. \A d \in Calls : calls[d].gen <= call[d].gen
    BY <1>1, <1>5
  <2>2. /\ \A s \in Sessions : cache[s].gen <= generation
        /\ \A d \in Calls : calls[d].gen <= generation
    BY <1>1, <2>1 DEF IInv, GenerationsOK
  <2>3. CASE generation' = generation + 1
    BY <2>2, <2>3, <1>1, <1>4 DEF GenerationsOK
  <2>4. CASE generation' = generation
             /\ \A d \in Calls : calls[d].pc = "opening" => calls[d] = call[d]
    <3> SUFFICES ASSUME NEW d \in Calls, call'[d].pc = "opening"
                 PROVE  /\ \A s \in Sessions : cache[s].gen < generation
                        /\ \A e \in Calls : call'[e].gen < generation
      BY <2>2, <2>4, <1>4 DEF GenerationsOK
    <3>1. call[d].pc = "opening"
      BY <2>4, <1>4
    <3>2. /\ \A s \in Sessions : cache[s].gen < generation
          /\ \A e \in Calls : call[e].gen < generation
      BY <3>1 DEF IInv, GenerationsOK
    <3> QED  BY <3>2, <2>1, <1>1, <1>4
  <2> QED  BY <2>3, <2>4
<1>14. RepliesOK'
  BY <1>2, <1>4, <1>5 DEF IInv, RepliesOK, Connecting
<1>15. AppliedOK'
  <2> SUFFICES ASSUME NEW d \in Calls
               PROVE  /\ \/ applied[d] = <<>>
                         \/ \E s \in Sessions : /\ applied[d] = <<s>>
                                                /\ call'[d].kind = "send" => s = call'[d].session
                      /\ call'[d].pc \in Connecting \cup {"waiting"} => applied[d] = <<>>
                      /\ call'[d].pc = "done" => applied[d] # <<>>
                      /\ call'[d].pc = "awaiting" /\ call'[d].answer \in {"ok", "unknown", "error"}
                         => (applied[d] # <<>> <=> call'[d].asks = "submit"
                                                   /\ call'[d].answer = "ok")
    BY DEF AppliedOK
  <2>1. CASE calls[d] = call[d]
    BY <2>1, <1>4 DEF IInv, AppliedOK
  <2>2. CASE calls[d] # call[d]
    BY <2>2, <1>4, <1>5 DEF IInv, AppliedOK
  <2> QED  BY <2>1, <2>2
<1>16. WireOK' /\ CacheIsOfThisConnection'
  BY <1>2 DEF WireOK, CacheIsOfThisConnection
<1> QED  BY <1>10, <1>11, <1>12, <1>13, <1>14, <1>15, <1>16 DEF IInv

(* A coroutine without a request in flight gets on with connecting, or     *)
(* ends.  The link may come up, at the hands of the one that opens it.     *)
LEMMA OwnStepKeeps ==
  ASSUME IInv, NEW c \in Calls, c \notin pending, \A f \in wire : f.call # c,
         call[c].session \in Sessions,
         NEW r \in CallType, call' = [call EXCEPT ![c] = r],
         r.kind = call[c].kind, r.session = call[c].session, r.gen \in {0, call[c].gen},
         r.pc \in {"readying", "advertising", "done", "failed"},
         r.pc = "done" <=> applied[c] # <<>> /\ r.pc # "failed",
         IF r.pc \in Connecting THEN lock = c /\ lock' = c
         ELSE lock' = IF lock = c THEN Nobody ELSE lock,
         link' = link \/ (call[c].pc = "opening" /\ link' = "up"),
         beating' \in BOOLEAN,
         UNCHANGED <<generation, pending, wire, hermesVars, cache, applied>>
  PROVE  IInv'
<1>1. /\ call \in [Calls -> CallType] /\ call' \in [Calls -> CallType] /\ call'[c] = r
      /\ \A d \in Calls : d # c => call'[d] = call[d]
  BY DEF IInv, TypeOK
<1>2. /\ generation' = generation /\ owner' = owner /\ forgotten' = forgotten
      /\ generation \in Nat
      /\ \A d \in Calls : call[d].gen \in Nat
  BY BoundAssumption DEF hermesVars, IInv, TypeOK, CallType
<1>3. link' # link =>
        /\ link = "down" /\ link' = "up" /\ lock = c
        /\ \A s \in Sessions : cache[s].gen < generation
        /\ \A d \in Calls : call[d].gen < generation
  BY DEF IInv, LockOK, GenerationsOK, Connecting
<1>10. TypeOK'
  BY <1>1, <1>2, <1>3 DEF IInv, TypeOK
<1>11. LockOK'
  <2>1. lock' # Nobody => call'[lock'].pc \in Connecting
    <3>1. CASE r.pc \in Connecting
      BY <3>1, <1>1
    <3>2. CASE r.pc \notin Connecting /\ lock' # Nobody
      <4>1. lock' = lock /\ lock # c /\ lock \in Calls
        BY <3>2 DEF IInv, TypeOK
      <4> QED  BY <4>1, <3>2, <1>1 DEF IInv, LockOK
    <3> QED  BY <3>1, <3>2
  <2>2. ASSUME NEW d \in Calls
        PROVE  /\ call'[d].pc \in Connecting => lock' = d
               /\ call'[d].pc = "connecting" => link' # "up"
               /\ call'[d].pc = "opening" => link' = "down"
    <3>1. CASE d = c
      BY <3>1, <1>1
    <3>2. CASE d # c
      <4>1. call'[d] = call[d]
        BY <3>2, <1>1
      <4>2. call[d].pc \in Connecting => lock = d
        BY DEF IInv, LockOK
      <4>3. /\ call[d].pc = "connecting" => link # "up"
            /\ call[d].pc = "opening" => link = "down"
        BY DEF IInv, LockOK, Up
      <4>4. call[d].pc \in {"connecting", "opening"} => link' = link
        BY <4>2, <3>2, <1>3 DEF Connecting
      <4> QED  BY <4>1, <4>2, <4>3, <4>4, <3>2
    <3> QED  BY <3>1, <3>2
  <2> QED  BY <2>1, <2>2 DEF LockOK, Up
<1>12. PendingOK'
  <2>1. r.pc # "awaiting" /\ (link # "down" => link' # "down")
    BY <1>3
  <2> QED  BY <2>1, <1>1 DEF IInv, PendingOK
<1>13. GenerationsOK'
  <2>1. r.gen <= generation /\ r.pc # "opening"
    BY <1>2 DEF IInv, GenerationsOK
  <2>2. ASSUME NEW d \in Calls, call'[d].pc = "opening"
        PROVE  /\ \A s \in Sessions : cache[s].gen < generation
               /\ \A e \in Calls : call'[e].gen < generation
    <3>1. call[d].pc = "opening"
      BY <2>1, <2>2, <1>1
    <3>2. /\ \A s \in Sessions : cache[s].gen < generation
          /\ \A e \in Calls : call[e].gen < generation
      BY <3>1 DEF IInv, GenerationsOK
    <3> QED  BY <3>2, <1>1, <1>2
  <2> QED  BY <2>1, <2>2, <1>1, <1>2 DEF IInv, GenerationsOK
<1>14. RepliesOK'
  <2> SUFFICES ASSUME NEW d \in Calls
               PROVE  /\ call'[d].pc # "idle" => call'[d].session \in Sessions
                      /\ call'[d].pc = "awaiting" => call'[d].asks \in Asks
                      /\ call'[d].pc = "awaiting" /\ call'[d].answer = "ok"
                         /\ call'[d].asks \in Mints =>
                           /\ call'[d].handle \in Handles
                           /\ call'[d].gen = generation /\ link' # "down" =>
                                owner[call'[d].handle] = call'[d].session
    BY <1>2 DEF RepliesOK
  <2>1. CASE d = c
    BY <2>1, <1>1
  <2>2. CASE d # c
    <3>1. call'[d].gen = generation => link' = link
      BY <2>2, <1>1, <1>2, <1>3
    <3> QED  BY <3>1, <2>2, <1>1 DEF IInv, RepliesOK
  <2> QED  BY <2>1, <2>2
<1>15. AppliedOK'
  <2> SUFFICES ASSUME NEW d \in Calls
               PROVE  /\ \/ applied[d] = <<>>
                         \/ \E s \in Sessions : /\ applied[d] = <<s>>
                                                /\ call'[d].kind = "send" => s = call'[d].session
                      /\ call'[d].pc \in Connecting \cup {"waiting"} => applied[d] = <<>>
                      /\ call'[d].pc = "done" => applied[d] # <<>>
                      /\ call'[d].pc = "awaiting" /\ call'[d].answer \in {"ok", "unknown", "error"}
                         => (applied[d] # <<>> <=> call'[d].asks = "submit"
                                                   /\ call'[d].answer = "ok")
    BY DEF AppliedOK
  <2>1. CASE d = c
    BY <2>1, <1>1 DEF IInv, AppliedOK, Connecting
  <2>2. CASE d # c
    BY <2>2, <1>1 DEF IInv, AppliedOK
  <2> QED  BY <2>1, <2>2
<1>16. WireOK'
  <2>1. \A f \in wire : FrameOK(f)'
    <3>1. \A f \in wire : f.call \in Calls /\ f.call # c
      BY DEF IInv, TypeOK, FrameType
    <3> QED  BY <3>1, <1>1, <1>2, <1>3 DEF IInv, WireOK, FrameOK
  <2> QED  BY <2>1 DEF IInv, WireOK
<1>17. CacheIsOfThisConnection'
  <2> SUFFICES ASSUME NEW s \in Sessions, link' # "down", cache[s].gen = generation,
                      cache[s].handle # NoHandle
               PROVE  owner[cache[s].handle] = s
    BY <1>2 DEF CacheIsOfThisConnection, Cached
  <2>1. link # "down"
    BY <1>2, <1>3
  <2> QED  BY <2>1 DEF IInv, CacheIsOfThisConnection, Cached
<1> QED  BY <1>10, <1>11, <1>12, <1>13, <1>14, <1>15, <1>16, <1>17 DEF IInv

(* A heartbeat fails, Hermes forgets a handle, or nothing happens.         *)
LEMMA SurroundingsKeep ==
  ASSUME IInv, HeartbeatFails \/ (\E h \in Handles : HermesForgets(h)) \/ UNCHANGED vars
  PROVE  IInv'
<1>1. /\ UNCHANGED <<generation, lock, call, pending, wire, owner, cache, applied>>
      /\ link' \in {"down", "broken", "up"} /\ (link' = "down" <=> link = "down")
      /\ link' = "up" => link = "up"
  BY DEF HeartbeatFails, HermesForgets, vars, hermesVars, Up, IInv, TypeOK
<1>2. TypeOK'
  <2>1. beating' \in BOOLEAN /\ forgotten' \subseteq Handles
    BY DEF HeartbeatFails, HermesForgets, vars, hermesVars, IInv, TypeOK
  <2> QED  BY <1>1, <2>1 DEF IInv, TypeOK
<1>3. LockOK'
  BY <1>1 DEF IInv, LockOK, Up
<1>4. PendingOK' /\ GenerationsOK' /\ AppliedOK'
  BY <1>1 DEF IInv, PendingOK, GenerationsOK, AppliedOK
<1>5. RepliesOK'
  BY <1>1 DEF IInv, RepliesOK
<1>6. WireOK'
  <2>1. \A f \in wire : FrameOK(f)'
    BY <1>1 DEF IInv, WireOK, FrameOK
  <2> QED  BY <2>1, <1>1 DEF IInv, WireOK
<1>7. CacheIsOfThisConnection'
  BY <1>1 DEF IInv, CacheIsOfThisConnection, Cached
<1> QED  BY <1>2, <1>3, <1>4, <1>5, <1>6, <1>7 DEF IInv

(* A request is given up, and its frame may still be on the wire.          *)
LEMMA TimeoutKeeps ==
  ASSUME IInv, NEW c \in Calls, RequestTimesOut(c)
  PROVE  IInv'
<1> DEFINE r == End(call[c], "failed")
<1>1. call \in [Calls -> CallType] /\ call[c].session \in Sessions
  BY DEF IInv, TypeOK, RepliesOK, RequestTimesOut
<1>2. /\ r \in CallType /\ r.pc = "failed" /\ r.gen = 0
      /\ r.kind = call[c].kind /\ r.session = call[c].session
  BY <1>1, EndFacts DEF Ended
<1>3. /\ call[c].pc = "awaiting" /\ call' = [call EXCEPT ![c] = r] /\ pending' = pending \ {c}
      /\ UNCHANGED <<generation, link, beating, lock, wire, owner, forgotten, cache, applied>>
  BY DEF RequestTimesOut, hermesVars
<1> HIDE DEF r
<1>4. /\ call' \in [Calls -> CallType] /\ call'[c] = r
      /\ \A d \in Calls : d # c => call'[d] = call[d]
  BY <1>1, <1>2, <1>3
<1>5. generation \in Nat
  BY BoundAssumption DEF IInv, TypeOK
<1>10. TypeOK'
  BY <1>3, <1>4 DEF IInv, TypeOK
<1>11. LockOK'
  <2>1. lock # c \/ lock = Nobody
    BY <1>3 DEF IInv, LockOK, Connecting
  <2>2. lock # Nobody => lock \in Calls
    BY DEF IInv, TypeOK
  <2> QED  BY <2>1, <2>2, <1>2, <1>3, <1>4, NamesAssumption DEF IInv, LockOK, Up, Connecting
<1>12. PendingOK'
  BY <1>2, <1>3, <1>4 DEF IInv, PendingOK
<1>13. GenerationsOK'
  <2>1. ASSUME NEW d \in Calls, call'[d].pc = "opening"
        PROVE  0 < generation /\ call[d].pc = "opening"
    <3>1. call[d].pc = "opening" /\ call[d].gen < generation /\ call[d].gen \in Nat
      BY <2>1, <1>1, <1>2, <1>4, BoundAssumption DEF IInv, GenerationsOK, CallType
    <3> QED  BY <3>1, <1>5
  <2> QED  BY <2>1, <1>2, <1>3, <1>4, <1>5 DEF IInv, GenerationsOK
<1>14. RepliesOK'
  BY <1>1, <1>2, <1>3, <1>4 DEF IInv, RepliesOK
<1>15. AppliedOK'
  BY <1>2, <1>3, <1>4 DEF IInv, AppliedOK, Connecting
<1>16. WireOK'
  <2>1. \A f \in wire : f.call \in Calls
    BY DEF IInv, TypeOK, FrameType
  <2>2. \A f \in wire : FrameOK(f)'
    BY <2>1, <1>2, <1>3, <1>4 DEF IInv, WireOK, FrameOK
  <2> QED  BY <2>2, <1>3 DEF IInv, WireOK
<1>17. CacheIsOfThisConnection'
  BY <1>3 DEF IInv, CacheIsOfThisConnection, Cached
<1> QED  BY <1>10, <1>11, <1>12, <1>13, <1>14, <1>15, <1>16, <1>17 DEF IInv

(* A reply is handed to the future that waits for it, if one does.         *)
LEMMA DispatchKeeps ==
  ASSUME IInv, NEW f \in wire, Dispatch(f)
  PROVE  IInv'
<1> DEFINE c == f.call
           r == [call[c] EXCEPT !.answer = f.answer, !.handle = f.handle]
<1>1. /\ f \in FrameType /\ c \in Calls /\ FrameOK(f) /\ f.answer \in {"ok", "unknown", "error"}
      /\ call \in [Calls -> CallType] /\ call[c] \in CallType
  BY DEF IInv, TypeOK, FrameType, WireOK, Dispatch
<1>2. /\ wire' = wire \ {f} /\ pending' = pending \ {c}
      /\ UNCHANGED <<generation, link, beating, lock, owner, forgotten, cache, applied>>
      /\ f.answer # "none"
  BY DEF Dispatch, hermesVars
<1>3. c \in pending => call' = [call EXCEPT ![c] = r]
  BY <1>1 DEF Dispatch
<1>4. c \notin pending => call' = call
  BY DEF Dispatch
<1>5. /\ r \in CallType /\ r.pc = call[c].pc /\ r.kind = call[c].kind
      /\ r.session = call[c].session /\ r.gen = call[c].gen /\ r.asks = call[c].asks
      /\ r.answer = f.answer /\ r.handle = f.handle
  BY <1>1 DEF CallType, FrameType
<1> HIDE DEF r
<1>6. /\ call' \in [Calls -> CallType]
      /\ \A d \in Calls : d # c => call'[d] = call[d]
      /\ call'[c] = IF c \in pending THEN r ELSE call[c]
  BY <1>1, <1>3, <1>4, <1>5
<1>7. \A d \in Calls : /\ call'[d].pc = call[d].pc /\ call'[d].kind = call[d].kind
                       /\ call'[d].session = call[d].session /\ call'[d].gen = call[d].gen
                       /\ call'[d].asks = call[d].asks
  BY <1>5, <1>6
<1>8. c \in pending => call[c].pc = "awaiting" /\ link # "down"
  BY <1>1 DEF IInv, PendingOK
<1> HIDE DEF c
<1>10. TypeOK'
  BY <1>2, <1>6 DEF IInv, TypeOK
<1>11. LockOK'
  <2>1. lock # Nobody => lock \in Calls
    BY DEF IInv, TypeOK
  <2> QED  BY <2>1, <1>2, <1>7 DEF IInv, LockOK, Up
<1>12. PendingOK'
  BY <1>1, <1>2, <1>5, <1>6, <1>7 DEF IInv, PendingOK
<1>13. GenerationsOK'
  BY <1>2, <1>7 DEF IInv, GenerationsOK
<1>14. RepliesOK'
  <2> SUFFICES ASSUME NEW d \in Calls
               PROVE  /\ call'[d].pc # "idle" => call'[d].session \in Sessions
                      /\ call'[d].pc = "awaiting" => call'[d].asks \in Asks
                      /\ call'[d].pc = "awaiting" /\ call'[d].answer = "ok"
                         /\ call'[d].asks \in Mints =>
                           /\ call'[d].handle \in Handles
                           /\ call'[d].gen = generation /\ link # "down" =>
                                owner[call'[d].handle] = call'[d].session
    BY <1>2 DEF RepliesOK
  <2>1. CASE d = c /\ c \in pending
    BY <2>1, <1>1, <1>5, <1>6, <1>7 DEF IInv, RepliesOK, FrameOK, c
  <2>2. CASE d # c \/ c \notin pending
    BY <2>2, <1>6 DEF IInv, RepliesOK
  <2> QED  BY <2>1, <2>2
<1>15. AppliedOK'
  <2> SUFFICES ASSUME NEW d \in Calls
               PROVE  /\ \/ applied[d] = <<>>
                         \/ \E s \in Sessions : /\ applied[d] = <<s>>
                                                /\ call'[d].kind = "send" => s = call'[d].session
                      /\ call'[d].pc \in Connecting \cup {"waiting"} => applied[d] = <<>>
                      /\ call'[d].pc = "done" => applied[d] # <<>>
                      /\ call'[d].pc = "awaiting" /\ call'[d].answer \in {"ok", "unknown", "error"}
                         => (applied[d] # <<>> <=> call'[d].asks = "submit"
                                                   /\ call'[d].answer = "ok")
    BY <1>2 DEF AppliedOK
  <2>1. CASE d = c /\ c \in pending
    BY <2>1, <1>1, <1>5, <1>6, <1>7 DEF IInv, AppliedOK, FrameOK, c
  <2>2. CASE d # c \/ c \notin pending
    BY <2>2, <1>6 DEF IInv, AppliedOK
  <2> QED  BY <2>1, <2>2
<1>16. WireOK'
  <2>1. \A g \in wire' : g \in wire /\ g.call \in Calls /\ g.call # c
    BY <1>2 DEF IInv, WireOK, TypeOK, FrameType, c
  <2>2. \A g \in wire' : FrameOK(g)'
    BY <2>1, <1>2, <1>6 DEF IInv, WireOK, FrameOK
  <2> QED  BY <2>1, <2>2 DEF IInv, WireOK
<1>17. CacheIsOfThisConnection'
  BY <1>2 DEF IInv, CacheIsOfThisConnection, Cached
<1> QED  BY <1>10, <1>11, <1>12, <1>13, <1>14, <1>15, <1>16, <1>17 DEF IInv

(* Hermes answers a request: f becomes g, and nothing else of the gateway. *)
LEMMA HermesKeeps ==
  ASSUME IInv, NEW f \in wire, HermesResumes(f) \/ HermesActs(f) \/ HermesRefuses(f)
  PROVE  IInv'
<1>1. /\ f \in FrameType /\ FrameOK(f) /\ f.call \in Calls /\ f.answer = "none"
      /\ applied[f.call] = <<>>
  BY DEF IInv, TypeOK, FrameType, WireOK, FrameOK, HermesResumes, HermesActs, HermesRefuses
<1>2. UNCHANGED <<generation, link, beating, lock, call, pending, forgotten, cache>>
  BY DEF HermesResumes, HermesActs, HermesRefuses, hermesVars
<1>3. /\ owner' \in [Handles -> Sessions \cup {NoSession}]
      /\ \A h \in Handles : owner[h] \in Sessions => owner'[h] = owner[h]
  <2>1. CASE HermesResumes(f)
    <3>1. PICK h \in HandlesFor(f.session) : owner' = [owner EXCEPT ![h] = f.session]
      BY <2>1 DEF HermesResumes
    <3>2. h \in Handles /\ (owner[h] = f.session \/ owner[h] = NoSession)
      BY <3>1 DEF HandlesFor
    <3>3. f.session \in Sessions
      BY <1>1 DEF FrameType
    <3> QED  BY <3>1, <3>2, <3>3, NamesAssumption DEF IInv, TypeOK
  <2>2. CASE HermesActs(f) \/ HermesRefuses(f)
    BY <2>2 DEF HermesActs, HermesRefuses, hermesVars, IInv, TypeOK
  <2> QED  BY <2>1, <2>2
<1>4. \E g \in FrameType :
        /\ wire' = (wire \ {f}) \cup {g}
        /\ g.call = f.call /\ g.session = f.session /\ g.asks = f.asks
        /\ g.asks \in Mints /\ g.answer = "ok" =>
             g.handle \in Handles /\ owner'[g.handle] = g.session
        /\ g.asks = "submit" => g.handle = f.handle
        /\ \/ /\ g.asks = "submit" /\ g.answer = "ok" /\ owner[f.handle] \in Sessions
              /\ applied' = [applied EXCEPT ![f.call] = <<owner[f.handle]>>]
           \/ ~(g.asks = "submit" /\ g.answer = "ok") /\ applied' = applied
  <2>1. CASE HermesResumes(f)
    <3>1. PICK h \in HandlesFor(f.session) : /\ owner' = [owner EXCEPT ![h] = f.session]
                                            /\ Reply(f, "ok", h)
      BY <2>1 DEF HermesResumes
    <3> DEFINE g == [f EXCEPT !.answer = "ok", !.handle = h]
    <3>2. h \in Handles /\ owner'[h] = f.session
      BY <3>1 DEF HandlesFor, IInv, TypeOK
    <3>3. /\ g \in FrameType /\ g.call = f.call /\ g.session = f.session /\ g.asks = f.asks
          /\ g.answer = "ok" /\ g.handle = h
      BY <3>2, <1>1 DEF FrameType
    <3>4. wire' = (wire \ {f}) \cup {g}
      BY <3>1 DEF Reply
    <3>5. f.asks # "submit" /\ applied' = applied
      BY <2>1 DEF HermesResumes
    <3> HIDE DEF g
    <3> QED  BY <3>2, <3>3, <3>4, <3>5
  <2>2. CASE HermesActs(f) /\ Live(f.handle)
    <3> DEFINE g == [f EXCEPT !.answer = "ok", !.handle = f.handle]
    <3>1. /\ f.asks = "submit" /\ wire' = (wire \ {f}) \cup {g}
          /\ applied' = [applied EXCEPT ![f.call] = Append(@, owner[f.handle])]
      BY <2>2 DEF HermesActs, Reply
    <3>2. /\ g \in FrameType /\ g.call = f.call /\ g.session = f.session /\ g.asks = f.asks
          /\ g.answer = "ok" /\ g.handle = f.handle
      BY <1>1 DEF FrameType
    <3>3. f.handle \in Handles
      BY <3>1, <1>1 DEF IInv, TypeOK, FrameType
    <3>4. owner[f.handle] \in Sessions
      BY <3>3, <2>2 DEF Live, IInv, TypeOK
    <3>5. Append(<<>>, owner[f.handle]) = <<owner[f.handle]>>
      OBVIOUS
    <3>6. applied' = [applied EXCEPT ![f.call] = <<owner[f.handle]>>]
      BY <3>1, <3>5, <1>1
    <3> HIDE DEF g
    <3> QED  BY <3>1, <3>2, <3>4, <3>6 DEF Mints
  <2>3. CASE HermesActs(f) /\ ~Live(f.handle)
    <3> DEFINE g == [f EXCEPT !.answer = "unknown", !.handle = f.handle]
    <3>1. f.asks = "submit" /\ wire' = (wire \ {f}) \cup {g} /\ applied' = applied
      BY <2>3 DEF HermesActs, Reply
    <3>2. /\ g \in FrameType /\ g.call = f.call /\ g.session = f.session /\ g.asks = f.asks
          /\ g.answer = "unknown" /\ g.handle = f.handle
      BY <1>1 DEF FrameType
    <3> HIDE DEF g
    <3> QED  BY <3>1, <3>2
  <2>4. CASE HermesRefuses(f)
    <3> DEFINE g == [f EXCEPT !.answer = "error", !.handle = f.handle]
    <3>1. wire' = (wire \ {f}) \cup {g} /\ applied' = applied
      BY <2>4 DEF HermesRefuses, Reply
    <3>2. /\ g \in FrameType /\ g.call = f.call /\ g.session = f.session /\ g.asks = f.asks
          /\ g.answer = "error" /\ g.handle = f.handle
      BY <1>1 DEF FrameType
    <3> HIDE DEF g
    <3> QED  BY <3>1, <3>2
  <2> QED  BY <2>1, <2>2, <2>3, <2>4
<1>5. PICK g \in FrameType :
        /\ wire' = (wire \ {f}) \cup {g}
        /\ g.call = f.call /\ g.session = f.session /\ g.asks = f.asks
        /\ g.asks \in Mints /\ g.answer = "ok" =>
             g.handle \in Handles /\ owner'[g.handle] = g.session
        /\ g.asks = "submit" => g.handle = f.handle
        /\ \/ /\ g.asks = "submit" /\ g.answer = "ok" /\ owner[f.handle] \in Sessions
              /\ applied' = [applied EXCEPT ![f.call] = <<owner[f.handle]>>]
           \/ ~(g.asks = "submit" /\ g.answer = "ok") /\ applied' = applied
  BY <1>4
<1>6. /\ \A d \in Calls : d # f.call => applied'[d] = applied[d]
      /\ applied'[f.call] # <<>> <=> g.asks = "submit" /\ g.answer = "ok"
      /\ applied'[f.call] # <<>> => /\ applied'[f.call] = <<owner[f.handle]>>
                                   /\ owner[f.handle] \in Sessions
      /\ applied' \in [Calls -> Seq(Sessions)]
  <2>1. CASE applied' = applied /\ ~(g.asks = "submit" /\ g.answer = "ok")
    BY <2>1, <1>1 DEF IInv, TypeOK
  <2>2. CASE /\ g.asks = "submit" /\ g.answer = "ok" /\ owner[f.handle] \in Sessions
             /\ applied' = [applied EXCEPT ![f.call] = <<owner[f.handle]>>]
    <3>1. <<owner[f.handle]>> # <<>> /\ <<owner[f.handle]>> \in Seq(Sessions)
      BY <2>2
    <3>2. applied \in [Calls -> Seq(Sessions)]
      BY DEF IInv, TypeOK
    <3> QED  BY <2>2, <3>1, <3>2, <1>1
  <2> QED  BY <2>1, <2>2, <1>5
<1>10. TypeOK'
  <2>1. wire' \subseteq FrameType /\ \A x \in wire' : x.asks = "submit" => x.handle # NoHandle
    BY <1>5 DEF IInv, TypeOK
  <2> QED  BY <2>1, <1>2, <1>3, <1>6 DEF IInv, TypeOK
<1>11. LockOK' /\ PendingOK' /\ GenerationsOK'
  BY <1>2 DEF IInv, LockOK, PendingOK, GenerationsOK, Up
<1>12. RepliesOK'
  BY <1>2, <1>3 DEF IInv, RepliesOK
<1>13. AppliedOK'
  <2> SUFFICES ASSUME NEW d \in Calls
               PROVE  /\ \/ applied'[d] = <<>>
                         \/ \E s \in Sessions : /\ applied'[d] = <<s>>
                                                /\ call[d].kind = "send" => s = call[d].session
                      /\ call[d].pc \in Connecting \cup {"waiting"} => applied'[d] = <<>>
                      /\ call[d].pc = "done" => applied'[d] # <<>>
                      /\ call[d].pc = "awaiting" /\ call[d].answer \in {"ok", "unknown", "error"}
                         => (applied'[d] # <<>> <=> call[d].asks = "submit"
                                                    /\ call[d].answer = "ok")
    BY <1>2 DEF AppliedOK
  <2>1. CASE d = f.call
    <3>1. /\ call[d].pc \in {"awaiting", "failed"}
          /\ call[d].pc = "awaiting" => call[d].answer = "none"
          /\ f.session = call[d].session
      BY <2>1, <1>1 DEF IInv, PendingOK, FrameOK
    <3>2. applied'[d] # <<>> /\ call[d].kind = "send" => owner[f.handle] = call[d].session
      BY <2>1, <1>1, <1>5, <1>6 DEF FrameOK
    <3> QED  BY <2>1, <3>1, <3>2, <1>6 DEF Connecting
  <2>2. CASE d # f.call
    BY <2>2, <1>6 DEF IInv, AppliedOK
  <2> QED  BY <2>1, <2>2
<1>14. WireOK'
  <2>1. \A x \in wire : x # f => x.call # f.call /\ x.call \in Calls
    BY DEF IInv, WireOK, TypeOK, FrameType
  <2>2. ASSUME NEW x \in wire, x # f PROVE FrameOK(x)'
    <3>1. /\ FrameOK(x) /\ x \in FrameType
          /\ x.asks = "submit" => x.handle \in Handles
      BY DEF IInv, WireOK, TypeOK, FrameType
    <3>2. x.session \in Sessions
      BY <3>1 DEF FrameType
    <3>3. applied'[x.call] = applied[x.call]
      BY <2>1, <2>2, <1>6
    <3> QED  BY <3>1, <3>2, <3>3, <1>2, <1>3 DEF FrameOK
  <2>3. FrameOK(g)'
    <3>1. g.asks = "submit" => f.handle \in Handles
      BY <1>5, <1>1 DEF IInv, TypeOK, FrameType
    <3>2. g.session \in Sessions
      BY DEF FrameType
    <3>3. g.asks = "submit" /\ call[g.call].kind = "send" => owner'[g.handle] = g.session
      BY <3>1, <3>2, <1>1, <1>3, <1>5 DEF FrameOK
    <3> QED  BY <3>3, <1>1, <1>2, <1>5, <1>6 DEF FrameOK
  <2> QED  BY <2>1, <2>2, <2>3, <1>5 DEF IInv, WireOK
<1>15. CacheIsOfThisConnection'
  <2> SUFFICES ASSUME NEW s \in Sessions, link # "down", cache[s].gen = generation,
                      cache[s].handle # NoHandle
               PROVE  owner'[cache[s].handle] = s
    BY <1>2 DEF CacheIsOfThisConnection, Cached
  <2>1. owner[cache[s].handle] = s /\ cache[s].handle \in Handles
    BY DEF IInv, TypeOK, CacheIsOfThisConnection, Cached
  <2> QED  BY <2>1, <1>3
<1> QED  BY <1>10, <1>11, <1>12, <1>13, <1>14, <1>15 DEF IInv

-----------------------------------------------------------------------------
(* The invariant is inductive.                                             *)

(* The gateway starts without a connection, and nothing is in flight.      *)
LEMMA InitEstablishes == Init => IInv
<1> SUFFICES ASSUME Init PROVE IInv
  OBVIOUS
<1>1. IdleCall \in CallType /\ <<>> \in Seq(Sessions) /\ Empty.handle = NoHandle
      /\ Empty \in [gen: 0..MaxGeneration, handle: Handles \cup {NoHandle}] /\ Empty.gen = 0
  BY EmptySeq, BoundAssumption DEF IdleCall, CallType, Ended, Empty
<1>2. TypeOK
  BY <1>1, BoundAssumption DEF Init, TypeOK
<1>3. LockOK /\ PendingOK /\ RepliesOK
  BY DEF Init, LockOK, PendingOK, RepliesOK, IdleCall, Connecting, Up
<1>4. GenerationsOK /\ AppliedOK
  BY <1>1 DEF Init, GenerationsOK, AppliedOK, IdleCall, Connecting
<1>5. WireOK /\ CacheIsOfThisConnection
  BY DEF Init, WireOK, CacheIsOfThisConnection
<1> QED  BY <1>2, <1>3, <1>4, <1>5 DEF IInv

(* A coroutine that holds or seeks the lock, or has its reply, has nothing *)
(* in flight; nor has one that has ended, if its frames are gone.          *)
LEMMA NothingInFlight ==
  ASSUME IInv, NEW c \in Calls,
         \/ call[c].pc \in Connecting \cup {"waiting"}
         \/ call[c].pc = "awaiting" /\ call[c].answer # "none"
  PROVE  /\ c \notin pending /\ \A f \in wire : f.call # c
         /\ call[c] \in CallType /\ call[c].session \in Sessions
         /\ call[c].kind \in {"send", "create"}
<1>1. c \notin pending
  BY DEF IInv, PendingOK, Connecting
<1>2. \A f \in wire : f.call # c
  BY <1>1 DEF IInv, WireOK, FrameOK, Connecting
<1>3. call[c] \in CallType /\ call[c].session \in Sessions
  BY DEF IInv, TypeOK, RepliesOK, Connecting
<1> QED  BY <1>1, <1>2, <1>3 DEF CallType

(* The steps in which a coroutine goes for a request.                      *)
Going(c) ==
  \/ \E s \in Sessions, kind \in {"send", "create"} : Start(c, s, kind)
  \/ Acquire(c) \/ Advertised(c) \/ HandleRejected(c) \/ SessionResumed(c) \/ SessionCreated(c)

(* Each of them is a case of GoesKeeps.                                    *)
LEMMA GoingGoes ==
  ASSUME IInv, NEW c \in Calls, Going(c)
  PROVE  \E kind \in {"send", "create"}, session \in Sessions, holder \in {lock, Nobody} :
           /\ Goes(c, kind, session, holder)
           /\ c \notin pending /\ \A f \in wire : f.call # c
           /\ (holder = lock /\ lock # c) \/ (holder = Nobody /\ lock \in {c, Nobody})
           /\ applied' = [applied EXCEPT ![c] = <<>>]
           /\ cache' \in [Sessions -> [gen: 0..MaxGeneration, handle: Handles \cup {NoHandle}]]
           /\ CacheStep /\ beating' \in BOOLEAN /\ UNCHANGED <<generation, hermesVars>>
<1>0. /\ TypeOK /\ CacheIsOfThisConnection
      /\ applied \in [Calls -> Seq(Sessions)]
      /\ cache \in [Sessions -> [gen: 0..MaxGeneration, handle: Handles \cup {NoHandle}]]
      /\ beating \in BOOLEAN
  BY DEF IInv, TypeOK
<1>1. UNCHANGED cache => CacheStep
  BY DEF CacheStep
<1>2. (applied[c] = <<>> /\ UNCHANGED applied) => applied' = [applied EXCEPT ![c] = <<>>]
  BY <1>0
<1>3. call[c].pc \notin Connecting => lock # c
  <2>1. c # Nobody
    BY NamesAssumption
  <2> QED  BY <2>1 DEF IInv, LockOK
<1>4. ASSUME NEW s \in Sessions, NEW kind \in {"send", "create"}, Start(c, s, kind)
      PROVE  /\ Goes(c, kind, s, lock) /\ lock # c
             /\ c \notin pending /\ \A f \in wire : f.call # c
             /\ applied' = [applied EXCEPT ![c] = <<>>]
             /\ UNCHANGED <<cache, beating, generation, hermesVars>>
  <2> DEFINE rec == [IdleCall EXCEPT !.kind = kind, !.session = s]
  <2>1. rec \in CallType /\ rec.kind = kind /\ rec.session = s
    <3>1. IdleCall \in CallType
      BY BoundAssumption DEF IdleCall, CallType, Ended
    <3> QED  BY <3>1 DEF CallType
  <2>2. Enter(c, rec) /\ call[c].pc \in Ended
    BY <1>4 DEF Start
  <2> HIDE DEF rec
  <2>3. Goes(c, kind, s, lock)
    BY <2>1, <2>2, <1>0, EnterGoes
  <2>4. lock # c /\ c \notin pending
    BY <2>2, <1>3 DEF Ended, Connecting, IInv, PendingOK
  <2> QED  BY <2>3, <2>4, <1>4 DEF Start
<1>5. ASSUME Acquire(c)
      PROVE  /\ Goes(c, call[c].kind, call[c].session, Nobody) /\ lock = Nobody
             /\ call[c].pc = "waiting" /\ applied[c] = <<>>
             /\ UNCHANGED <<cache, beating, generation, hermesVars, applied>>
  <2>1. call[c].pc = "waiting" /\ applied[c] = <<>> /\ lock = Nobody
    BY <1>5 DEF Acquire, IInv, AppliedOK
  <2>2. call[c] \in CallType /\ call[c].session \in Sessions
    BY <2>1, NothingInFlight
  <2>3. CASE Up /\ Operate(c, call[c], Nobody)
    BY <2>1, <2>2, <2>3, <1>0, <1>5, OperateGoes DEF Acquire
  <2>4. CASE /\ ~Up /\ lock' = c /\ call' = [call EXCEPT ![c].pc = "connecting"]
             /\ UNCHANGED <<link, pending, wire>>
    <3> DEFINE r == [call[c] EXCEPT !.pc = "connecting"]
    <3>1. /\ r \in CallType /\ r.pc = "connecting" /\ r.kind = call[c].kind
          /\ r.session = call[c].session /\ r.gen = call[c].gen
      BY <2>2 DEF CallType
    <3>2. call' = [call EXCEPT ![c] = r]
      BY <2>4
    <3> HIDE DEF r
    <3>3. Unsent(c, r)
      BY <2>4, <3>1 DEF Unsent, Up
    <3>4. Goes(c, call[c].kind, call[c].session, Nobody)
      BY <2>4, <3>1, <3>2, <3>3 DEF Goes
    <3> QED  BY <3>4, <2>1, <1>5 DEF Acquire
  <2> QED  BY <1>5, <2>3, <2>4 DEF Acquire
<1>6. ASSUME Advertised(c)
      PROVE  /\ Goes(c, call[c].kind, call[c].session, Nobody) /\ lock = c
             /\ call[c].pc = "advertising" /\ applied[c] = <<>> /\ beating' = TRUE
             /\ UNCHANGED <<cache, generation, hermesVars, applied>>
  <2>1. call[c].pc = "advertising" /\ applied[c] = <<>> /\ lock = c
    BY <1>6 DEF Advertised, IInv, AppliedOK, LockOK, Connecting
  <2>2. call[c] \in CallType /\ call[c].session \in Sessions
    BY <2>1, NothingInFlight DEF Connecting
  <2> QED  BY <2>1, <2>2, <1>0, <1>6, OperateGoes DEF Advertised
<1>7. ASSUME HandleRejected(c)
      PROVE  /\ Goes(c, call[c].kind, call[c].session, lock) /\ lock # c
             /\ call[c].pc = "awaiting" /\ call[c].answer # "none" /\ applied[c] = <<>>
             /\ cache' \in [Sessions -> [gen: 0..MaxGeneration, handle: Handles \cup {NoHandle}]]
             /\ CacheStep /\ UNCHANGED <<beating, generation, hermesVars, applied>>
  <2>1. /\ call[c].pc = "awaiting" /\ call[c].answer = "unknown" /\ applied[c] = <<>>
        /\ lock # c
    BY <1>3, <1>7 DEF HandleRejected, Answered, Resumable, IInv, AppliedOK, Connecting
  <2>2. call[c] \in CallType /\ call[c].session \in Sessions
    BY <2>1, NothingInFlight
  <2> DEFINE rec == [call[c] EXCEPT !.asks = "resume", !.cached = FALSE, !.handle = NoHandle]
  <2>3. /\ rec \in CallType /\ rec.kind = call[c].kind /\ rec.session = call[c].session
        /\ rec.asks = "resume"
    BY <2>2 DEF CallType
  <2>4. Request(c, rec, lock)
    BY <1>7 DEF HandleRejected
  <2> HIDE DEF rec
  <2>5. Goes(c, call[c].kind, call[c].session, lock)
    BY <2>3, <2>4, <1>0, RequestGoes DEF Asks
  <2>6. /\ cache' \in [Sessions -> [gen: 0..MaxGeneration, handle: Handles \cup {NoHandle}]]
        /\ CacheStep
    <3>1. Discard(call[c].session)
      BY <1>7 DEF HandleRejected
    <3>2. Empty \in [gen: 0..MaxGeneration, handle: Handles \cup {NoHandle}]
      BY BoundAssumption DEF Empty
    <3> QED  BY <3>1, <3>2, <1>0 DEF Discard, CacheStep
  <2> QED  BY <2>1, <2>5, <2>6, <1>7 DEF HandleRejected
<1>8. ASSUME Put(call[c].session, call[c].handle), Resumable(c), ~Hopeless(c),
             call[c].asks \in Mints, call[c].answer = "ok"
      PROVE  /\ call[c].handle \in Handles /\ lock # c
             /\ Up => owner[call[c].handle] = call[c].session
             /\ call[c].pc = "awaiting" /\ call[c].answer # "none" /\ applied[c] = <<>>
             /\ cache' \in [Sessions -> [gen: 0..MaxGeneration, handle: Handles \cup {NoHandle}]]
             /\ CacheStep
  <2>1. call[c].pc = "awaiting" /\ call[c].gen = generation
    BY <1>8 DEF Resumable, Hopeless, SameConnection
  <2>2. call[c].session \in Sessions /\ generation \in 0..MaxGeneration
    BY <2>1, <1>0 DEF IInv, RepliesOK, TypeOK
  <2>3. /\ call[c].handle \in Handles
        /\ link # "down" => owner[call[c].handle] = call[c].session
    BY <2>1, <1>8 DEF IInv, RepliesOK
  <2>4. \A d \in Calls : call[d].pc # "opening"
    <3>1. call[c].gen \in Nat
      BY <1>0, BoundAssumption DEF TypeOK, CallType
    <3> QED  BY <3>1, <2>1 DEF IInv, GenerationsOK
  <2>5. applied[c] = <<>>
    BY <2>1, <1>8 DEF IInv, AppliedOK, Mints
  <2> DEFINE e == [gen |-> generation, handle |-> call[c].handle]
  <2>6. /\ e \in [gen: 0..MaxGeneration, handle: Handles \cup {NoHandle}]
        /\ e.gen = generation /\ e.handle = call[c].handle
        /\ cache' = [cache EXCEPT ![call[c].session] = e]
    BY <2>2, <2>3, <1>8 DEF Put
  <2> HIDE DEF e
  <2>7. /\ cache' \in [Sessions -> [gen: 0..MaxGeneration, handle: Handles \cup {NoHandle}]]
        /\ CacheStep
    BY <2>2, <2>3, <2>4, <2>6, <1>0 DEF CacheStep
  <2> QED  BY <2>1, <2>3, <2>5, <2>7, <1>3, <1>8 DEF Up, Connecting
<1>9. ASSUME SessionResumed(c)
      PROVE  /\ Goes(c, call[c].kind, call[c].session, lock) /\ lock # c
             /\ call[c].pc = "awaiting" /\ call[c].answer # "none" /\ applied[c] = <<>>
             /\ cache' \in [Sessions -> [gen: 0..MaxGeneration, handle: Handles \cup {NoHandle}]]
             /\ CacheStep /\ UNCHANGED <<beating, generation, hermesVars, applied>>
  <2>1. /\ Put(call[c].session, call[c].handle) /\ Resumable(c) /\ ~Hopeless(c)
        /\ call[c].asks \in Mints /\ call[c].answer = "ok"
    BY <1>9 DEF SessionResumed, Answered, Mints
  <2>2. call[c] \in CallType /\ call[c].session \in Sessions
    BY <2>1, <1>8, NothingInFlight
  <2> DEFINE rec == [call[c] EXCEPT !.asks = "submit"]
  <2>3. /\ rec \in CallType /\ rec.kind = call[c].kind /\ rec.session = call[c].session
        /\ rec.asks = "submit" /\ rec.handle = call[c].handle
    BY <2>2 DEF CallType
  <2>4. Request(c, rec, lock)
    BY <1>9 DEF SessionResumed
  <2> HIDE DEF rec
  <2>5. Goes(c, call[c].kind, call[c].session, lock)
    BY <2>1, <2>3, <2>4, <1>0, <1>8, RequestGoes DEF Asks
  <2> QED  BY <2>1, <2>5, <1>8, <1>9 DEF SessionResumed
<1>10. ASSUME SessionCreated(c)
       PROVE  /\ Goes(c, call[c].kind, call[c].session, lock) /\ lock # c
              /\ call[c].pc = "awaiting" /\ call[c].answer # "none" /\ applied[c] = <<>>
              /\ cache' \in [Sessions -> [gen: 0..MaxGeneration, handle: Handles \cup {NoHandle}]]
              /\ CacheStep /\ UNCHANGED <<beating, generation, hermesVars, applied>>
  <2>1. /\ Put(call[c].session, call[c].handle) /\ Resumable(c) /\ ~Hopeless(c)
        /\ call[c].asks \in Mints /\ call[c].answer = "ok"
    BY <1>10 DEF SessionCreated, Answered, Mints
  <2>2. call[c] \in CallType /\ call[c].session \in Sessions
    BY <2>1, <1>8, NothingInFlight
  <2> DEFINE rec == [call[c] EXCEPT !.tries = 1]
  <2>3. rec \in CallType /\ rec.kind = call[c].kind /\ rec.session = call[c].session
    BY <2>2 DEF CallType
  <2>4. Enter(c, rec)
    BY <1>10 DEF SessionCreated
  <2> HIDE DEF rec
  <2>5. Goes(c, call[c].kind, call[c].session, lock)
    BY <2>2, <2>3, <2>4, <1>0, EnterGoes
  <2> QED  BY <2>1, <2>5, <1>8, <1>10 DEF SessionCreated
<1>11. CASE \E s \in Sessions, kind \in {"send", "create"} : Start(c, s, kind)
  BY <1>0, <1>1, <1>4, <1>11
<1>12. CASE Acquire(c)
  <2>1. /\ c \notin pending /\ \A f \in wire : f.call # c
        /\ call[c].session \in Sessions /\ call[c].kind \in {"send", "create"}
    BY <1>5, <1>12, NothingInFlight
  <2> QED  BY <2>1, <1>0, <1>1, <1>2, <1>5, <1>12
<1>13. CASE Advertised(c)
  <2>1. /\ c \notin pending /\ \A f \in wire : f.call # c
        /\ call[c].session \in Sessions /\ call[c].kind \in {"send", "create"}
    BY <1>6, <1>13, NothingInFlight DEF Connecting
  <2> QED  BY <2>1, <1>0, <1>1, <1>2, <1>6, <1>13
<1>14. CASE HandleRejected(c) \/ SessionResumed(c) \/ SessionCreated(c)
  <2>1. /\ c \notin pending /\ \A f \in wire : f.call # c
        /\ call[c].session \in Sessions /\ call[c].kind \in {"send", "create"}
    BY <1>7, <1>9, <1>10, <1>14, NothingInFlight
  <2> QED  BY <2>1, <1>0, <1>2, <1>7, <1>9, <1>10, <1>14
<1> QED  BY <1>11, <1>12, <1>13, <1>14 DEF Going

(* The steps of connecting, and of ending, with a connection left as it is.*)
OwnStep(c) ==
  Open(c) \/ Ready(c) \/ ConnectFails(c) \/ CallFails(c) \/ CallDone(c)

(* They are the cases of OwnStepKeeps.                                     *)
LEMMA OwnStepsKeep ==
  ASSUME IInv, NEW c \in Calls, OwnStep(c)
  PROVE  IInv'
<1>1. /\ call[c].pc \in Connecting \/ (call[c].pc = "awaiting" /\ call[c].answer # "none")
      /\ UNCHANGED <<generation, pending, wire, hermesVars, cache, applied>>
      /\ link' = link \/ (call[c].pc = "opening" /\ link' = "up")
  BY DEF OwnStep, Open, Ready, ConnectFails, CallFails, CallDone, Answered, Resumable, Connecting
<1>2. /\ c \notin pending /\ \A f \in wire : f.call # c
      /\ call[c] \in CallType /\ call[c].session \in Sessions
  BY <1>1, NothingInFlight
<1>3. /\ call[c].pc \in Connecting => lock = c /\ applied[c] = <<>>
      /\ call[c].pc \notin Connecting => lock # c
      /\ beating \in BOOLEAN
  <2>1. c # Nobody
    BY NamesAssumption
  <2> QED  BY <2>1 DEF IInv, TypeOK, LockOK, AppliedOK
<1>4. ASSUME NEW pc \in {"done", "failed"}
      PROVE  /\ End(call[c], pc) \in CallType /\ End(call[c], pc).pc = pc
             /\ End(call[c], pc).kind = call[c].kind
             /\ End(call[c], pc).session = call[c].session
             /\ End(call[c], pc).gen = 0
  BY <1>2, EndFacts DEF Ended
<1>5. ASSUME NEW pc \in {"readying", "advertising"}
      PROVE  /\ [call[c] EXCEPT !.pc = pc] \in CallType /\ [call[c] EXCEPT !.pc = pc].pc = pc
             /\ [call[c] EXCEPT !.pc = pc].kind = call[c].kind
             /\ [call[c] EXCEPT !.pc = pc].session = call[c].session
             /\ [call[c] EXCEPT !.pc = pc].gen = call[c].gen
  BY <1>2 DEF CallType
<1>6. \E r \in CallType :
        /\ call' = [call EXCEPT ![c] = r]
        /\ r.kind = call[c].kind /\ r.session = call[c].session /\ r.gen \in {0, call[c].gen}
        /\ r.pc \in {"readying", "advertising", "done", "failed"}
        /\ r.pc = "done" <=> applied[c] # <<>> /\ r.pc # "failed"
        /\ IF r.pc \in Connecting THEN lock = c /\ lock' = c
           ELSE lock' = IF lock = c THEN Nobody ELSE lock
        /\ beating' \in BOOLEAN
  <2>1. CASE Open(c)
    <3>1. /\ call[c].pc \in Connecting /\ lock' = lock /\ beating' = beating
          /\ call' = [call EXCEPT ![c] = [call[c] EXCEPT !.pc = "readying"]]
      BY <2>1, <1>2 DEF Open, Connecting
    <3> QED  BY <3>1, <1>3, <1>5 DEF Connecting
  <2>2. CASE Ready(c)
    <3>1. /\ call[c].pc \in Connecting /\ lock' = lock /\ beating' = beating
          /\ call' = [call EXCEPT ![c] = [call[c] EXCEPT !.pc = "advertising"]]
      BY <2>2, <1>2 DEF Ready, Connecting
    <3> QED  BY <3>1, <1>3, <1>5 DEF Connecting
  <2>3. CASE ConnectFails(c)
    <3>1. /\ call[c].pc \in Connecting /\ lock' = Nobody /\ beating' = beating
          /\ call' = [call EXCEPT ![c] = End(call[c], "failed")]
      BY <2>3 DEF ConnectFails, FailedConnecting, Connecting
    <3> QED  BY <3>1, <1>3, <1>4 DEF Connecting
  <2>4. CASE CallFails(c)
    <3>1. /\ call[c].pc \notin Connecting /\ lock' = lock /\ beating' = beating
          /\ call' = [call EXCEPT ![c] = End(call[c], "failed")]
      BY <2>4 DEF CallFails, Resumable, Connecting
    <3> QED  BY <3>1, <1>3, <1>4 DEF Connecting
  <2>5. CASE CallDone(c)
    <3>1. /\ call[c].pc \notin Connecting /\ lock' = lock /\ beating' = beating
          /\ call' = [call EXCEPT ![c] = End(call[c], "done")]
      BY <2>5 DEF CallDone, Answered, Resumable, Connecting
    <3>2. applied[c] # <<>>
      BY <2>5 DEF CallDone, Answered, Resumable, IInv, AppliedOK
    <3> QED  BY <3>1, <3>2, <1>3, <1>4 DEF Connecting
  <2> QED  BY <2>1, <2>2, <2>3, <2>4, <2>5 DEF OwnStep
<1> QED  BY <1>1, <1>2, <1>6, OwnStepKeeps

(* The steps in which the reader ends.                                     *)
LEMMA ReaderStepsKeep ==
  ASSUME IInv, LinkDies \/ \E c \in Calls : BeginConnect(c) \/ ReadyTimesOut(c)
  PROVE  IInv'
<1>0. /\ call \in [Calls -> CallType] /\ generation \in 0..MaxGeneration /\ MaxGeneration \in Nat
      /\ lock \in Calls \cup {Nobody} /\ beating \in BOOLEAN
      /\ lock # Nobody => call[lock].pc \in Connecting
      /\ \A d \in Calls : call[d].pc \in Connecting => lock = d
  BY BoundAssumption DEF IInv, TypeOK, LockOK
<1>1. CASE LinkDies
  <2>1. /\ ReaderEnds(call) /\ UNCHANGED <<generation, beating, lock, cache, applied>>
    BY <1>1 DEF LinkDies
  <2> QED  BY <2>1, <1>0, ReaderEndsKeeps
<1>2. ASSUME NEW c \in Calls, BeginConnect(c) PROVE IInv'
  <2> DEFINE r == [call[c] EXCEPT !.pc = "opening"]
             calls == [call EXCEPT ![c] = r]
  <2>1. /\ call[c].pc = "connecting" /\ generation < MaxGeneration
        /\ generation' = generation + 1 /\ beating' = FALSE
        /\ ReaderEnds(calls) /\ UNCHANGED <<lock, cache, applied>>
    BY <1>2, <1>0 DEF BeginConnect
  <2>2. /\ r \in CallType /\ r.pc = "opening" /\ r.kind = call[c].kind
        /\ r.session = call[c].session /\ r.gen = call[c].gen
    <3>1. call[c] \in CallType
      BY <1>0
    <3> QED  BY <3>1 DEF CallType
  <2> HIDE DEF r
  <2>3. /\ calls \in [Calls -> CallType] /\ calls[c] = r
        /\ \A d \in Calls : d # c => calls[d] = call[d]
    BY <2>2, <1>0
  <2> HIDE DEF calls
  <2>4. generation' \in 0..MaxGeneration
    BY <2>1, <1>0
  <2>5. lock = c
    BY <2>1, <1>0 DEF Connecting
  <2>6. \A d \in Calls : calls[d].pc \in Connecting => lock' = d
    BY <2>1, <2>3, <2>5, <1>0
  <2>7. lock' # Nobody => calls[lock'].pc \in Connecting
    BY <2>1, <2>2, <2>3, <2>5 DEF Connecting
  <2> QED  BY <2>1, <2>2, <2>3, <2>4, <2>6, <2>7, <1>0, ReaderEndsKeeps DEF Connecting
<1>3. ASSUME NEW c \in Calls, ReadyTimesOut(c) PROVE IInv'
  <2> DEFINE r == End(call[c], "failed")
             calls == [call EXCEPT ![c] = r]
  <2>1. /\ call[c].pc = "readying" /\ generation' = generation /\ beating' = FALSE
        /\ lock' = Nobody
        /\ ReaderEnds(calls) /\ UNCHANGED <<cache, applied>>
    BY <1>3 DEF ReadyTimesOut
  <2>2. /\ r \in CallType /\ r.pc = "failed" /\ r.kind = call[c].kind
        /\ r.session = call[c].session /\ r.gen = 0
    <3>1. call[c] \in CallType
      BY <1>0
    <3> QED  BY <3>1, EndFacts DEF Ended
  <2> HIDE DEF r
  <2>3. /\ calls \in [Calls -> CallType] /\ calls[c] = r
        /\ \A d \in Calls : d # c => calls[d] = call[d]
    BY <2>2, <1>0
  <2> HIDE DEF calls
  <2>4. lock = c
    BY <2>1, <1>0 DEF Connecting
  <2>5. \A d \in Calls : calls[d].pc \notin Connecting
    BY <2>2, <2>3, <2>4, <1>0 DEF Connecting
  <2>6. \A d \in Calls : calls[d].pc = "opening" => calls[d] = call[d]
    BY <2>2, <2>3
  <2> QED  BY <2>1, <2>2, <2>3, <2>5, <2>6, <1>0, ReaderEndsKeeps DEF Connecting
<1> QED  BY <1>1, <1>2, <1>3

(* Every step is one of these.                                             *)
LEMMA StepsAre ==
  ASSUME [Next]_vars
  PROVE  \/ \E c \in Calls : Going(c) \/ OwnStep(c) \/ RequestTimesOut(c)
         \/ LinkDies \/ \E c \in Calls : BeginConnect(c) \/ ReadyTimesOut(c)
         \/ \E f \in wire : Dispatch(f) \/ HermesResumes(f) \/ HermesActs(f) \/ HermesRefuses(f)
         \/ HeartbeatFails \/ (\E h \in Handles : HermesForgets(h)) \/ UNCHANGED vars
BY DEF Next, Connects, GoesOn, Going, OwnStep

(* Every step keeps the invariant,                                         *)
LEMMA StepKeeps ==
  ASSUME IInv, [Next]_vars
  PROVE  IInv'
<1>1. ASSUME NEW c \in Calls, Going(c) PROVE IInv'
  BY <1>1, GoingGoes, GoesKeeps
<1>2. ASSUME NEW c \in Calls, OwnStep(c) \/ RequestTimesOut(c) PROVE IInv'
  BY <1>2, OwnStepsKeep, TimeoutKeeps
<1>3. ASSUME NEW f \in wire, Dispatch(f) PROVE IInv'
  BY <1>3, DispatchKeeps
<1>4. ASSUME NEW f \in wire, HermesResumes(f) \/ HermesActs(f) \/ HermesRefuses(f) PROVE IInv'
  BY <1>4, HermesKeeps
<1> QED  BY <1>1, <1>2, <1>3, <1>4, StepsAre, ReaderStepsKeep, SurroundingsKeep

(* so every reachable state satisfies it.                                  *)
LEMMA Inductive == Spec => []IInv
<1>1. IInv /\ [Next]_vars => IInv'
  BY StepKeeps
<1> QED  BY <1>1, InitEstablishes, PTL DEF Spec

-----------------------------------------------------------------------------
(* The theorems.                                                           *)

(* The variables keep their types; a submission always carries a handle.   *)
THEOREM TypesAreKept == Spec => []TypeOK
<1>1. IInv => TypeOK
  BY DEF IInv
<1> QED  BY <1>1, Inductive, PTL

(* Whoever holds the connect lock is connecting, whatever failed: it comes *)
(* free.                                                                   *)
THEOREM LockComesFree == Spec => []LockIsReturned
<1>1. IInv => LockIsReturned
  BY DEF IInv, LockOK, LockIsReturned, Connecting
<1> QED  BY <1>1, Inductive, PTL

(* A call that waits for a reply has a live reader that knows of it.       *)
THEOREM NobodyWaitsInVain == Spec => []NobodyIsStranded
<1>1. IInv => NobodyIsStranded
  BY DEF IInv, PendingOK, NobodyIsStranded
<1> QED  BY <1>1, Inductive, PTL

(* The handle cache never serves a handle of another connection or session.*)
THEOREM CacheNeverCrosses == Spec => []CacheIsOfThisConnection
<1>1. IInv => CacheIsOfThisConnection
  BY DEF IInv
<1> QED  BY <1>1, Inductive, PTL

(* A call sent to a session is applied to that session or to none.         *)
THEOREM CallsReachTheirSession == Spec => []RightSession
<1>1. IInv => RightSession
  <2> SUFFICES ASSUME IInv, NEW c \in Calls, NEW i \in DOMAIN applied[c], call[c].kind = "send"
               PROVE  applied[c][i] = call[c].session
    BY DEF RightSession
  <2>1. PICK s \in Sessions : applied[c] = <<s>> /\ s = call[c].session
    BY DEF IInv, AppliedOK
  <2> QED  BY <2>1
<1> QED  BY <1>1, Inductive, PTL

(* A connection is only replaced when it no longer works.                  *)
THEOREM WorkingConnectionStays == Spec => WorkingConnectionIsKept
<1>1. IInv /\ [Next]_vars => [generation' # generation => ~Up]_vars
  <2> SUFFICES ASSUME IInv, [Next]_vars, generation' # generation PROVE ~Up
    OBVIOUS
  <2>1. PICK c \in Calls : BeginConnect(c)
    BY DEF Next, Connects, GoesOn, Start, Acquire, Open, Ready, Advertised, ConnectFails,
           ReadyTimesOut, CallFails, HandleRejected, SessionResumed, SessionCreated, CallDone,
           RequestTimesOut, LinkDies, HeartbeatFails, Dispatch, HermesResumes, HermesActs,
           HermesRefuses, HermesForgets, vars
  <2> QED  BY <2>1 DEF BeginConnect, IInv, LockOK
<1> QED  BY <1>1, Inductive, PTL DEF Spec, WorkingConnectionIsKept

-----------------------------------------------------------------------------
(* The connection implements the contract.                                 *)

Status(c) == IF call[c].pc \in Ended THEN call[c].pc ELSE "asked"

(* A step that the contract sees at no call but c.                         *)
OnlyOf(c) ==
  \A d \in Calls : d # c => Status(d)' = Status(d) /\ applied'[d] = applied[d]

(* What the app is told of a call, and what Hermes does with it, as steps  *)
(* of the contract.                                                        *)
LEMMA ContractSteps ==
  ASSUME NEW c \in Calls, OnlyOf(c),
         \/ /\ Status(c) # "asked" /\ Status(c)' = "asked" /\ applied'[c] = <<>>
         \/ /\ Status(c) \in {"asked", "failed"} /\ Status(c)' = Status(c)
            /\ Len(applied[c]) = 0 /\ Len(applied'[c]) = 1
         \/ /\ Status(c) = "asked" /\ Status(c)' = "done"
            /\ Len(applied[c]) = 1 /\ applied'[c] = applied[c]
         \/ /\ Status(c) = "asked" /\ Status(c)' = "failed" /\ applied'[c] = applied[c]
         \/ /\ Status(c)' = Status(c) /\ applied'[c] = applied[c]
  PROVE  [Contract!Next]_(Contract!vars)
<1> DEFINE outcome == [d \in Calls |-> Status(d)]
           times   == [d \in Calls |-> Len(applied[d])]
<1>1. /\ outcome' = [outcome EXCEPT ![c] = Status(c)']
      /\ times' = [times EXCEPT ![c] = Len(applied'[c])]
      /\ outcome[c] = Status(c) /\ times[c] = Len(applied[c])
  BY DEF OnlyOf
<1>2. outcome = [d \in Calls |-> IF call[d].pc \in Ended THEN call[d].pc ELSE "asked"]
      /\ times = [d \in Calls |-> Len(applied[d])]
  BY DEF Status
<1>3. CASE Status(c) # "asked" /\ Status(c)' = "asked" /\ applied'[c] = <<>>
  <2>1. Len(applied'[c]) = 0
    BY <1>3
  <2>2. Contract!Ask(c)
    BY <1>1, <1>3, <2>1 DEF Contract!Ask, Status
  <2> QED  BY <2>2 DEF Contract!Next
<1>4. CASE /\ Status(c) \in {"asked", "failed"} /\ Status(c)' = Status(c)
           /\ Len(applied[c]) = 0 /\ Len(applied'[c]) = 1
  <2>1. Contract!Act(c)
    BY <1>1, <1>4 DEF Contract!Act, Status
  <2> QED  BY <2>1 DEF Contract!Next
<1>5. CASE /\ Status(c) = "asked" /\ Status(c)' = "done"
           /\ Len(applied[c]) = 1 /\ applied'[c] = applied[c]
  <2>1. Contract!Confirm(c)
    BY <1>1, <1>5 DEF Contract!Confirm, Status
  <2> QED  BY <2>1 DEF Contract!Next
<1>6. CASE Status(c) = "asked" /\ Status(c)' = "failed" /\ applied'[c] = applied[c]
  <2>1. Contract!GiveUp(c)
    BY <1>1, <1>6 DEF Contract!GiveUp, Status
  <2> QED  BY <2>1 DEF Contract!Next
<1>7. CASE Status(c)' = Status(c) /\ applied'[c] = applied[c]
  BY <1>1, <1>7 DEF Contract!vars, Status
<1> QED  BY <1>3, <1>4, <1>5, <1>6, <1>7

(* A call that has just been made is not given up at once: it may retry.   *)
LEMMA StartIsAsked ==
  ASSUME IInv, NEW c \in Calls, NEW s \in Sessions, NEW kind \in {"send", "create"},
         Start(c, s, kind)
  PROVE  call'[c].pc \notin Ended
<1> DEFINE rec == [IdleCall EXCEPT !.kind = kind, !.session = s]
<1>1. rec \in CallType /\ rec.kind = kind /\ rec.session = s /\ rec.tries = 1
  <2>1. IdleCall \in CallType /\ IdleCall.tries = 1
    BY BoundAssumption DEF IdleCall, CallType, Ended
  <2> QED  BY <2>1 DEF CallType
<1>2. Enter(c, rec) /\ call \in [Calls -> CallType]
  BY DEF Start, IInv, TypeOK
<1> HIDE DEF rec
<1>3. ASSUME NEW r \in CallType, SeekConnection(c, r, lock) PROVE call'[c].pc \notin Ended
  BY <1>2, <1>3, SeekFacts DEF Ended
<1>4. ASSUME NEW r \in CallType, r.tries = 1, Request(c, r, lock) PROVE call'[c].pc \notin Ended
  <2>1. CASE call' = [call EXCEPT ![c] = [r EXCEPT !.pc = "awaiting", !.gen = generation,
                                                  !.answer = "none"]]
    <3>1. call'[c].pc = "awaiting"
      BY <2>1, <1>2 DEF CallType
    <3> QED  BY <3>1 DEF Ended
  <2>2. CASE NotSent(c, r, lock)
    <3> DEFINE again == [r EXCEPT !.tries = 2]
    <3>1. again \in CallType /\ SeekConnection(c, again, lock)
      BY <1>4, <2>2 DEF NotSent, CallType
    <3> HIDE DEF again
    <3> QED  BY <3>1, <1>3
  <2> QED  BY <1>4, <2>1, <2>2 DEF Request
<1>5. CASE Operate(c, rec, lock)
  <2> DEFINE h == Cached(rec.session)
             create == [rec EXCEPT !.asks = IF rec.handle = NoHandle THEN "create" ELSE "submit"]
             send == [rec EXCEPT !.asks = IF h = NoHandle THEN "resume" ELSE "submit",
                                 !.cached = h # NoHandle, !.handle = h]
  <2>1. Request(c, create, lock) \/ Request(c, send, lock)
    BY <1>5 DEF Operate
  <2>2. h \in Handles \cup {NoHandle}
    BY <1>1 DEF Cached, IInv, TypeOK
  <2> HIDE DEF h
  <2>3. create \in CallType /\ create.tries = 1 /\ send \in CallType /\ send.tries = 1
    BY <1>1, <2>2 DEF CallType
  <2> HIDE DEF create, send
  <2> QED  BY <2>1, <2>3, <1>4
<1> QED  BY <1>1, <1>2, <1>3, <1>5 DEF Enter

(* Every step is one the contract allows, or one it does not see.          *)
LEMMA StepsImplement ==
  ASSUME IInv, [Next]_vars
  PROVE  [Contract!Next]_(Contract!vars)
<1>0. /\ call \in [Calls -> CallType] /\ applied \in [Calls -> Seq(Sessions)]
  BY DEF IInv, TypeOK
<1>1. ASSUME \A d \in Calls : Status(d)' = Status(d) /\ applied'[d] = applied[d]
      PROVE  [Contract!Next]_(Contract!vars)
  BY <1>1 DEF Contract!vars, Status
<1>2. ASSUME NEW c \in Calls, Going(c) PROVE [Contract!Next]_(Contract!vars)
  <2>1. PICK r \in CallType :
          /\ call' = [call EXCEPT ![c] = r]
          /\ r.pc \in {"awaiting", "connecting", "waiting", "failed"}
    BY <1>2, GoingGoes DEF Goes, Sent, Unsent
  <2>2. applied' = [applied EXCEPT ![c] = <<>>]
    BY <1>2, GoingGoes
  <2>3. call'[c] = r /\ applied'[c] = <<>> /\ OnlyOf(c)
    BY <2>1, <2>2, <1>0 DEF OnlyOf, Status
  <2>4. Status(c)' \in {"asked", "failed"}
    BY <2>1, <2>3 DEF Status, Ended
  <2>5. CASE \E s \in Sessions, kind \in {"send", "create"} : Start(c, s, kind)
    <3>1. Status(c)' = "asked"
      BY <2>5, StartIsAsked DEF Status
    <3>2. Status(c) # "asked"
      BY <2>5 DEF Start, Status, Ended
    <3> QED  BY <2>3, <3>1, <3>2, ContractSteps
  <2>6. CASE /\ applied[c] = <<>>
             /\ call[c].pc \in {"waiting", "advertising", "awaiting"}
    <3>1. Status(c) = "asked"
      BY <2>6 DEF Status, Ended
    <3> QED  BY <2>3, <2>4, <2>6, <3>1, ContractSteps
  <2>7. CASE Acquire(c) \/ Advertised(c)
    <3>1. call[c].pc \in {"waiting", "advertising"} /\ applied[c] = <<>>
      BY <2>7 DEF Acquire, Advertised, IInv, AppliedOK, Connecting
    <3> QED  BY <3>1, <2>6
  <2>8. CASE HandleRejected(c) \/ SessionResumed(c) \/ SessionCreated(c)
    <3>1. /\ call[c].pc = "awaiting" /\ call[c].answer \in {"ok", "unknown"}
          /\ ~(call[c].asks = "submit" /\ call[c].answer = "ok")
      BY <2>8 DEF HandleRejected, SessionResumed, SessionCreated, Answered, Resumable
    <3>2. applied[c] = <<>>
      BY <3>1 DEF IInv, AppliedOK
    <3> QED  BY <3>1, <3>2, <2>6
  <2> QED  BY <1>2, <2>5, <2>7, <2>8 DEF Going
<1>3. ASSUME NEW c \in Calls, Open(c) \/ Ready(c) PROVE [Contract!Next]_(Contract!vars)
  <2>1. \E pc \in {"readying", "advertising"} : call' = [call EXCEPT ![c].pc = pc]
    BY <1>3 DEF Open, Ready
  <2>2. call[c].pc \in Connecting /\ call[c] \in CallType /\ applied' = applied
    BY <1>0, <1>3 DEF Open, Ready, Connecting
  <2>3. call'[c].pc \in Connecting /\ \A d \in Calls : d # c => call'[d] = call[d]
    BY <2>1, <2>2, <1>0 DEF Connecting, CallType
  <2> QED  BY <2>2, <2>3, <1>1 DEF Status, Connecting, Ended
<1>4. ASSUME NEW c \in Calls, NEW pc \in {"done", "failed"},
             call' = [call EXCEPT ![c] = End(call[c], pc)], applied' = applied,
             call[c].pc \notin Ended, pc = "done" => Len(applied[c]) = 1
      PROVE  [Contract!Next]_(Contract!vars)
  <2>1. call[c] \in CallType
    BY <1>0
  <2>2. End(call[c], pc).pc = pc
    BY <2>1, EndFacts DEF Ended
  <2>3. call'[c].pc = pc /\ OnlyOf(c)
    BY <2>2, <1>0, <1>4 DEF OnlyOf, Status
  <2>4. Status(c) = "asked" /\ Status(c)' = pc
    BY <2>3, <1>4 DEF Status, Ended
  <2> QED  BY <2>3, <2>4, <1>4, ContractSteps
<1>5. ASSUME NEW c \in Calls, ConnectFails(c) \/ CallFails(c) \/ RequestTimesOut(c)
      PROVE  [Contract!Next]_(Contract!vars)
  <2>1. /\ call' = [call EXCEPT ![c] = End(call[c], "failed")] /\ applied' = applied
        /\ call[c].pc \notin Ended
    BY <1>5 DEF ConnectFails, FailedConnecting, CallFails, RequestTimesOut, Resumable, Ended
  <2> QED  BY <2>1, <1>4
<1>6. ASSUME NEW c \in Calls, CallDone(c) PROVE [Contract!Next]_(Contract!vars)
  <2>1. /\ call' = [call EXCEPT ![c] = End(call[c], "done")] /\ applied' = applied
        /\ call[c].pc = "awaiting" /\ call[c].asks = "submit" /\ call[c].answer = "ok"
    BY <1>6 DEF CallDone, Answered, Resumable
  <2>2. \E s \in Sessions : applied[c] = <<s>>
    BY <2>1 DEF IInv, AppliedOK
  <2>3. Len(applied[c]) = 1 /\ call[c].pc \notin Ended
    BY <2>1, <2>2 DEF Ended
  <2> QED  BY <2>1, <2>3, <1>4
<1>7. ASSUME NEW calls, ReaderEnds(calls), applied' = applied, calls \in [Calls -> CallType]
      PROVE  /\ \A d \in Calls : call'[d].pc = calls[d].pc
             /\ applied' = applied
  <2>1. call' = [d \in Calls |-> IF d \in pending THEN [calls[d] EXCEPT !.answer = "closed"]
                                ELSE calls[d]]
    BY <1>7 DEF ReaderEnds, FailPending
  <2> SUFFICES ASSUME NEW d \in Calls PROVE call'[d].pc = calls[d].pc
    BY <1>7
  <2>2. calls[d] \in CallType
    BY <1>7
  <2> QED  BY <2>1, <2>2 DEF CallType
<1>8. CASE LinkDies
  <2>1. ReaderEnds(call) /\ applied' = applied
    BY <1>8 DEF LinkDies
  <2> QED  BY <2>1, <1>0, <1>1, <1>7 DEF Status
<1>9. ASSUME NEW c \in Calls, BeginConnect(c) PROVE [Contract!Next]_(Contract!vars)
  <2> DEFINE calls == [call EXCEPT ![c].pc = "opening"]
  <2>1. ReaderEnds(calls) /\ applied' = applied /\ call[c].pc = "connecting"
    BY <1>9 DEF BeginConnect
  <2>2. calls \in [Calls -> CallType] /\ calls[c].pc = "opening"
        /\ \A d \in Calls : d # c => calls[d] = call[d]
    <3>1. call[c] \in CallType
      BY <1>0
    <3>2. /\ [call[c] EXCEPT !.pc = "opening"] \in CallType
          /\ [call[c] EXCEPT !.pc = "opening"].pc = "opening"
      BY <3>1 DEF CallType
    <3> QED  BY <3>2, <1>0
  <2> HIDE DEF calls
  <2> QED  BY <2>1, <2>2, <1>1, <1>7 DEF Status, Ended
<1>10. ASSUME NEW c \in Calls, ReadyTimesOut(c) PROVE [Contract!Next]_(Contract!vars)
  <2> DEFINE calls == [call EXCEPT ![c] = End(call[c], "failed")]
  <2>1. ReaderEnds(calls) /\ applied' = applied /\ call[c].pc = "readying"
    BY <1>10 DEF ReadyTimesOut
  <2>2. calls \in [Calls -> CallType] /\ calls[c].pc = "failed"
        /\ \A d \in Calls : d # c => calls[d] = call[d]
    <3>1. call[c] \in CallType
      BY <1>0
    <3>2. End(call[c], "failed") \in CallType /\ End(call[c], "failed").pc = "failed"
      BY <3>1, EndFacts DEF Ended
    <3> QED  BY <3>2, <1>0
  <2> HIDE DEF calls
  <2>3. Status(c) = "asked" /\ Status(c)' = "failed" /\ OnlyOf(c)
    BY <2>1, <2>2, <1>7 DEF Status, Ended, OnlyOf
  <2> QED  BY <2>1, <2>3, ContractSteps
<1>11. ASSUME NEW f \in wire, Dispatch(f) PROVE [Contract!Next]_(Contract!vars)
  <2>1. f.call \in Calls /\ f \in FrameType /\ call[f.call] \in CallType /\ applied' = applied
    BY <1>0, <1>11 DEF IInv, TypeOK, FrameType, Dispatch
  <2>2. \A d \in Calls : call'[d].pc = call[d].pc
    <3>1. CASE f.call \notin pending
      BY <3>1, <1>11 DEF Dispatch
    <3>2. CASE f.call \in pending
      <4> DEFINE r == [call[f.call] EXCEPT !.answer = f.answer, !.handle = f.handle]
      <4>1. call' = [call EXCEPT ![f.call] = r]
        BY <3>2, <1>11, <2>1 DEF Dispatch
      <4>2. r.pc = call[f.call].pc
        BY <2>1 DEF CallType
      <4> HIDE DEF r
      <4> QED  BY <4>1, <4>2, <1>0
    <3> QED  BY <3>1, <3>2
  <2> QED  BY <2>1, <2>2, <1>1 DEF Status
<1>12. ASSUME NEW f \in wire, HermesActs(f), Live(f.handle) PROVE [Contract!Next]_(Contract!vars)
  <2>1. /\ f \in FrameType /\ f.call \in Calls /\ FrameOK(f) /\ f.answer = "none"
        /\ applied[f.call] = <<>> /\ f.handle \in Handles
    BY <1>12 DEF IInv, TypeOK, FrameType, WireOK, FrameOK, HermesActs
  <2>2. /\ call' = call
        /\ applied' = [applied EXCEPT ![f.call] = Append(@, owner[f.handle])]
    BY <1>12 DEF HermesActs
  <2>3. applied'[f.call] = <<owner[f.handle]>> /\ Len(<<owner[f.handle]>>) = 1 /\ Len(<<>>) = 0
    BY <2>1, <2>2, <1>0
  <2>4. Status(f.call) \in {"asked", "failed"}
    BY <2>1 DEF FrameOK, Status, Ended, IInv, PendingOK
  <2>5. OnlyOf(f.call) /\ Status(f.call)' = Status(f.call)
    BY <2>1, <2>2, <1>0 DEF OnlyOf, Status
  <2> QED  BY <2>1, <2>3, <2>4, <2>5, ContractSteps
<1>13. CASE \/ \E f \in wire : HermesResumes(f) \/ (HermesActs(f) /\ ~Live(f.handle)) \/ HermesRefuses(f)
            \/ HeartbeatFails \/ (\E h \in Handles : HermesForgets(h)) \/ UNCHANGED vars
  <2>1. call' = call /\ applied' = applied
    BY <1>13 DEF HermesResumes, HermesActs, HermesRefuses, HeartbeatFails, HermesForgets, vars
  <2> QED  BY <2>1, <1>1 DEF Status
<1> QED  BY <1>2, <1>3, <1>5, <1>6, <1>8, <1>9, <1>10, <1>11, <1>12, <1>13, StepsAre DEF OwnStep

(* A call is done at most once, "done" is said only of a call that was,    *)
(* and one that was given up is never taken back: the connection, with its *)
(* retries and its lost replies, implements CallContract.                  *)
THEOREM ContractIsKept == Spec => ImplementsContract
<1>1. Init => Contract!Init
  BY DEF Init, Contract!Init, IdleCall, Ended
<1>2. IInv /\ [Next]_vars => [Contract!Next]_(Contract!vars)
  BY StepsImplement
<1> QED  BY <1>1, <1>2, Inductive, PTL DEF Spec, ImplementsContract, Contract!Spec
=============================================================================
