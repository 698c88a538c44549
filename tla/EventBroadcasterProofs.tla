----------------------- MODULE EventBroadcasterProofs -----------------------
(***************************************************************************)
(* The event stream for any apps, queues, history and numbers: what an app *)
(* that owes no reload is missing is queued for it, a replaced connection  *)
(* is told before it is seen, and the stream implements StreamContract.    *)
(***************************************************************************)
EXTENDS EventBroadcaster, SequenceTheorems, TLAPS

Frame  == [type : {"event", "reset", "resync", "synth", "desync"},
           seq : Nat, gen : Nat, size : Nat]
Feed   == [queue : Seq(Frame), desync : BOOLEAN]
Client == [epoch : Nat, cursor : Nat, known : Nat, stale : BOOLEAN,
           gen : Nat, lost : Nat]

-----------------------------------------------------------------------------
(* One open feed of an app  cl, when  n  frames are numbered,  l  events   *)
(* are lost, the connection is the  g-th and the  s-th was announced.      *)

(* A feed that was cut off says so.                                        *)
CutShort(sub) ==
  sub.desync => \E i \in DOMAIN sub.queue : sub.queue[i].type = "desync"

Numbered(q, n) == \A i \in DOMAIN q : q[i].type = "event" => q[i].seq <= n

(* No queued frame skips one, unless the app will have been told.          *)
Follows(q, known) ==
  \A i \in DOMAIN q : q[i].type = "event" =>
    \/ q[i].seq <= known + 1
    \/ \E j \in 1..(i - 1) : \/ q[j].type \in Reloading
                             \/ q[j].type = "event" /\ q[j].seq + 1 = q[i].seq

Complete(q, cl, n, l) ==
  \/ cl.stale
  \/ Announced(q)
  \/ (\A s \in (cl.known + 1)..n : Holds(q, s)) /\ cl.lost = l

ToldFirst(q, gen) ==
  \A i \in DOMAIN q : q[i].type = "event" /\ q[i].gen > gen =>
    \E j \in 1..(i - 1) : q[j].type = "resync" /\ q[j].gen >= q[i].gen

(* The connections that are announced are told in order.                   *)
Rising(q, gen, g) ==
  \A i \in DOMAIN q : q[i].type = "resync" =>
    /\ gen <= q[i].gen /\ q[i].gen <= g
    /\ \A j \in 1..(i - 1) : q[j].type = "resync" => q[j].gen <= q[i].gen

Heard(sub, gen, s) ==
  \/ sub.desync
  \/ gen >= s
  \/ \E i \in DOMAIN sub.queue : sub.queue[i].type = "resync" /\ sub.queue[i].gen >= s

Orderly(q, cl, n, g) ==
  /\ Numbered(q, n)
  /\ cl.stale \/ Follows(q, cl.known)
  /\ ToldFirst(q, cl.gen)
  /\ Rising(q, cl.gen, g)

FeedOK(sub, cl, n, l, g, s) ==
  /\ sub \in Feed
  /\ CutShort(sub)
  /\ Orderly(sub.queue, cl, n, g)
  /\ Complete(sub.queue, cl, n, l)
  /\ Heard(sub, cl.gen, s)

-----------------------------------------------------------------------------
(* The inductive invariant.                                                *)

Types ==
  /\ epoch \in Nat \ {0}
  /\ lastSeq \in Nat
  /\ history \in Seq(Frame)
  /\ gap \in BOOLEAN
  /\ generation \in Nat
  /\ seen \in Nat
  /\ subscribed \subseteq Clients
  /\ feed \in [Clients -> Feed]
  /\ client \in [Clients -> Client]
  /\ lost \in Nat

(* The history is the last frames numbered, without a hole.                *)
HistoryOK ==
  /\ Len(history) <= lastSeq
  /\ \A i \in DOMAIN history :
       /\ history[i].type = "event"
       /\ history[i].seq = lastSeq - Len(history) + i
       /\ history[i].gen <= generation

StreamOK == seen <= generation /\ (~gap => lost = 0)

ClientOK(cl) ==
  /\ cl.epoch <= epoch
  /\ cl.epoch = epoch =>
       cl.cursor <= cl.known /\ cl.known <= lastSeq /\ cl.lost <= lost

SubscriberOK(c) ==
  /\ client[c].epoch = epoch
  /\ client[c].gen <= generation
  /\ FeedOK(feed[c], client[c], lastSeq, lost, generation, seen)

IInv ==
  /\ Types /\ HistoryOK /\ StreamOK
  /\ \A c \in Clients : ClientOK(client[c])
  /\ \A c \in subscribed : SubscriberOK(c)

-----------------------------------------------------------------------------
(* Offering a frame.                                                       *)

(* An element of a sequence.                                               *)
LEMMA ElementIs ==
  ASSUME NEW S, NEW q \in Seq(S), NEW i \in DOMAIN q
  PROVE  q[i] \in S
  OBVIOUS

(* A queue with one more frame, by places.                                 *)
LEMMA Appended ==
  ASSUME NEW q \in Seq(Frame), NEW f \in Frame
  PROVE  /\ Append(q, f) \in Seq(Frame)
         /\ Len(q) \in Nat
         /\ DOMAIN q = 1..Len(q)
         /\ DOMAIN Append(q, f) = 1..(Len(q) + 1)
         /\ \A i \in 1..Len(q) : Append(q, f)[i] = q[i]
         /\ Append(q, f)[Len(q) + 1] = f
  OBVIOUS

(* A feed that is cut off takes nothing; another takes the frame, or the   *)
(* frame that ends it.                                                     *)
LEMMA OfferIs ==
  ASSUME generation \in Nat, NEW sub \in Feed, NEW f \in Frame
  PROVE  \/ sub.desync /\ Offer(f, sub) = sub
         \/ /\ ~sub.desync
            /\ Offer(f, sub) = [queue |-> Append(sub.queue, f), desync |-> FALSE]
         \/ /\ ~sub.desync
            /\ DesyncFrame \in Frame /\ DesyncFrame.type = "desync"
            /\ Offer(f, sub) = [queue |-> Append(sub.queue, DesyncFrame), desync |-> TRUE]
<1>1. CASE sub.desync
  BY <1>1 DEF Offer
<1>2. CASE ~sub.desync /\ Fits(sub.queue, f)
  <2>1. Offer(f, sub) = [sub EXCEPT !.queue = Append(@, f)]
    BY <1>2 DEF Offer
  <2>2. [sub EXCEPT !.queue = Append(@, f)]
          = [queue |-> Append(sub.queue, f), desync |-> sub.desync]
    BY DEF Feed
  <2>3. sub.desync = FALSE
    BY <1>2 DEF Feed
  <2> QED  BY <1>2, <2>1, <2>2, <2>3
<1>3. CASE ~sub.desync /\ ~Fits(sub.queue, f)
  <2>1. Offer(f, sub) = [queue |-> Append(sub.queue, DesyncFrame), desync |-> TRUE]
    BY <1>3 DEF Offer, CutOff
  <2>2. DesyncFrame \in Frame /\ DesyncFrame.type = "desync"
    BY DEF DesyncFrame, ControlFrame, ControlSize, Frame
  <2> QED  BY <1>3, <2>1, <2>2
<1> QED  BY <1>1, <1>2, <1>3

(* The desynchronized frame, which ends a feed.                            *)
LEMMA CutKeeps ==
  ASSUME NEW sub \in Feed, NEW cl \in Client, NEW n \in Nat, NEW m \in Nat, n <= m,
         NEW k, NEW g \in Nat, NEW t,
         NEW d \in Frame, d.type = "desync",
         Orderly(sub.queue, cl, n, g)
  PROVE  FeedOK([queue |-> Append(sub.queue, d), desync |-> TRUE], cl, m, k, g, t)
<1> DEFINE q == sub.queue
           r == Append(q, d)
           new == [queue |-> r, desync |-> TRUE]
<1>1. q \in Seq(Frame)
  BY DEF Feed
<1>2. /\ r \in Seq(Frame) /\ Len(q) \in Nat /\ DOMAIN q = 1..Len(q)
      /\ DOMAIN r = 1..(Len(q) + 1) /\ \A i \in 1..Len(q) : r[i] = q[i]
      /\ r[Len(q) + 1] = d
  BY <1>1, Appended
<1>3. new \in Feed /\ new.queue = r /\ new.desync = TRUE
  BY <1>2 DEF Feed
<1>4. Len(q) + 1 \in DOMAIN r
  BY <1>2
<1>5. \A i \in DOMAIN q : q[i] \in Frame
  BY <1>1, ElementIs
<1> HIDE DEF q, r, new
<1>6. /\ Numbered(q, n) /\ (cl.stale \/ Follows(q, cl.known))
      /\ ToldFirst(q, cl.gen) /\ Rising(q, cl.gen, g)
  BY DEF Orderly, q
<1>7. CutShort(new) /\ Heard(new, cl.gen, t)
  BY <1>2, <1>3, <1>4 DEF CutShort, Heard
<1>8. Numbered(r, m)
  <2> SUFFICES ASSUME NEW i \in DOMAIN r, r[i].type = "event" PROVE r[i].seq <= m
    BY DEF Numbered
  <2>1. i \in DOMAIN q /\ r[i] = q[i]
    BY <1>2
  <2> QED  BY <2>1, <1>5, <1>6 DEF Numbered, Frame
<1>9. Complete(r, cl, m, k)
  BY <1>2, <1>4 DEF Complete, Announced, Reloading
<1>10. cl.stale \/ Follows(r, cl.known)
  <2> SUFFICES ASSUME Follows(q, cl.known), NEW i \in DOMAIN r, r[i].type = "event"
               PROVE  \/ r[i].seq <= cl.known + 1
                      \/ \E j \in 1..(i - 1) : \/ r[j].type \in Reloading
                                               \/ r[j].type = "event" /\ r[j].seq + 1 = r[i].seq
    BY <1>6 DEF Follows
  <2>1. i \in DOMAIN q /\ r[i] = q[i] /\ \A j \in 1..(i - 1) : r[j] = q[j]
    BY <1>2
  <2> QED  BY <2>1 DEF Follows
<1>11. ToldFirst(r, cl.gen)
  <2> SUFFICES ASSUME NEW i \in DOMAIN r, r[i].type = "event", r[i].gen > cl.gen
               PROVE  \E j \in 1..(i - 1) : r[j].type = "resync" /\ r[j].gen >= r[i].gen
    BY DEF ToldFirst
  <2>1. i \in DOMAIN q /\ r[i] = q[i] /\ \A j \in 1..(i - 1) : r[j] = q[j]
    BY <1>2
  <2> QED  BY <2>1, <1>6 DEF ToldFirst
<1>12. Rising(r, cl.gen, g)
  <2> SUFFICES ASSUME NEW i \in DOMAIN r, r[i].type = "resync"
               PROVE  /\ cl.gen <= r[i].gen /\ r[i].gen <= g
                      /\ \A j \in 1..(i - 1) : r[j].type = "resync" => r[j].gen <= r[i].gen
    BY DEF Rising
  <2>1. i \in DOMAIN q /\ r[i] = q[i] /\ \A j \in 1..(i - 1) : r[j] = q[j]
    BY <1>2
  <2> QED  BY <2>1, <1>6 DEF Rising
<1>13. FeedOK(new, cl, m, k, g, t)
  BY <1>3, <1>7, <1>8, <1>9, <1>10, <1>11, <1>12 DEF FeedOK, Orderly
<1> QED  BY <1>13 DEF new, r, q

(* A feed that was cut off already has announced whatever happens next.    *)
LEMMA CutStays ==
  ASSUME NEW sub \in Feed, NEW cl \in Client, NEW n \in Nat, NEW m \in Nat, n <= m,
         NEW l, NEW k, NEW g \in Nat, NEW s, NEW t, sub.desync,
         FeedOK(sub, cl, n, l, g, s)
  PROVE  FeedOK(sub, cl, m, k, g, t)
<1>1. \A i \in DOMAIN sub.queue : sub.queue[i] \in Frame
  <2>1. sub.queue \in Seq(Frame)
    BY DEF Feed
  <2> QED  BY <2>1, ElementIs
<1>2. Numbered(sub.queue, m)
  <2>1. \A i \in DOMAIN sub.queue : sub.queue[i].seq \in Nat
    BY <1>1 DEF Frame
  <2> QED  BY <2>1 DEF FeedOK, Orderly, Numbered
<1>3. Announced(sub.queue)
  BY DEF FeedOK, Orderly, CutShort, Announced, Reloading
<1>4. Complete(sub.queue, cl, m, k) /\ Heard(sub, cl.gen, t)
  BY <1>3 DEF Complete, Heard
<1> QED  BY <1>2, <1>4 DEF FeedOK, Orderly

(* Everything but an event: a reset may come with lost events, a resync    *)
(* with a newer connection, and nothing else with either.                  *)
LEMMA ControlKeeps ==
  ASSUME generation \in Nat, NEW sub \in Feed, NEW cl \in Client, NEW f \in Frame,
         NEW n \in Nat, NEW l, NEW k, NEW s \in Nat, NEW t \in Nat,
         f.type \in {"reset", "resync", "synth"}, f.gen = generation,
         cl.gen <= generation, t <= generation,
         f.type = "resync" \/ t = s,
         f.type = "reset" \/ k = l,
         FeedOK(sub, cl, n, l, generation, s)
  PROVE  FeedOK(Offer(f, sub), cl, n, k, generation, t)
<1>1. CASE sub.desync /\ Offer(f, sub) = sub
  BY <1>1, CutStays
<1>2. CASE /\ DesyncFrame \in Frame /\ DesyncFrame.type = "desync"
           /\ Offer(f, sub) = [queue |-> Append(sub.queue, DesyncFrame), desync |-> TRUE]
  <2>1. n <= n /\ Orderly(sub.queue, cl, n, generation)
    BY DEF FeedOK
  <2>2. FeedOK([queue |-> Append(sub.queue, DesyncFrame), desync |-> TRUE],
               cl, n, k, generation, t)
    BY <1>2, <2>1, CutKeeps
  <2> QED  BY <1>2, <2>2
<1>3. CASE /\ ~sub.desync
           /\ Offer(f, sub) = [queue |-> Append(sub.queue, f), desync |-> FALSE]
  <2> DEFINE q == sub.queue
             r == Append(q, f)
             new == [queue |-> r, desync |-> FALSE]
  <2>1. q \in Seq(Frame)
    BY DEF Feed
  <2>2. /\ r \in Seq(Frame) /\ Len(q) \in Nat /\ DOMAIN q = 1..Len(q)
        /\ DOMAIN r = 1..(Len(q) + 1) /\ \A i \in 1..Len(q) : r[i] = q[i]
        /\ r[Len(q) + 1] = f
    BY <2>1, Appended
  <2>3. new \in Feed /\ new.queue = r /\ new.desync = FALSE
    BY <2>2 DEF Feed
  <2>4. Len(q) + 1 \in DOMAIN r
    BY <2>2
  <2>5. \A i \in DOMAIN q : q[i] \in Frame
    BY <2>1, ElementIs
  <2> HIDE DEF q, r, new
  <2>6. /\ Numbered(q, n) /\ (cl.stale \/ Follows(q, cl.known))
        /\ Complete(q, cl, n, l) /\ ToldFirst(q, cl.gen) /\ Rising(q, cl.gen, generation)
        /\ (cl.gen >= s \/ \E i \in DOMAIN q : q[i].type = "resync" /\ q[i].gen >= s)
    BY <1>3 DEF FeedOK, Orderly, Heard, q
  <2>7. CutShort(new)
    BY <2>3 DEF CutShort
  <2>8. \A i \in DOMAIN r : \/ i \in DOMAIN q /\ r[i] = q[i] /\ \A j \in 1..(i - 1) : r[j] = q[j]
                            \/ i = Len(q) + 1 /\ r[i] = f /\ \A j \in 1..(i - 1) : r[j] = q[j]
    BY <2>2
  <2>9. \A i \in DOMAIN r : r[i].type = "event" =>
          i \in DOMAIN q /\ r[i] = q[i] /\ \A j \in 1..(i - 1) : r[j] = q[j]
    BY <2>8
  <2>10. Numbered(r, n) /\ (cl.stale \/ Follows(r, cl.known)) /\ ToldFirst(r, cl.gen)
    <3>1. Numbered(r, n)
      BY <2>6, <2>9 DEF Numbered
    <3>2. ASSUME Follows(q, cl.known) PROVE Follows(r, cl.known)
      BY <3>2, <2>9 DEF Follows
    <3>3. ToldFirst(r, cl.gen)
      BY <2>6, <2>9 DEF ToldFirst
    <3> QED  BY <2>6, <3>1, <3>2, <3>3
  <2>11. Complete(r, cl, n, k)
    <3>1. CASE f.type = "reset"
      BY <3>1, <2>2, <2>4 DEF Complete, Announced, Reloading
    <3>2. CASE k = l
      <4>1. Announced(q) => Announced(r)
        BY <2>2 DEF Announced
      <4>2. \A m \in Nat : Holds(q, m) => Holds(r, m)
        BY <2>2 DEF Holds
      <4>3. \A m \in (cl.known + 1)..n : m \in Nat
        BY DEF Client
      <4> QED  BY <3>2, <2>6, <4>1, <4>2, <4>3 DEF Complete
    <3> QED  BY <3>1, <3>2
  <2>12. Rising(r, cl.gen, generation)
    <3> SUFFICES ASSUME NEW i \in DOMAIN r, r[i].type = "resync"
                 PROVE  /\ cl.gen <= r[i].gen /\ r[i].gen <= generation
                        /\ \A j \in 1..(i - 1) : r[j].type = "resync" => r[j].gen <= r[i].gen
      BY DEF Rising
    <3>1. CASE i \in DOMAIN q /\ r[i] = q[i] /\ \A j \in 1..(i - 1) : r[j] = q[j]
      BY <3>1, <2>6 DEF Rising
    <3>2. CASE i = Len(q) + 1 /\ r[i] = f /\ \A j \in 1..(i - 1) : r[j] = q[j]
      <4>1. \A j \in 1..(i - 1) : j \in DOMAIN q
        BY <3>2, <2>2
      <4> QED  BY <3>2, <4>1, <2>6 DEF Rising, Client
    <3> QED  BY <3>1, <3>2, <2>8
  <2>13. Heard(new, cl.gen, t)
    <3>1. CASE f.type = "resync"
      BY <3>1, <2>2, <2>3, <2>4 DEF Heard
    <3>2. CASE t = s
      BY <3>2, <2>2, <2>3, <2>6 DEF Heard
    <3> QED  BY <3>1, <3>2
  <2>14. FeedOK(new, cl, n, k, generation, t)
    BY <2>3, <2>7, <2>10, <2>11, <2>12, <2>13 DEF FeedOK, Orderly
  <2> QED  BY <1>3, <2>14 DEF new, r, q
<1> QED  BY <1>1, <1>2, <1>3, OfferIs

(* The next event, of a connection that was announced.                     *)
LEMMA EventKeeps ==
  ASSUME generation \in Nat, NEW sub \in Feed, NEW cl \in Client, NEW f \in Frame,
         NEW n \in Nat, NEW l, NEW s \in Nat,
         f.type = "event", f.seq = n + 1, f.gen <= s, cl.known <= n,
         FeedOK(sub, cl, n, l, generation, s)
  PROVE  FeedOK(Offer(f, sub), cl, n + 1, l, generation, s)
<1>1. CASE sub.desync /\ Offer(f, sub) = sub
  BY <1>1, CutStays
<1>2. CASE /\ DesyncFrame \in Frame /\ DesyncFrame.type = "desync"
           /\ Offer(f, sub) = [queue |-> Append(sub.queue, DesyncFrame), desync |-> TRUE]
  <2>1. n + 1 \in Nat /\ n <= n + 1
    OBVIOUS
  <2>2. FeedOK([queue |-> Append(sub.queue, DesyncFrame), desync |-> TRUE],
               cl, n + 1, l, generation, s)
    BY <1>2, <2>1, CutKeeps DEF FeedOK
  <2> QED  BY <1>2, <2>2
<1>3. CASE /\ ~sub.desync
           /\ Offer(f, sub) = [queue |-> Append(sub.queue, f), desync |-> FALSE]
  <2> DEFINE q == sub.queue
             r == Append(q, f)
             new == [queue |-> r, desync |-> FALSE]
  <2>1. q \in Seq(Frame)
    BY DEF Feed
  <2>2. /\ r \in Seq(Frame) /\ Len(q) \in Nat /\ DOMAIN q = 1..Len(q)
        /\ DOMAIN r = 1..(Len(q) + 1) /\ \A i \in 1..Len(q) : r[i] = q[i]
        /\ r[Len(q) + 1] = f
    BY <2>1, Appended
  <2>3. new \in Feed /\ new.queue = r /\ new.desync = FALSE
    BY <2>2 DEF Feed
  <2>4. Len(q) + 1 \in DOMAIN r
    BY <2>2
  <2>5. \A i \in DOMAIN q : q[i].seq \in Nat /\ q[i].gen \in Nat
    <3>1. \A i \in DOMAIN q : q[i] \in Frame
      BY <2>1, ElementIs
    <3> QED  BY <3>1 DEF Frame
  <2>6. cl.known \in Nat /\ cl.gen \in Nat
    BY DEF Client
  <2> HIDE DEF q, r, new
  <2>7. /\ Numbered(q, n) /\ (cl.stale \/ Follows(q, cl.known))
        /\ Complete(q, cl, n, l) /\ ToldFirst(q, cl.gen) /\ Rising(q, cl.gen, generation)
        /\ (cl.gen >= s \/ \E i \in DOMAIN q : q[i].type = "resync" /\ q[i].gen >= s)
    BY <1>3 DEF FeedOK, Orderly, Heard, q
  <2>8. CutShort(new)
    BY <2>3 DEF CutShort
  <2>9. \A i \in DOMAIN r : \/ i \in DOMAIN q /\ r[i] = q[i] /\ \A j \in 1..(i - 1) : r[j] = q[j]
                            \/ i = Len(q) + 1 /\ r[i] = f /\ \A j \in 1..(i - 1) : r[j] = q[j]
    BY <2>2
  <2>10. Numbered(r, n + 1)
    <3> SUFFICES ASSUME NEW i \in DOMAIN r, r[i].type = "event" PROVE r[i].seq <= n + 1
      BY DEF Numbered
    <3> QED  BY <2>5, <2>7, <2>9 DEF Numbered
  <2>11. cl.stale \/ Follows(r, cl.known)
    <3> SUFFICES ASSUME ~cl.stale, NEW i \in DOMAIN r, r[i].type = "event"
                 PROVE  \/ r[i].seq <= cl.known + 1
                        \/ \E j \in 1..(i - 1) : \/ r[j].type \in Reloading
                                                 \/ r[j].type = "event" /\ r[j].seq + 1 = r[i].seq
      BY DEF Follows
    <3>1. CASE i \in DOMAIN q /\ r[i] = q[i] /\ \A j \in 1..(i - 1) : r[j] = q[j]
      BY <3>1, <2>7 DEF Follows
    <3>2. CASE i = Len(q) + 1 /\ r[i] = f /\ \A j \in 1..(i - 1) : r[j] = q[j]
      <4>1. \A j \in DOMAIN q : j \in 1..(i - 1) /\ r[j] = q[j]
        BY <3>2, <2>2
      <4>2. CASE Announced(q)
        BY <4>1, <4>2 DEF Announced
      <4>3. CASE cl.known = n
        BY <4>3, <3>2, <2>6
      <4>4. CASE \A m \in (cl.known + 1)..n : Holds(q, m)
        <5>1. CASE cl.known # n
          <6>1. n \in (cl.known + 1)..n
            BY <5>1, <2>6
          <6>2. PICK j \in DOMAIN q : q[j].type = "event" /\ q[j].seq = n
            BY <4>4, <6>1 DEF Holds
          <6> QED  BY <6>2, <4>1, <3>2
        <5> QED  BY <5>1, <4>3
      <4> QED  BY <4>2, <4>4, <2>7 DEF Complete
    <3> QED  BY <3>1, <3>2, <2>9
  <2>12. Complete(r, cl, n + 1, l)
    <3>1. Announced(q) => Announced(r)
      BY <2>2 DEF Announced
    <3>2. \A m \in Nat : Holds(q, m) => Holds(r, m)
      BY <2>2 DEF Holds
    <3>3. Holds(r, n + 1)
      BY <2>2, <2>4 DEF Holds
    <3>4. \A m \in (cl.known + 1)..(n + 1) : m = n + 1 \/ (m \in (cl.known + 1)..n /\ m \in Nat)
      BY <2>6
    <3> QED  BY <2>7, <3>1, <3>2, <3>3, <3>4 DEF Complete
  <2>13. ToldFirst(r, cl.gen)
    <3> SUFFICES ASSUME NEW i \in DOMAIN r, r[i].type = "event", r[i].gen > cl.gen
                 PROVE  \E j \in 1..(i - 1) : r[j].type = "resync" /\ r[j].gen >= r[i].gen
      BY DEF ToldFirst
    <3>1. CASE i \in DOMAIN q /\ r[i] = q[i] /\ \A j \in 1..(i - 1) : r[j] = q[j]
      BY <3>1, <2>7 DEF ToldFirst
    <3>2. CASE i = Len(q) + 1 /\ r[i] = f /\ \A j \in 1..(i - 1) : r[j] = q[j]
      <4>1. ~(cl.gen >= s) /\ f.gen \in Nat
        BY <3>2, <2>6 DEF Frame
      <4>2. PICK j \in DOMAIN q : q[j].type = "resync" /\ q[j].gen >= s
        BY <4>1, <2>7
      <4>3. j \in 1..(i - 1) /\ r[j] = q[j] /\ q[j].gen \in Nat
        BY <3>2, <2>2, <2>5
      <4>4. q[j].gen >= f.gen
        BY <4>1, <4>2, <4>3
      <4> QED  BY <4>2, <4>3, <4>4, <3>2
    <3> QED  BY <3>1, <3>2, <2>9
  <2>14. Rising(r, cl.gen, generation)
    <3> SUFFICES ASSUME NEW i \in DOMAIN r, r[i].type = "resync"
                 PROVE  /\ cl.gen <= r[i].gen /\ r[i].gen <= generation
                        /\ \A j \in 1..(i - 1) : r[j].type = "resync" => r[j].gen <= r[i].gen
      BY DEF Rising
    <3>1. i \in DOMAIN q /\ r[i] = q[i] /\ \A j \in 1..(i - 1) : r[j] = q[j]
      BY <2>9
    <3> QED  BY <3>1, <2>7 DEF Rising
  <2>15. Heard(new, cl.gen, s)
    BY <2>2, <2>3, <2>7 DEF Heard
  <2>16. FeedOK(new, cl, n + 1, l, generation, s)
    BY <2>3, <2>8, <2>10, <2>11, <2>12, <2>13, <2>14, <2>15 DEF FeedOK, Orderly
  <2> QED  BY <1>3, <2>16 DEF new, r, q
<1> QED  BY <1>1, <1>2, <1>3, OfferIs

-----------------------------------------------------------------------------
(* Taking a frame.                                                         *)

(* A queue without its first frame, by places.                             *)
LEMMA Popped ==
  ASSUME NEW q \in Seq(Frame), q # <<>>
  PROVE  /\ Tail(q) \in Seq(Frame)
         /\ Len(q) \in Nat /\ Len(q) >= 1
         /\ DOMAIN q = 1..Len(q)
         /\ DOMAIN Tail(q) = 1..(Len(q) - 1)
         /\ \A i \in DOMAIN Tail(q) : i + 1 \in DOMAIN q /\ Tail(q)[i] = q[i + 1]
         /\ Head(q) = q[1] /\ 1 \in DOMAIN q /\ Head(q) \in Frame
  OBVIOUS

(* What an app makes of a frame.                                           *)
LEMMA AbsorbIs ==
  ASSUME NEW cl \in Client, NEW f \in Frame
  PROVE  /\ Absorb(cl, f) \in Client
         /\ Absorb(cl, f).epoch = cl.epoch /\ Absorb(cl, f).lost = cl.lost
         /\ Absorb(cl, f).gen = IF f.type = "resync" THEN f.gen ELSE cl.gen
         /\ Absorb(cl, f).stale = (cl.stale \/ f.type \in Reloading)
         /\ Absorb(cl, f).known =
              IF f.type = "event" THEN Larger(cl.known, f.seq) ELSE cl.known
         /\ Absorb(cl, f).cursor =
              IF f.type = "event" THEN Larger(cl.cursor, f.seq) ELSE cl.cursor
         /\ f.type \in {"resync", "synth"} =>
              Absorb(cl, f).known = cl.known /\ Absorb(cl, f).stale = cl.stale
<1>1. \A m, n \in Nat : Larger(m, n) \in Nat
  BY DEF Larger
<1>2. CASE f.type = "event"
  <2>1. Absorb(cl, f) = [cl EXCEPT !.cursor = Larger(@, f.seq), !.known = Larger(@, f.seq)]
    BY <1>2 DEF Absorb
  <2>2. Larger(cl.cursor, f.seq) \in Nat /\ Larger(cl.known, f.seq) \in Nat
    BY <1>1 DEF Client, Frame
  <2> QED  BY <1>2, <2>1, <2>2 DEF Client, Reloading
<1>3. CASE f.type = "synth"
  BY <1>3 DEF Absorb, Client, Reloading
<1>4. CASE f.type = "resync"
  <2>1. Absorb(cl, f) = [cl EXCEPT !.gen = f.gen] /\ f.gen \in Nat
    BY <1>4 DEF Absorb, Frame
  <2> QED  BY <1>4, <2>1 DEF Client, Reloading
<1>5. CASE f.type \in Reloading
  <2>1. Absorb(cl, f) = [cl EXCEPT !.stale = TRUE]
    BY <1>5 DEF Absorb, Reloading
  <2> QED  BY <1>5, <2>1 DEF Client, Reloading
<1> QED  BY <1>2, <1>3, <1>4, <1>5 DEF Frame, Reloading

(* A frame that extends an app that trusts its transcript is the next one. *)
LEMMA NextFrame ==
  ASSUME NEW sub, NEW cl \in Client, NEW n, NEW l, NEW g, NEW s,
         FeedOK(sub, cl, n, l, g, s), sub.queue # <<>>,
         Head(sub.queue).type = "event"
  PROVE  /\ Head(sub.queue).seq <= n
         /\ ~cl.stale => Head(sub.queue).seq <= cl.known + 1
<1>1. sub.queue \in Seq(Frame)
  BY DEF FeedOK, Orderly, Feed
<1>2. 1 \in DOMAIN sub.queue /\ Head(sub.queue) = sub.queue[1]
  BY <1>1, Popped
<1>3. ~ \E j \in 1..(1 - 1) : TRUE
  OBVIOUS
<1> QED  BY <1>2, <1>3 DEF FeedOK, Orderly, Numbered, Follows

(* An app that takes the head of its queue has what the feed's invariant   *)
(* promises it.                                                            *)
LEMMA TakeKeeps ==
  ASSUME NEW sub, NEW cl \in Client, NEW n \in Nat, NEW l, NEW g \in Nat, NEW s \in Nat,
         FeedOK(sub, cl, n, l, g, s), sub.queue # <<>>, Head(sub.queue).type # "desync"
  PROVE  FeedOK([sub EXCEPT !.queue = Tail(@)], Absorb(cl, Head(sub.queue)), n, l, g, s)
<1> DEFINE q == sub.queue
           f == Head(q)
           r == Tail(q)
           new == [sub EXCEPT !.queue = Tail(@)]
           cn == Absorb(cl, f)
<1>1. q \in Seq(Frame) /\ sub \in Feed
  BY DEF FeedOK, Orderly, Feed
<1>2. /\ r \in Seq(Frame) /\ Len(q) \in Nat /\ Len(q) >= 1
      /\ DOMAIN q = 1..Len(q) /\ DOMAIN r = 1..(Len(q) - 1)
      /\ \A i \in DOMAIN r : i + 1 \in DOMAIN q /\ r[i] = q[i + 1]
      /\ f = q[1] /\ 1 \in DOMAIN q /\ f \in Frame
  BY <1>1, Popped
<1>3. new \in Feed /\ new.queue = r /\ new.desync = sub.desync
  BY <1>1, <1>2 DEF Feed
<1>4. \A i \in DOMAIN q : q[i].seq \in Nat /\ q[i].gen \in Nat
  <2>1. \A i \in DOMAIN q : q[i] \in Frame
    BY <1>1, ElementIs
  <2> QED  BY <2>1 DEF Frame
<1>5. /\ cn \in Client /\ cn.lost = cl.lost
      /\ cn.gen = IF f.type = "resync" THEN f.gen ELSE cl.gen
      /\ cn.stale = (cl.stale \/ f.type \in Reloading)
      /\ cn.known = IF f.type = "event" THEN Larger(cl.known, f.seq) ELSE cl.known
  BY <1>2, AbsorbIs
<1>6. cl.known \in Nat /\ cl.gen \in Nat /\ f.seq \in Nat
  BY <1>2 DEF Client, Frame
<1>7. f.type = "event" => f.seq <= n /\ (~cl.stale => f.seq <= cl.known + 1)
  BY NextFrame
<1> HIDE DEF q, f, r, new, cn
<1>8. /\ CutShort(sub) /\ Numbered(q, n) /\ (cl.stale \/ Follows(q, cl.known))
      /\ Complete(q, cl, n, l) /\ ToldFirst(q, cl.gen) /\ Rising(q, cl.gen, g)
      /\ Heard(sub, cl.gen, s)
  BY DEF FeedOK, Orderly, q
<1>9. f.type # "desync"
  BY DEF f, q
(* Whatever is queued and is not the frame taken is still queued.          *)
<1>10. \A i \in DOMAIN q : i = 1 \/ (i - 1 \in DOMAIN r /\ r[i - 1] = q[i])
  BY <1>2
<1>11. \A i \in DOMAIN q : q[i] = f \/ \E j \in DOMAIN r : r[j] = q[i]
  BY <1>2, <1>10
<1>12. cl.known <= cn.known
  BY <1>5, <1>6 DEF Larger
<1>13. CutShort(new)
  <2> SUFFICES ASSUME sub.desync PROVE \E j \in DOMAIN r : r[j].type = "desync"
    BY <1>3 DEF CutShort
  <2>1. PICK i \in DOMAIN q : q[i].type = "desync"
    BY <1>8 DEF CutShort, q
  <2> QED  BY <2>1, <1>9, <1>11
<1>14. Numbered(r, n)
  BY <1>2, <1>8 DEF Numbered
<1>15. cn.stale \/ Follows(r, cn.known)
  <2> SUFFICES ASSUME ~cn.stale, NEW i \in DOMAIN r, r[i].type = "event"
               PROVE  \/ r[i].seq <= cn.known + 1
                      \/ \E j \in 1..(i - 1) : \/ r[j].type \in Reloading
                                               \/ r[j].type = "event" /\ r[j].seq + 1 = r[i].seq
    BY DEF Follows
  <2>1. ~cl.stale /\ f.type \notin Reloading
    BY <1>5
  <2>2. i + 1 \in DOMAIN q /\ r[i] = q[i + 1] /\ r[i].seq \in Nat /\ i \in 1..(Len(q) - 1)
    BY <1>2, <1>4
  <2>3. cn.known \in Nat
    BY <1>5 DEF Client
  <2>4. CASE r[i].seq <= cl.known + 1
    BY <2>2, <2>3, <2>4, <1>6, <1>12
  <2>5. ASSUME NEW j \in 1..i, q[j].type \in Reloading \/ (q[j].type = "event" /\ q[j].seq + 1 = r[i].seq)
        PROVE  \/ r[i].seq <= cn.known + 1
               \/ \E m \in 1..(i - 1) : \/ r[m].type \in Reloading
                                        \/ r[m].type = "event" /\ r[m].seq + 1 = r[i].seq
    <3>1. CASE j = 1
      <4>1. f.type = "event" /\ f.seq + 1 = r[i].seq
        BY <3>1, <2>1, <2>5, <1>2
      <4>2. f.seq <= cn.known
        BY <4>1, <1>5, <1>6 DEF Larger
      <4> QED  BY <4>1, <4>2, <2>3, <1>6
    <3>2. CASE j # 1
      <4>1. j - 1 \in 1..(i - 1) /\ r[j - 1] = q[j]
        BY <3>2, <2>2, <1>2
      <4> QED  BY <4>1, <2>5
    <3> QED  BY <3>1, <3>2
  <2>6. \A j \in 1..(i + 1 - 1) : j \in 1..i
    BY <2>2
  <2>7. Follows(q, cl.known)
    BY <2>1, <1>8
  <2> QED  BY <2>2, <2>4, <2>5, <2>6, <2>7 DEF Follows
<1>16. Complete(r, cn, n, l)
  <2>1. CASE cl.stale \/ f.type \in Reloading
    BY <2>1, <1>5 DEF Complete
  <2>2. CASE ~(cl.stale \/ f.type \in Reloading) /\ Announced(q)
    <3>1. PICK i \in DOMAIN q : q[i].type \in Reloading
      BY <2>2 DEF Announced
    <3>2. \E j \in DOMAIN r : r[j].type \in Reloading
      BY <3>1, <2>2, <1>11
    <3> QED  BY <3>2 DEF Complete, Announced
  <2>3. CASE (\A m \in (cl.known + 1)..n : Holds(q, m)) /\ cl.lost = l
    <3>1. ASSUME NEW m \in (cn.known + 1)..n PROVE Holds(r, m)
      <4>1. cn.known \in Nat
        BY <1>5 DEF Client
      <4>2. m \in (cl.known + 1)..n /\ ~(m <= cn.known)
        BY <4>1, <1>6, <1>12
      <4>3. PICK i \in DOMAIN q : q[i].type = "event" /\ q[i].seq = m
        BY <2>3, <4>2 DEF Holds
      <4>4. ~(f.type = "event" /\ f.seq = m)
        BY <4>1, <4>2, <1>5, <1>6 DEF Larger
      <4>5. \E j \in DOMAIN r : r[j].type = "event" /\ r[j].seq = m
        BY <4>3, <4>4, <1>11
      <4> QED  BY <4>5 DEF Holds
    <3> QED  BY <3>1, <2>3, <1>5 DEF Complete
  <2> QED  BY <2>1, <2>2, <2>3, <1>8 DEF Complete
<1>17. cn.gen \in Nat /\ cl.gen <= cn.gen
  BY <1>2, <1>5, <1>6, <1>8 DEF Rising, Client
<1>18. ToldFirst(r, cn.gen)
  <2> SUFFICES ASSUME NEW i \in DOMAIN r, r[i].type = "event", r[i].gen > cn.gen
               PROVE  \E j \in 1..(i - 1) : r[j].type = "resync" /\ r[j].gen >= r[i].gen
    BY DEF ToldFirst
  <2>1. i + 1 \in DOMAIN q /\ r[i] = q[i + 1] /\ r[i].gen \in Nat /\ i \in 1..(Len(q) - 1)
    BY <1>2, <1>4
  <2>2. q[i + 1].gen > cl.gen
    BY <2>1, <1>6, <1>17
  <2>3. PICK j \in 1..i : q[j].type = "resync" /\ q[j].gen >= q[i + 1].gen
    <3>1. i + 1 - 1 = i
      BY <2>1
    <3> QED  BY <2>1, <2>2, <3>1, <1>8 DEF ToldFirst
  <2>4. j # 1
    <3> SUFFICES ASSUME j = 1 PROVE FALSE
      OBVIOUS
    <3>1. q[1].type = "resync" /\ q[1].gen >= r[i].gen
      BY <2>1, <2>3
    <3>2. cn.gen = q[1].gen
      BY <3>1, <1>2, <1>5
    <3> QED  BY <3>1, <3>2, <2>1, <1>17
  <2>5. j - 1 \in 1..(i - 1) /\ r[j - 1] = q[j]
    <3>1. j - 1 \in 1..(i - 1) /\ j - 1 \in 1..(Len(q) - 1) /\ j - 1 + 1 = j
      BY <2>1, <2>4, <1>2
    <3>2. r[j - 1] = q[j - 1 + 1]
      BY <3>1, <1>2
    <3> QED  BY <3>1, <3>2
  <2> QED  BY <2>1, <2>3, <2>5
<1>19. Rising(r, cn.gen, g)
  <2> SUFFICES ASSUME NEW i \in DOMAIN r, r[i].type = "resync"
               PROVE  /\ cn.gen <= r[i].gen /\ r[i].gen <= g
                      /\ \A j \in 1..(i - 1) : r[j].type = "resync" => r[j].gen <= r[i].gen
    BY DEF Rising
  <2>1. i + 1 \in DOMAIN q /\ r[i] = q[i + 1] /\ i \in 1..(Len(q) - 1)
    BY <1>2
  <2>2. /\ cl.gen <= q[i + 1].gen /\ q[i + 1].gen <= g
        /\ \A j \in 1..(i + 1 - 1) : q[j].type = "resync" => q[j].gen <= q[i + 1].gen
    BY <2>1, <1>8 DEF Rising
  <2>3. \A j \in 1..(i - 1) : j + 1 \in 1..(i + 1 - 1) /\ j \in DOMAIN r /\ r[j] = q[j + 1]
    BY <2>1, <1>2
  <2>4. 1 \in 1..(i + 1 - 1)
    BY <2>1
  <2> QED  BY <2>1, <2>2, <2>3, <2>4, <1>2, <1>5
<1>20. Heard(new, cn.gen, s)
  <2>1. CASE sub.desync
    BY <2>1, <1>3 DEF Heard
  <2>2. CASE cl.gen >= s
    BY <2>2, <1>6, <1>17 DEF Heard
  <2>3. ASSUME NEW i \in DOMAIN q, q[i].type = "resync", q[i].gen >= s
        PROVE  Heard(new, cn.gen, s)
    BY <2>3, <1>3, <1>5, <1>11 DEF Heard
  <2> QED  BY <2>1, <2>2, <2>3, <1>8 DEF Heard, q
<1>21. FeedOK(new, cn, n, l, g, s)
  BY <1>3, <1>13, <1>14, <1>15, <1>16, <1>18, <1>19, <1>20 DEF FeedOK, Orderly
<1> QED  BY <1>21 DEF new, cn, f, q, r

-----------------------------------------------------------------------------
(* Opening a feed.                                                         *)

(* The frames of a replay: exactly the ones behind the cursor, in order.   *)
LEMMA NewerIs ==
  ASSUME Types, HistoryOK, NEW after \in Nat, ~NeedsReset(after)
  PROVE  /\ Newer(after) \in Seq(Frame)
         /\ after <= lastSeq
         /\ Len(Newer(after)) = lastSeq - after
         /\ \A i \in 1..(lastSeq - after) :
              /\ Newer(after)[i].type = "event" /\ Newer(after)[i].seq = after + i
              /\ Newer(after)[i].gen <= generation
<1> DEFINE n == Len(history) - (lastSeq - after)
<1>1. history \in Seq(Frame) /\ Len(history) \in Nat /\ DOMAIN history = 1..Len(history)
      /\ lastSeq \in Nat /\ Len(history) <= lastSeq
  BY DEF Types, HistoryOK
<1>2. after # NoCursor
  BY DEF NoCursor
<1>3. after <= lastSeq /\ n \in 0..Len(history)
  <2>1. CASE after = lastSeq
    BY <2>1, <1>1
  <2>2. CASE after # lastSeq
    <3>1. ~(after > lastSeq) /\ history # <<>> /\ ~(history[1].seq > after + 1)
      BY <2>2, <1>2 DEF NeedsReset
    <3>2. 1 \in DOMAIN history
      BY <3>1, <1>1
    <3>3. history[1].seq = lastSeq - Len(history) + 1
      BY <3>2 DEF HistoryOK
    <3> QED  BY <3>1, <3>3, <1>1
  <2> QED  BY <2>1, <2>2
<1>4. \A i \in DOMAIN history : i > n <=> history[i].seq > after
  <2> SUFFICES ASSUME NEW i \in DOMAIN history PROVE i > n <=> history[i].seq > after
    OBVIOUS
  <2>1. history[i].seq = lastSeq - Len(history) + i
    BY DEF HistoryOK
  <2> QED  BY <2>1, <1>1
<1>5. UpTo(after) = n
  <2>1. /\ UpTo(after) \in 0..Len(history)
        /\ \A i \in DOMAIN history : i > UpTo(after) <=> history[i].seq > after
    BY <1>3, <1>4 DEF UpTo
  <2>2. \A i \in 1..Len(history) : i > UpTo(after) <=> i > n
    BY <2>1, <1>1, <1>4
  <2> QED  BY <2>1, <2>2, <1>1, <1>3
<1>6. Newer(after) = SubSeq(history, n + 1, Len(history))
  BY <1>2, <1>5 DEF Newer
<1> HIDE DEF n
<1>7. /\ Newer(after) \in Seq(Frame) /\ Len(Newer(after)) = Len(history) - n
      /\ \A i \in 1..(Len(history) - n) :
           n + i \in DOMAIN history /\ Newer(after)[i] = history[n + i]
  <2>1. \A i \in 1..(Len(history) - n) : n + i \in 1..Len(history)
    BY <1>1, <1>3
  <2>2. /\ SubSeq(history, n + 1, Len(history)) \in Seq(Frame)
        /\ Len(SubSeq(history, n + 1, Len(history))) = Len(history) - n
        /\ \A i \in 1..(Len(history) - n) :
             SubSeq(history, n + 1, Len(history))[i] = history[n + i]
    <3>1. n + 1 \in Int /\ Len(history) \in Int
      BY <1>1, <1>3
    <3>2. \A i \in (n + 1)..Len(history) : history[i] \in Frame
      <4>1. \A i \in DOMAIN history : history[i] \in Frame
        BY <1>1, ElementIs
      <4>2. \A i \in (n + 1)..Len(history) : i \in 1..Len(history)
        BY <1>1, <1>3
      <4> QED  BY <4>1, <4>2, <1>1
    <3>3. /\ SubSeq(history, n + 1, Len(history)) \in Seq(Frame)
          /\ Len(SubSeq(history, n + 1, Len(history)))
               = IF n + 1 <= Len(history) THEN Len(history) - (n + 1) + 1 ELSE 0
          /\ \A i \in 1..(Len(history) - (n + 1) + 1) :
               SubSeq(history, n + 1, Len(history))[i] = history[n + 1 + i - 1]
      BY <3>1, <3>2, SubSeqProperties
    <3>4. Len(history) - (n + 1) + 1 = Len(history) - n
      BY <1>1, <1>3
    <3>5. Len(SubSeq(history, n + 1, Len(history))) = Len(history) - n
      <4>1. CASE n + 1 <= Len(history)
        BY <4>1, <3>3, <3>4
      <4>2. CASE ~(n + 1 <= Len(history))
        <5>1. Len(SubSeq(history, n + 1, Len(history))) = 0
          BY <4>2, <3>3
        <5>2. \A m \in Nat : \A k \in 0..m : ~(k + 1 <= m) => m - k = 0
          OBVIOUS
        <5>3. Len(history) - n = 0
          BY <4>2, <5>2, <1>1, <1>3
        <5> QED  BY <5>1, <5>3
      <4> QED  BY <4>1, <4>2
    <3>6. \A i \in 1..(Len(history) - n) : n + 1 + i - 1 = n + i
      BY <1>1, <1>3
    <3> QED  BY <3>3, <3>4, <3>5, <3>6
  <2> QED  BY <2>1, <2>2, <1>1, <1>6
<1>8. Len(history) - n = lastSeq - after
  BY <1>1, <1>3 DEF n
<1>9. ASSUME NEW i \in 1..(lastSeq - after)
      PROVE  /\ Newer(after)[i].type = "event" /\ Newer(after)[i].seq = after + i
             /\ Newer(after)[i].gen <= generation
  <2>1. n + i \in DOMAIN history /\ Newer(after)[i] = history[n + i]
    BY <1>7, <1>8
  <2>2. /\ history[n + i].type = "event" /\ history[n + i].gen <= generation
        /\ history[n + i].seq = lastSeq - Len(history) + (n + i)
    BY <2>1 DEF HistoryOK
  <2>3. lastSeq - Len(history) + (n + i) = after + i
    BY <1>1, <1>3 DEF n
  <2> QED  BY <2>1, <2>2, <2>3
<1> QED  BY <1>3, <1>7, <1>8, <1>9

(* An opened feed is the frames it was opened with, or was cut off.        *)
LEMMA OpenedKeeps ==
  ASSUME generation \in Nat, NEW frames \in Seq(Frame), NEW k \in 0..Len(frames),
         NEW cl \in Client, NEW n \in Nat, NEW l, NEW s,
         FeedOK([queue |-> frames, desync |-> FALSE], cl, n, l, generation, s)
  PROVE  FeedOK(Opened(frames, k), cl, n, l, generation, s)
<1> DEFINE p == SubSeq(frames, 1, k)
<1>1. CASE ~(k < Len(frames))
  BY <1>1 DEF Opened
<1>2. CASE k < Len(frames)
  <2>1. Len(frames) \in Nat /\ DOMAIN frames = 1..Len(frames)
    OBVIOUS
  <2>2. p \in Seq(Frame) /\ DOMAIN p = 1..k /\ \A i \in 1..k : i \in DOMAIN frames /\ p[i] = frames[i]
    <3>1. \A i \in 1..k : i \in DOMAIN frames /\ frames[i] \in Frame
      BY <2>1, ElementIs
    <3>2. /\ p \in Seq(Frame) /\ Len(p) = IF 1 <= k THEN k - 1 + 1 ELSE 0
          /\ \A i \in 1..(k - 1 + 1) : p[i] = frames[1 + i - 1]
      BY <2>1, <3>1, SubSeqProperties
    <3>3. Len(p) = k
      BY <3>2, <2>1
    <3>4. \A i \in 1..k : i \in 1..(k - 1 + 1) /\ 1 + i - 1 = i
      BY <2>1
    <3> QED  BY <3>1, <3>2, <3>3, <3>4
  <2> HIDE DEF p
  <2>3. Orderly(frames, cl, n, generation)
    BY DEF FeedOK
  <2>4. \A i \in DOMAIN p : /\ i \in DOMAIN frames /\ p[i] = frames[i]
                             /\ \A j \in 1..(i - 1) : p[j] = frames[j]
    BY <2>2, <2>1
  <2>5. Orderly(p, cl, n, generation)
    <3>1. Numbered(p, n)
      BY <2>3, <2>4 DEF Orderly, Numbered
    <3>2. cl.stale \/ Follows(p, cl.known)
      BY <2>3, <2>4 DEF Orderly, Follows
    <3>3. ToldFirst(p, cl.gen)
      BY <2>3, <2>4 DEF Orderly, ToldFirst
    <3>4. Rising(p, cl.gen, generation)
      BY <2>3, <2>4 DEF Orderly, Rising
    <3> QED  BY <3>1, <3>2, <3>3, <3>4 DEF Orderly
  <2> DEFINE sub == [queue |-> p, desync |-> FALSE]
  <2>6. sub \in Feed /\ sub.queue = p
    BY <2>2 DEF Feed
  <2> HIDE DEF sub
  <2>7. DesyncFrame \in Frame /\ DesyncFrame.type = "desync"
    BY DEF DesyncFrame, ControlFrame, ControlSize, Frame
  <2>8. FeedOK([queue |-> Append(p, DesyncFrame), desync |-> TRUE], cl, n, l, generation, s)
    BY <2>5, <2>6, <2>7, CutKeeps
  <2> QED  BY <1>2, <2>8 DEF Opened, CutOff, p
<1> QED  BY <1>1, <1>2

(* A replay from a cursor the app has not gone behind.                     *)
LEMMA ReplayKeeps ==
  ASSUME Types, HistoryOK, StreamOK, NEW after \in Nat, ~NeedsReset(after),
         NEW cl \in Client, cl.gen = generation, after <= cl.known, cl.lost = lost
  PROVE  FeedOK([queue |-> Newer(after), desync |-> FALSE], cl, lastSeq, lost, generation, seen)
<1> DEFINE q == Newer(after)
           new == [queue |-> q, desync |-> FALSE]
<1>1. /\ q \in Seq(Frame) /\ Len(q) = lastSeq - after /\ after <= lastSeq
      /\ \A i \in 1..(lastSeq - after) :
           q[i].type = "event" /\ q[i].seq = after + i /\ q[i].gen <= generation
  BY NewerIs
<1> HIDE DEF q
<1>2. DOMAIN q = 1..(lastSeq - after) /\ lastSeq \in Nat /\ seen \in Nat /\ generation \in Nat
  BY <1>1 DEF Types
<1>3. new \in Feed /\ new.queue = q /\ new.desync = FALSE
  BY <1>1 DEF Feed
<1> HIDE DEF new
<1>4. cl.known \in Nat
  BY DEF Client
<1>5. CutShort(new) /\ Heard(new, cl.gen, seen)
  BY <1>2, <1>3 DEF CutShort, Heard, StreamOK
<1>6. Numbered(q, lastSeq)
  BY <1>1, <1>2 DEF Numbered
<1>7. Follows(q, cl.known)
  <2> SUFFICES ASSUME NEW i \in DOMAIN q
               PROVE  \/ q[i].seq <= cl.known + 1
                      \/ \E j \in 1..(i - 1) : q[j].type = "event" /\ q[j].seq + 1 = q[i].seq
    BY DEF Follows
  <2>1. CASE i = 1
    <3>1. q[1].seq = after + 1
      BY <2>1, <1>1, <1>2
    <3> QED  BY <2>1, <3>1, <1>4
  <2>2. CASE i # 1
    <3>1. i - 1 \in 1..(lastSeq - after) /\ i - 1 \in 1..(i - 1) /\ i \in 1..(lastSeq - after)
      BY <2>2, <1>2
    <3>2. q[i - 1].type = "event" /\ q[i - 1].seq = after + (i - 1) /\ q[i].seq = after + i
      BY <3>1, <1>1
    <3>3. after + (i - 1) + 1 = after + i
      BY <3>1, <1>2
    <3> QED  BY <3>1, <3>2, <3>3
  <2> QED  BY <2>1, <2>2
<1>8. ToldFirst(q, cl.gen)
  <2> SUFFICES ASSUME NEW i \in DOMAIN q, q[i].gen > generation PROVE FALSE
    BY DEF ToldFirst
  <2>1. q[i] \in Frame /\ q[i].gen <= generation
    BY <1>1, <1>2, ElementIs
  <2> QED  BY <2>1, <1>2 DEF Frame
<1>9. Rising(q, cl.gen, generation)
  BY <1>1, <1>2 DEF Rising
<1>10. Complete(q, cl, lastSeq, lost)
  <2>1. ASSUME NEW m \in (cl.known + 1)..lastSeq PROVE Holds(q, m)
    <3>1. m - after \in 1..(lastSeq - after) /\ after + (m - after) = m
      BY <1>2, <1>4
    <3>2. m - after \in DOMAIN q /\ q[m - after].type = "event" /\ q[m - after].seq = m
      BY <3>1, <1>1, <1>2
    <3> QED  BY <3>2 DEF Holds
  <2> QED  BY <2>1 DEF Complete
<1>11. FeedOK(new, cl, lastSeq, lost, generation, seen)
  BY <1>3, <1>5, <1>6, <1>7, <1>8, <1>9, <1>10 DEF FeedOK, Orderly
<1> QED  BY <1>11 DEF new, q

(* An app that starts over: nothing is replayed, or it is told at once.    *)
LEMMA StartKeeps ==
  ASSUME Types, StreamOK, NEW frames \in {<<>>, <<ResetFrame>>},
         NEW cl \in Client, cl.gen = generation, cl.stale
  PROVE  /\ frames \in Seq(Frame)
         /\ FeedOK([queue |-> frames, desync |-> FALSE], cl, lastSeq, lost, generation, seen)
<1> DEFINE new == [queue |-> frames, desync |-> FALSE]
<1>1. ResetFrame \in Frame /\ ResetFrame.type = "reset"
  BY DEF ResetFrame, ControlFrame, ControlSize, Frame, Types
<1>2. frames \in Seq(Frame) /\ \A i \in DOMAIN frames : frames[i].type = "reset"
  <2>1. CASE frames = <<>>
    BY <2>1
  <2>2. CASE frames = <<ResetFrame>>
    BY <2>2, <1>1
  <2> QED  BY <2>1, <2>2
<1>3. new \in Feed /\ new.queue = frames /\ new.desync = FALSE
  BY <1>2 DEF Feed
<1> HIDE DEF new
<1>4. Orderly(frames, cl, lastSeq, generation)
  BY <1>2 DEF Orderly, Numbered, ToldFirst, Rising
<1>5. CutShort(new) /\ Complete(frames, cl, lastSeq, lost) /\ Heard(new, cl.gen, seen)
  BY <1>3 DEF CutShort, Complete, Heard, StreamOK, Types
<1>6. FeedOK(new, cl, lastSeq, lost, generation, seen)
  BY <1>3, <1>4, <1>5 DEF FeedOK
<1> QED  BY <1>2, <1>6 DEF new

-----------------------------------------------------------------------------
(* The steps of the gateway.                                               *)

(* A frame is offered to every subscriber.                                 *)
LEMMA FanOutIs ==
  ASSUME generation \in Nat, NEW f \in Frame, NEW feeds \in [Clients -> Feed]
  PROVE  /\ FanOut(f, feeds) \in [Clients -> Feed]
         /\ \A c \in Clients : c \in subscribed => FanOut(f, feeds)[c] = Offer(f, feeds[c])
<1>1. ASSUME NEW sub \in Feed PROVE Offer(f, sub) \in Feed
  <2>1. \A d \in Frame, b \in BOOLEAN : [queue |-> Append(sub.queue, d), desync |-> b] \in Feed
    <3>1. sub.queue \in Seq(Frame)
      BY DEF Feed
    <3>2. \A d \in Frame : Append(sub.queue, d) \in Seq(Frame)
      BY <3>1, Appended
    <3> QED  BY <3>2 DEF Feed
  <2> QED  BY <2>1, OfferIs
<1> QED  BY <1>1 DEF FanOut

(* The history with one more event stays without a hole.                   *)
LEMMA RememberIs ==
  ASSUME Types, HistoryOK, NEW f \in Frame, NEW h,
         f.type = "event", f.seq = lastSeq + 1, f.gen <= generation, h = Remember(f)
  PROVE  /\ h \in Seq(Frame) /\ Len(h) <= lastSeq + 1
         /\ \A i \in DOMAIN h :
              /\ h[i].type = "event" /\ h[i].seq = lastSeq + 1 - Len(h) + i
              /\ h[i].gen <= generation
<1> DEFINE a == Append(history, f)
           m == Len(history)
<1>1. /\ history \in Seq(Frame) /\ m \in Nat /\ DOMAIN history = 1..m
      /\ lastSeq \in Nat /\ m <= lastSeq
  BY DEF Types, HistoryOK
<1>2. /\ a \in Seq(Frame) /\ Len(a) = m + 1 /\ DOMAIN a = 1..(m + 1)
      /\ \A i \in 1..m : a[i] = history[i]
      /\ a[m + 1] = f
  BY <1>1, Appended
<1> HIDE DEF a
<1>3. \A i \in 1..m : /\ history[i].type = "event" /\ history[i].seq = lastSeq - m + i
                      /\ history[i].gen <= generation
  BY <1>1 DEF HistoryOK
<1> HIDE DEF m
<1>4. \A i \in 1..(m + 1) : /\ a[i].type = "event" /\ a[i].seq = lastSeq - m + i
                            /\ a[i].gen <= generation
  <2> SUFFICES ASSUME NEW i \in 1..(m + 1)
               PROVE  /\ a[i].type = "event" /\ a[i].seq = lastSeq - m + i
                      /\ a[i].gen <= generation
    OBVIOUS
  <2>1. CASE i \in 1..m
    BY <2>1, <1>2, <1>3
  <2>2. CASE i = m + 1
    <3>1. lastSeq - m + (m + 1) = lastSeq + 1
      BY <1>1
    <3> QED  BY <2>2, <3>1, <1>2
  <2> QED  BY <2>1, <2>2, <1>1
<1>5. CASE h = a
  <2>1. lastSeq + 1 - (m + 1) = lastSeq - m /\ m + 1 <= lastSeq + 1
    BY <1>1
  <2> QED  BY <2>1, <1>2, <1>4, <1>5
<1>6. CASE h = Tail(a)
  <2>1. a # <<>>
    BY <1>2, <1>1
  <2>2. /\ h \in Seq(Frame) /\ DOMAIN h = 1..(Len(a) - 1)
        /\ \A i \in DOMAIN h : i + 1 \in DOMAIN a /\ h[i] = a[i + 1]
    BY <2>1, <1>2, <1>6, Popped
  <2>3. Len(a) - 1 = m
    BY <1>1, <1>2
  <2>4. Len(h) = m
    BY <2>2, <2>3, <1>1
  <2>5. ASSUME NEW i \in DOMAIN h
        PROVE  /\ h[i].type = "event" /\ h[i].seq = lastSeq + 1 - m + i
               /\ h[i].gen <= generation
    <3>1. i + 1 \in 1..(m + 1) /\ h[i] = a[i + 1] /\ i \in 1..m
      BY <2>2, <2>3, <1>2
    <3>2. lastSeq - m + (i + 1) = lastSeq + 1 - m + i
      BY <3>1, <1>1
    <3> QED  BY <3>1, <3>2, <1>4
  <2> QED  BY <2>2, <2>4, <2>5, <1>1
<1> QED  BY <1>5, <1>6 DEF Remember, a

(* A new generation is announced in every queue.                           *)
LEMMA NotedKeeps ==
  ASSUME IInv
  PROVE  /\ Noted \in [Clients -> Feed]
         /\ \A c \in subscribed :
              FeedOK(Noted[c], client[c], lastSeq, lost, generation, generation)
<1>1. generation \in Nat /\ feed \in [Clients -> Feed] /\ seen \in Nat /\ lastSeq \in Nat
      /\ subscribed \subseteq Clients /\ client \in [Clients -> Client]
  BY DEF IInv, Types
<1>2. \A c \in subscribed : /\ client[c].gen <= generation
                            /\ FeedOK(feed[c], client[c], lastSeq, lost, generation, seen)
  BY DEF IInv, SubscriberOK
<1>3. CASE seen = generation
  BY <1>1, <1>2, <1>3 DEF Noted
<1>4. CASE seen # generation
  <2>1. ResyncFrame \in Frame /\ ResyncFrame.type = "resync" /\ ResyncFrame.gen = generation
    BY <1>1 DEF ResyncFrame, ControlFrame, ControlSize, Frame
  <2>2. Noted = FanOut(ResyncFrame, feed)
    BY <1>4 DEF Noted
  <2>3. ASSUME NEW c \in subscribed
        PROVE  FeedOK(Noted[c], client[c], lastSeq, lost, generation, generation)
    <3>1. Noted[c] = Offer(ResyncFrame, feed[c]) /\ feed[c] \in Feed /\ client[c] \in Client
      BY <1>1, <2>1, <2>2, FanOutIs
    <3>2. generation <= generation
      BY <1>1
    <3>3. FeedOK(Offer(ResyncFrame, feed[c]), client[c], lastSeq, lost, generation, generation)
      BY <1>1, <1>2, <2>1, <3>1, <3>2, ControlKeeps
    <3> QED  BY <3>1, <3>3
  <2> QED  BY <1>1, <2>1, <2>2, <2>3, FanOutIs
<1> QED  BY <1>3, <1>4

(* It survives a new connection to Hermes ...                              *)
LEMMA ReconnectKeeps ==
  ASSUME IInv, Reconnect
  PROVE  IInv'
<1>1. generation' = generation + 1 /\ generation \in Nat /\ seen \in Nat
      /\ epoch' = epoch /\ lastSeq' = lastSeq /\ history' = history /\ gap' = gap
      /\ seen' = seen /\ subscribed' = subscribed /\ feed' = feed /\ client' = client
      /\ lost' = lost
  BY DEF IInv, Types, Reconnect, streamVars
<1>2. Types'
  BY <1>1 DEF IInv, Types
<1>3. HistoryOK'
  <2>1. \A i \in DOMAIN history : history[i].gen \in Nat
    <3>1. history \in Seq(Frame)
      BY DEF IInv, Types
    <3>2. \A i \in DOMAIN history : history[i] \in Frame
      BY <3>1, ElementIs
    <3> QED  BY <3>2 DEF Frame
  <2> QED  BY <1>1, <2>1 DEF IInv, HistoryOK
<1>4. StreamOK'
  BY <1>1 DEF IInv, StreamOK
<1>5. \A c \in Clients : ClientOK(client[c])'
  BY <1>1 DEF IInv, ClientOK
<1>6. ASSUME NEW c \in subscribed PROVE SubscriberOK(c)'
  <2>1. SubscriberOK(c) /\ client[c] \in Client
    BY DEF IInv, Types
  <2>2. client[c].gen <= generation + 1
    BY <1>1, <2>1 DEF SubscriberOK, Client
  <2>3. feed[c].queue \in Seq(Frame)
    BY <2>1 DEF SubscriberOK, FeedOK, Feed
  <2>4. \A i \in DOMAIN feed[c].queue : feed[c].queue[i].gen \in Nat
    <3>1. \A i \in DOMAIN feed[c].queue : feed[c].queue[i] \in Frame
      BY <2>3, ElementIs
    <3> QED  BY <3>1 DEF Frame
  <2>5. Rising(feed[c].queue, client[c].gen, generation)
    BY <2>1 DEF SubscriberOK, FeedOK, Orderly
  <2>6. Rising(feed[c].queue, client[c].gen, generation + 1)
    BY <1>1, <2>4, <2>5 DEF Rising
  <2>7. FeedOK(feed[c], client[c], lastSeq, lost, generation + 1, seen)
    BY <2>1, <2>6 DEF SubscriberOK, FeedOK, Orderly
  <2> QED  BY <1>1, <2>1, <2>2, <2>7 DEF SubscriberOK
<1> QED  BY <1>1, <1>2, <1>3, <1>4, <1>5, <1>6 DEF IInv

(* ... its announcement ...                                                *)
LEMMA WatchKeeps ==
  ASSUME IInv, WatchGeneration
  PROVE  IInv'
<1>1. generation' = generation /\ epoch' = epoch /\ lastSeq' = lastSeq /\ history' = history
      /\ gap' = gap /\ seen' = generation /\ subscribed' = subscribed /\ feed' = Noted
      /\ client' = client /\ lost' = lost
  BY DEF WatchGeneration, streamVars
<1>2. Types' /\ HistoryOK' /\ StreamOK'
  BY <1>1, NotedKeeps DEF IInv, Types, HistoryOK, StreamOK
<1>3. \A c \in Clients : ClientOK(client[c])'
  BY <1>1 DEF IInv, ClientOK
<1>4. \A c \in subscribed : SubscriberOK(c)'
  BY <1>1, NotedKeeps DEF IInv, SubscriberOK
<1> QED  BY <1>1, <1>2, <1>3, <1>4 DEF IInv

(* ... an event that is lost before it has a number ...                    *)
LEMMA LoseKeeps ==
  ASSUME IInv, LoseEvent
  PROVE  IInv'
<1>1. generation' = generation /\ epoch' = epoch /\ lastSeq' = lastSeq /\ history' = history
      /\ gap' = TRUE /\ seen' = generation /\ subscribed' = subscribed
      /\ feed' = FanOut(ResetFrame, Noted) /\ client' = client /\ lost' = lost + 1
  BY DEF LoseEvent
<1>2. generation \in Nat /\ lost \in Nat /\ lastSeq \in Nat /\ subscribed \subseteq Clients
      /\ client \in [Clients -> Client]
  BY DEF IInv, Types
<1>3. ResetFrame \in Frame /\ ResetFrame.type = "reset" /\ ResetFrame.gen = generation
  BY <1>2 DEF ResetFrame, ControlFrame, ControlSize, Frame
<1>4. FanOut(ResetFrame, Noted) \in [Clients -> Feed]
  BY <1>2, <1>3, NotedKeeps, FanOutIs
<1>5. Types' /\ HistoryOK' /\ StreamOK'
  BY <1>1, <1>2, <1>4 DEF IInv, Types, HistoryOK, StreamOK
<1>6. ASSUME NEW c \in Clients PROVE ClientOK(client[c])'
  BY <1>1, <1>2 DEF IInv, ClientOK, Client
<1>7. ASSUME NEW c \in subscribed PROVE SubscriberOK(c)'
  <2>1. /\ Noted[c] \in Feed /\ client[c] \in Client /\ client[c].gen <= generation
        /\ FeedOK(Noted[c], client[c], lastSeq, lost, generation, generation)
        /\ client[c].epoch = epoch
    BY <1>2, NotedKeeps DEF IInv, SubscriberOK
  <2>2. generation <= generation
    BY <1>2
  <2>3. FeedOK(Offer(ResetFrame, Noted[c]), client[c], lastSeq, lost + 1, generation, generation)
    BY <1>2, <1>3, <2>1, <2>2, ControlKeeps
  <2>4. feed'[c] = Offer(ResetFrame, Noted[c])
    BY <1>1, <1>2, <1>3, NotedKeeps, FanOutIs
  <2> QED  BY <1>1, <2>1, <2>3, <2>4 DEF SubscriberOK
<1> QED  BY <1>1, <1>5, <1>6, <1>7 DEF IInv

(* A numbered event reaches every feed as the next frame, whatever was     *)
(* offered to the feeds in the same step before it.                        *)
LEMMA NumberedKeeps ==
  ASSUME IInv, NEW f \in Frame, NEW feeds \in [Clients -> Feed], NEW s \in Nat,
         f.type = "event", f.seq = lastSeq + 1, f.gen <= s,
         \A c \in subscribed : FeedOK(feeds[c], client[c], lastSeq, lost, generation, s)
  PROVE  \A c \in subscribed :
           FeedOK(FanOut(f, feeds)[c], client[c], lastSeq + 1, lost, generation, s)
<1> SUFFICES ASSUME NEW c \in subscribed
             PROVE  FeedOK(FanOut(f, feeds)[c], client[c], lastSeq + 1, lost, generation, s)
  OBVIOUS
<1>1. generation \in Nat /\ c \in Clients /\ client[c] \in Client /\ lastSeq \in Nat
      /\ feeds[c] \in Feed
  BY DEF IInv, Types
<1>2. FanOut(f, feeds)[c] = Offer(f, feeds[c])
  BY <1>1, FanOutIs
<1>3. client[c].known <= lastSeq
  BY <1>1 DEF IInv, SubscriberOK, ClientOK
<1>4. FeedOK(Offer(f, feeds[c]), client[c], lastSeq + 1, lost, generation, s)
  BY <1>1, <1>3, EventKeeps
<1> QED  BY <1>2, <1>4

(* What a numbered event does besides.                                     *)
LEMMA NumberingKeeps ==
  ASSUME IInv, NEW f \in Frame, f.type = "event", f.seq = lastSeq + 1, f.gen <= generation,
         lastSeq' = lastSeq + 1, history' = Remember(f), epoch' = epoch, gap' = gap,
         generation' = generation, subscribed' = subscribed, client' = client, lost' = lost,
         seen' \in {seen, generation}, feed' \in [Clients -> Feed],
         \A c \in subscribed : FeedOK(feed'[c], client[c], lastSeq + 1, lost, generation, seen')
  PROVE  IInv'
<1>1. lastSeq \in Nat /\ generation \in Nat /\ seen \in Nat /\ client \in [Clients -> Client]
  BY DEF IInv, Types
<1>2. /\ history' \in Seq(Frame) /\ Len(history') <= lastSeq + 1
      /\ \A i \in DOMAIN history' :
           /\ history'[i].type = "event" /\ history'[i].seq = lastSeq + 1 - Len(history') + i
           /\ history'[i].gen <= generation
  BY RememberIs DEF IInv
<1>3. Types'
  BY <1>1, <1>2 DEF IInv, Types
<1>4. HistoryOK'
  <2>1. lastSeq' = lastSeq + 1 /\ generation' = generation
    OBVIOUS
  <2>2. Len(history') <= lastSeq'
    BY <1>2, <2>1
  <2>3. ASSUME NEW i \in DOMAIN history'
        PROVE  /\ history'[i].type = "event" /\ history'[i].seq = lastSeq' - Len(history') + i
               /\ history'[i].gen <= generation'
    <3>1. /\ history'[i].type = "event" /\ history'[i].gen <= generation
          /\ history'[i].seq = lastSeq + 1 - Len(history') + i
      BY <1>2
    <3>2. Len(history') \in Nat /\ i \in Nat
      BY <1>2
    <3>3. \A m, n, k, j \in Nat : k = m + 1 => k - n + j = m + 1 - n + j
      OBVIOUS
    <3>4. lastSeq' \in Nat
      BY <1>1, <2>1
    <3>5. lastSeq' - Len(history') + i = lastSeq + 1 - Len(history') + i
      BY <1>1, <2>1, <3>2, <3>3, <3>4
    <3> QED  BY <3>1, <3>5, <2>1
  <2> QED  BY <2>2, <2>3 DEF HistoryOK
<1>5. StreamOK'
  BY <1>1 DEF IInv, StreamOK
<1>6. ASSUME NEW c \in Clients PROVE ClientOK(client[c])'
  BY <1>1 DEF IInv, ClientOK, Client
<1>7. ASSUME NEW c \in subscribed PROVE SubscriberOK(c)'
  BY DEF IInv, SubscriberOK
<1> QED  BY <1>3, <1>4, <1>5, <1>6, <1>7 DEF IInv

(* ... one that is published ...                                           *)
LEMMA PublishKeeps ==
  ASSUME IInv, NEW size \in Sizes, NEW background \in BOOLEAN, PublishEvent(size, background)
  PROVE  IInv'
<1> DEFINE f == EventFrame(lastSeq + 1, generation, size)
           delivered == FanOut(f, Noted)
<1>1. lastSeq' = f.seq /\ history' = Remember(f) /\ epoch' = epoch /\ gap' = gap
      /\ generation' = generation /\ subscribed' = subscribed /\ client' = client
      /\ lost' = lost /\ seen' = generation
      /\ feed' = IF background THEN FanOut(SynthFrame, delivered) ELSE delivered
  BY DEF PublishEvent
<1>2. generation \in Nat /\ lastSeq \in Nat /\ lastSeq + 1 \in Nat /\ generation <= generation
      /\ subscribed \subseteq Clients /\ client \in [Clients -> Client]
  BY DEF IInv, Types
<1>3. f \in Frame /\ f.type = "event" /\ f.seq = lastSeq + 1 /\ f.gen = generation
  BY <1>2, SizeAssumption DEF EventFrame, Frame
<1> HIDE DEF f
<1>4. /\ delivered \in [Clients -> Feed]
      /\ \A c \in subscribed :
           FeedOK(delivered[c], client[c], lastSeq + 1, lost, generation, generation)
  BY <1>2, <1>3, NotedKeeps, FanOutIs, NumberedKeeps
<1> HIDE DEF delivered
<1>5. SynthFrame \in Frame /\ SynthFrame.type = "synth" /\ SynthFrame.gen = generation
  BY <1>2 DEF SynthFrame, ControlFrame, ControlSize, Frame
<1>6. /\ FanOut(SynthFrame, delivered) \in [Clients -> Feed]
      /\ \A c \in subscribed :
           FeedOK(FanOut(SynthFrame, delivered)[c], client[c], lastSeq + 1, lost, generation, generation)
  <2>1. FanOut(SynthFrame, delivered) \in [Clients -> Feed]
    BY <1>2, <1>4, <1>5, FanOutIs
  <2> SUFFICES ASSUME NEW c \in subscribed
               PROVE  FeedOK(FanOut(SynthFrame, delivered)[c], client[c], lastSeq + 1, lost,
                             generation, generation)
    BY <2>1
  <2>2. delivered[c] \in Feed /\ client[c] \in Client /\ client[c].gen <= generation
    BY <1>2, <1>4 DEF IInv, SubscriberOK
  <2>3. FeedOK(Offer(SynthFrame, delivered[c]), client[c], lastSeq + 1, lost, generation, generation)
    BY <1>2, <1>4, <1>5, <2>2, ControlKeeps
  <2>4. FanOut(SynthFrame, delivered)[c] = Offer(SynthFrame, delivered[c])
    BY <1>2, <1>4, <1>5, FanOutIs
  <2> QED  BY <2>3, <2>4
<1>7. /\ feed' \in [Clients -> Feed]
      /\ \A c \in subscribed :
           FeedOK(feed'[c], client[c], lastSeq + 1, lost, generation, generation)
  BY <1>1, <1>4, <1>6
<1> QED  BY <1>1, <1>2, <1>3, <1>7, NumberingKeeps

(* ... one the gateway injects ...                                         *)
LEMMA InjectKeeps ==
  ASSUME IInv, NEW size \in Sizes, InjectEvent(size)
  PROVE  IInv'
<1> DEFINE f == EventFrame(lastSeq + 1, 0, size)
<1>1. lastSeq' = f.seq /\ history' = Remember(f) /\ epoch' = epoch /\ gap' = gap
      /\ generation' = generation /\ subscribed' = subscribed /\ client' = client
      /\ lost' = lost /\ seen' = seen /\ feed' = FanOut(f, feed)
  BY DEF InjectEvent
<1>2. generation \in Nat /\ lastSeq \in Nat /\ lastSeq + 1 \in Nat /\ seen \in Nat
      /\ feed \in [Clients -> Feed] /\ 0 <= generation /\ 0 <= seen
  BY DEF IInv, Types
<1>3. f \in Frame /\ f.type = "event" /\ f.seq = lastSeq + 1 /\ f.gen = 0
  BY <1>2, SizeAssumption DEF EventFrame, Frame
<1> HIDE DEF f
<1>4. \A c \in subscribed : FeedOK(feed[c], client[c], lastSeq, lost, generation, seen)
  BY DEF IInv, SubscriberOK
<1>5. /\ FanOut(f, feed) \in [Clients -> Feed]
      /\ \A c \in subscribed :
           FeedOK(FanOut(f, feed)[c], client[c], lastSeq + 1, lost, generation, seen)
  BY <1>2, <1>3, <1>4, FanOutIs, NumberedKeeps
<1> QED  BY <1>1, <1>2, <1>3, <1>5, NumberingKeeps

-----------------------------------------------------------------------------
(* The steps of an app.                                                    *)

(* A step of one app's socket.                                             *)
LEMMA OneAppKeeps ==
  ASSUME IInv, NEW c \in Clients, NEW cl \in Client, NEW sub \in Feed,
         epoch' = epoch, lastSeq' = lastSeq, history' = history, gap' = gap, lost' = lost,
         generation' = generation, seen' = seen,
         client' = [client EXCEPT ![c] = cl], feed' = [feed EXCEPT ![c] = sub],
         subscribed' \in {subscribed \cup {c}, subscribed \ {c}},
         ClientOK(cl),
         c \in subscribed' =>
           /\ cl.epoch = epoch /\ cl.gen <= generation
           /\ FeedOK(sub, cl, lastSeq, lost, generation, seen)
  PROVE  IInv'
<1>1. client \in [Clients -> Client] /\ feed \in [Clients -> Feed] /\ subscribed \subseteq Clients
  BY DEF IInv, Types
<1>2. Types'
  BY <1>1 DEF IInv, Types
<1>3. HistoryOK' /\ StreamOK'
  BY DEF IInv, HistoryOK, StreamOK
<1>4. client'[c] = cl /\ \A d \in Clients : d # c => client'[d] = client[d] /\ feed'[d] = feed[d]
  BY <1>1
<1>5. ASSUME NEW d \in Clients PROVE ClientOK(client[d])'
  <2>1. ClientOK(client[d]) /\ client'[d] \in {client[d], cl}
    BY <1>4 DEF IInv
  <2> QED  BY <2>1 DEF ClientOK
<1>6. ASSUME NEW d \in subscribed' PROVE SubscriberOK(d)'
  <2>1. CASE d = c
    <3>1. feed'[d] = sub /\ client'[d] = cl
      BY <2>1, <1>1, <1>4
    <3> QED  BY <2>1, <3>1 DEF SubscriberOK
  <2>2. CASE d # c
    <3>1. d \in subscribed /\ feed'[d] = feed[d] /\ client'[d] = client[d]
      BY <2>2, <1>1, <1>4
    <3> QED  BY <3>1 DEF SubscriberOK, IInv
  <2> QED  BY <2>1, <2>2
<1> QED  BY <1>2, <1>3, <1>5, <1>6 DEF IInv

(* An app that opens a socket goes on where it was, or starts over.        *)
LEMMA ConnectIs ==
  ASSUME IInv, NEW c \in Clients, NEW after \in Nat \cup {NoCursor}, NEW ep,
         ep = 0 \/ (ep = client[c].epoch /\ after = client[c].cursor),
         Connect(c, after, ep)
  PROVE  \E cl \in Client, sub \in Feed :
           /\ client' = [client EXCEPT ![c] = cl]
           /\ feed' = [feed EXCEPT ![c] = sub]
           /\ subscribed' = subscribed \cup {c}
           /\ cl.epoch = epoch /\ cl.gen = generation /\ ClientOK(cl)
           /\ FeedOK(sub, cl, lastSeq, lost, generation, seen)
           /\ \/ /\ client[c].epoch = epoch
                 /\ cl.known = client[c].known /\ cl.stale = client[c].stale
              \/ cl.known = 0 /\ cl.stale
<1> DEFINE cursor == ResumeCursor(after, ep)
           frames == IF NeedsReset(cursor) \/ gap THEN <<ResetFrame>> ELSE Newer(cursor)
           cl == Greeted(client[c], ReplayAvailable(cursor))
<1>1. client[c] \in Client /\ ClientOK(client[c]) /\ epoch \in Nat \ {0} /\ generation \in Nat
      /\ lastSeq \in Nat /\ lost \in Nat /\ client \in [Clients -> Client]
      /\ feed \in [Clients -> Feed]
  BY DEF IInv, Types
<1>2. PICK k \in 0..Len(frames) : feed' = [feed EXCEPT ![c] = Opened(frames, k)]
  BY DEF Connect
<1>3. client' = [client EXCEPT ![c] = cl] /\ subscribed' = subscribed \cup {c}
  BY <1>1 DEF Connect
<1>4. CASE ReplayAvailable(cursor)
  <2>1. cursor # NoCursor /\ ~gap /\ ~NeedsReset(cursor)
    BY <1>4 DEF ReplayAvailable
  <2>2. cursor = after /\ ep = epoch
    BY <2>1 DEF ResumeCursor
  <2>3. client[c].epoch = epoch /\ after = client[c].cursor /\ after \in Nat
    BY <2>2, <1>1 DEF Client
  <2>4. frames = Newer(after) /\ ~NeedsReset(after)
    BY <2>1, <2>2
  <2>5. cl = [client[c] EXCEPT !.gen = generation]
    BY <1>4 DEF Greeted
  <2>6. /\ cl \in Client /\ cl.epoch = epoch /\ cl.gen = generation
        /\ cl.known = client[c].known /\ cl.stale = client[c].stale
        /\ cl.cursor = client[c].cursor /\ cl.lost = client[c].lost
    BY <1>1, <2>3, <2>5 DEF Client
  <2> HIDE DEF cursor, frames, cl
  <2>7. ClientOK(cl)
    BY <1>1, <2>3, <2>6 DEF ClientOK
  <2>8. after <= cl.known /\ cl.lost = lost
    <3>1. lost = 0 /\ cl.lost \in Nat /\ cl.lost <= lost
      BY <2>1, <2>6, <2>7 DEF IInv, StreamOK, ClientOK, Client
    <3> QED  BY <3>1, <2>3, <2>6, <2>7 DEF ClientOK
  <2>9. FeedOK([queue |-> frames, desync |-> FALSE], cl, lastSeq, lost, generation, seen)
    BY <2>3, <2>4, <2>6, <2>8, ReplayKeeps DEF IInv
  <2>10. frames \in Seq(Frame)
    BY <2>3, <2>4, NewerIs DEF IInv
  <2>11. FeedOK(Opened(frames, k), cl, lastSeq, lost, generation, seen)
    BY <1>1, <2>6, <2>9, <2>10, OpenedKeeps
  <2>12. Opened(frames, k) \in Feed
    BY <2>11 DEF FeedOK
  <2> QED  BY <1>2, <1>3, <2>3, <2>6, <2>7, <2>11, <2>12
<1>5. CASE ~ReplayAvailable(cursor)
  <2>1. cursor = NoCursor
    BY <1>5 DEF ResumeCursor
  <2>2. frames \in {<<>>, <<ResetFrame>>}
    BY <2>1 DEF Newer, NeedsReset
  <2>3. cl = [NewClient EXCEPT !.epoch = epoch, !.gen = generation]
    BY <1>5 DEF Greeted
  <2>4. /\ cl \in Client /\ cl.epoch = epoch /\ cl.gen = generation
        /\ cl.known = 0 /\ cl.stale = TRUE /\ cl.cursor = 0 /\ cl.lost = 0
    <3>1. cl = [epoch |-> epoch, cursor |-> 0, known |-> 0, stale |-> TRUE,
                gen |-> generation, lost |-> 0]
      BY <2>3 DEF NewClient
    <3> HIDE DEF cl
    <3> QED  BY <1>1, <3>1 DEF Client
  <2> HIDE DEF cursor, frames, cl
  <2>5. ClientOK(cl)
    BY <1>1, <2>4 DEF ClientOK
  <2>6. /\ frames \in Seq(Frame)
        /\ FeedOK([queue |-> frames, desync |-> FALSE], cl, lastSeq, lost, generation, seen)
    BY <2>2, <2>4, StartKeeps DEF IInv
  <2>7. FeedOK(Opened(frames, k), cl, lastSeq, lost, generation, seen)
    BY <1>1, <2>4, <2>6, OpenedKeeps
  <2>8. Opened(frames, k) \in Feed
    BY <2>7 DEF FeedOK
  <2> QED  BY <1>2, <1>3, <2>4, <2>5, <2>7, <2>8
<1> QED  BY <1>4, <1>5

(* The three ways an app may come are Connect with the cursor it may have. *)
LEMMA ComingIs ==
  ASSUME IInv, NEW c \in Clients, Resume(c) \/ LegacyResume(c) \/ Join(c)
  PROVE  \E after \in Nat \cup {NoCursor}, ep \in Nat :
           /\ ep = 0 \/ (ep = client[c].epoch /\ after = client[c].cursor)
           /\ Connect(c, after, ep)
<1>1. client[c].cursor \in Nat /\ client[c].epoch \in Nat
  BY DEF IInv, Types, Client
<1> QED  BY <1>1 DEF Resume, LegacyResume, Join

(* ... an app that resumes or joins ...                                    *)
LEMMA ComingKeeps ==
  ASSUME IInv, NEW c \in Clients, Resume(c) \/ LegacyResume(c) \/ Join(c)
  PROVE  IInv'
<1>1. PICK after \in Nat \cup {NoCursor}, ep \in Nat :
        /\ ep = 0 \/ (ep = client[c].epoch /\ after = client[c].cursor)
        /\ Connect(c, after, ep)
  BY ComingIs
<1>2. PICK cl \in Client, sub \in Feed :
        /\ client' = [client EXCEPT ![c] = cl]
        /\ feed' = [feed EXCEPT ![c] = sub]
        /\ subscribed' = subscribed \cup {c}
        /\ cl.epoch = epoch /\ cl.gen = generation /\ ClientOK(cl)
        /\ FeedOK(sub, cl, lastSeq, lost, generation, seen)
  BY <1>1, ConnectIs
<1>3. epoch' = epoch /\ lastSeq' = lastSeq /\ history' = history /\ gap' = gap /\ lost' = lost
      /\ generation' = generation /\ seen' = seen
  BY <1>1 DEF Connect, streamVars
<1>4. cl.gen <= generation
  BY <1>2 DEF IInv, Types
<1> QED  BY <1>2, <1>3, <1>4, OneAppKeeps

(* What an app takes in, by the type of the frame.                         *)
LEMMA ForwardIs ==
  ASSUME IInv, NEW c \in Clients, Forward(c)
  PROVE  LET f == Head(feed[c].queue)
             cl == Absorb(client[c], f)
         IN  /\ c \in subscribed /\ f \in Frame /\ cl \in Client /\ client[c] \in Client
             /\ client' = [client EXCEPT ![c] = cl]
             /\ client[c].epoch = epoch /\ cl.epoch = epoch /\ ClientOK(cl)
             /\ cl.gen <= generation
             /\ f.type = "event" => f.seq <= lastSeq /\ (~client[c].stale => f.seq <= client[c].known + 1)
<1> DEFINE q == feed[c].queue
           f == Head(q)
           cl == Absorb(client[c], f)
<1>1. c \in subscribed /\ q # <<>> /\ client' = [client EXCEPT ![c] = cl]
  BY DEF Forward, IInv, Types
<1>2. client[c] \in Client /\ SubscriberOK(c) /\ ClientOK(client[c]) /\ lastSeq \in Nat
      /\ generation \in Nat /\ lost \in Nat
  BY <1>1 DEF IInv, Types
<1>3. q \in Seq(Frame) /\ FeedOK(feed[c], client[c], lastSeq, lost, generation, seen)
  BY <1>2 DEF SubscriberOK, FeedOK, Feed
<1>4. f \in Frame /\ 1 \in DOMAIN q /\ f = q[1]
  BY <1>1, <1>3, Popped
<1>5. f.type = "event" => f.seq <= lastSeq /\ (~client[c].stale => f.seq <= client[c].known + 1)
  BY <1>1, <1>2, <1>3, NextFrame
<1>6. f.type = "resync" => f.gen <= generation
  BY <1>3, <1>4 DEF FeedOK, Orderly, Rising
<1>7. client[c].epoch = epoch /\ client[c].gen <= generation
  BY <1>2 DEF SubscriberOK
<1>8. f.seq \in Nat /\ client[c].known \in Nat /\ client[c].cursor \in Nat
  BY <1>2, <1>4 DEF Frame, Client
<1>9. client[c].cursor <= client[c].known /\ client[c].known <= lastSeq /\ client[c].lost <= lost
  BY <1>2, <1>7 DEF ClientOK
<1> HIDE DEF q, f
<1>10. /\ cl \in Client /\ cl.epoch = client[c].epoch /\ cl.lost = client[c].lost
       /\ cl.gen = IF f.type = "resync" THEN f.gen ELSE client[c].gen
       /\ cl.known = IF f.type = "event" THEN Larger(client[c].known, f.seq) ELSE client[c].known
       /\ cl.cursor = IF f.type = "event" THEN Larger(client[c].cursor, f.seq) ELSE client[c].cursor
  BY <1>2, <1>4, AbsorbIs
<1> HIDE DEF cl
<1>11. cl.cursor <= cl.known /\ cl.known <= lastSeq
  BY <1>2, <1>5, <1>8, <1>9, <1>10 DEF Larger
<1>12. ClientOK(cl)
  BY <1>2, <1>7, <1>9, <1>10, <1>11 DEF ClientOK
<1>13. cl.gen <= generation
  BY <1>6, <1>7, <1>10
<1> QED  BY <1>1, <1>2, <1>4, <1>5, <1>7, <1>10, <1>12, <1>13 DEF cl, f, q

(* An empty feed is a feed.                                                *)
LEMMA EmptyIsFeed == EmptyFeed \in Feed
  BY DEF EmptyFeed, Feed

(* ... a frame that is forwarded ...                                       *)
LEMMA ForwardKeeps ==
  ASSUME IInv, NEW c \in Clients, Forward(c)
  PROVE  IInv'
<1> DEFINE f == Head(feed[c].queue)
           cl == Absorb(client[c], f)
           sub == [feed[c] EXCEPT !.queue = Tail(@)]
<1>1. /\ c \in subscribed /\ f \in Frame /\ cl \in Client /\ client[c] \in Client
      /\ client' = [client EXCEPT ![c] = cl]
      /\ cl.epoch = epoch /\ ClientOK(cl) /\ cl.gen <= generation
  BY ForwardIs
<1>2. epoch' = epoch /\ lastSeq' = lastSeq /\ history' = history /\ gap' = gap /\ lost' = lost
      /\ generation' = generation /\ seen' = seen
  BY DEF Forward, streamVars
<1>3. CASE f.type = "desync"
  <2>1. subscribed' = subscribed \ {c} /\ feed' = [feed EXCEPT ![c] = EmptyFeed]
    BY <1>3 DEF Forward, Unsubscribe
  <2> HIDE DEF f, cl, sub
  <2> QED  BY <1>1, <1>2, <2>1, EmptyIsFeed, OneAppKeeps
<1>4. CASE f.type # "desync"
  <2>1. feed \in [Clients -> Feed] /\ feed' = [feed EXCEPT ![c].queue = Tail(@)] /\ subscribed' = subscribed
    BY <1>4 DEF Forward, IInv, Types
  <2>2. feed' = [feed EXCEPT ![c] = sub]
    BY <2>1
  <2>3. subscribed' = subscribed \cup {c}
    BY <1>1, <2>1
  <2>4. FeedOK(feed[c], client[c], lastSeq, lost, generation, seen) /\ feed[c].queue # <<>>
    BY <1>1 DEF IInv, SubscriberOK, Forward
  <2>5. lastSeq \in Nat /\ generation \in Nat /\ seen \in Nat
    BY DEF IInv, Types
  <2>6. FeedOK(sub, cl, lastSeq, lost, generation, seen)
    BY <1>1, <1>4, <2>4, <2>5, TakeKeeps
  <2> HIDE DEF f, cl, sub
  <2>7. sub \in Feed
    BY <2>6 DEF FeedOK
  <2> QED  BY <1>1, <1>2, <2>2, <2>3, <2>6, <2>7, OneAppKeeps
<1> QED  BY <1>3, <1>4

(* ... a socket that closes ...                                            *)
LEMMA DisconnectKeeps ==
  ASSUME IInv, NEW c \in Clients, Disconnect(c)
  PROVE  IInv'
<1>1. subscribed' = subscribed \ {c} /\ feed' = [feed EXCEPT ![c] = EmptyFeed]
      /\ epoch' = epoch /\ lastSeq' = lastSeq /\ history' = history /\ gap' = gap /\ lost' = lost
      /\ generation' = generation /\ seen' = seen /\ client' = client
  BY DEF Disconnect, Unsubscribe, streamVars
<1>2. client[c] \in Client /\ ClientOK(client[c]) /\ client \in [Clients -> Client]
  BY DEF IInv, Types
<1>3. client' = [client EXCEPT ![c] = client[c]]
  BY <1>1, <1>2
<1> QED  BY <1>1, <1>2, <1>3, EmptyIsFeed, OneAppKeeps

(* ... a reload ...                                                        *)
LEMMA ReloadKeeps ==
  ASSUME IInv, NEW c \in Clients, Reload(c)
  PROVE  IInv'
<1> DEFINE cl == [client[c] EXCEPT !.stale = FALSE, !.known = lastSeq, !.lost = lost]
<1>1. epoch' = epoch /\ lastSeq' = lastSeq /\ history' = history /\ gap' = gap /\ lost' = lost
      /\ generation' = generation /\ seen' = seen /\ subscribed' = subscribed /\ feed' = feed
      /\ c \in subscribed
  BY DEF Reload, streamVars
<1>2. client[c] \in Client /\ ClientOK(client[c]) /\ client \in [Clients -> Client]
      /\ feed \in [Clients -> Feed] /\ feed[c] \in Feed /\ lastSeq \in Nat /\ lost \in Nat /\ SubscriberOK(c)
      /\ subscribed \subseteq Clients
  BY <1>1 DEF IInv, Types
<1>3. client' = [client EXCEPT ![c] = cl]
  BY <1>2 DEF Reload
<1>4. /\ cl \in Client /\ cl.epoch = client[c].epoch /\ cl.gen = client[c].gen
      /\ cl.cursor = client[c].cursor /\ cl.known = lastSeq /\ cl.lost = lost /\ cl.stale = FALSE
  BY <1>2 DEF Client
<1> HIDE DEF cl
<1>5. cl.epoch = epoch /\ cl.gen <= generation
  BY <1>2, <1>4 DEF SubscriberOK
<1>6. client[c].cursor <= client[c].known /\ client[c].known <= lastSeq
      /\ client[c].cursor \in Nat /\ client[c].known \in Nat /\ epoch \in Nat
  BY <1>2 DEF ClientOK, SubscriberOK, Client, IInv, Types
<1>7. ClientOK(cl)
  BY <1>2, <1>4, <1>5, <1>6 DEF ClientOK
<1>8. FeedOK(feed[c], client[c], lastSeq, lost, generation, seen)
  BY <1>2 DEF SubscriberOK
<1> DEFINE q == feed[c].queue
<1>9. \A i \in DOMAIN q : q[i].seq \in Nat
  <2>1. q \in Seq(Frame)
    BY <1>2 DEF Feed
  <2>2. \A i \in DOMAIN q : q[i] \in Frame
    BY <2>1, ElementIs
  <2> QED  BY <2>2 DEF Frame
<1>10. Follows(q, cl.known)
  <2>1. \A i \in DOMAIN q : q[i].type = "event" => q[i].seq <= lastSeq
    BY <1>8 DEF FeedOK, Orderly, Numbered
  <2>2. \A i \in DOMAIN q : q[i].type = "event" => q[i].seq <= lastSeq + 1
    BY <2>1, <1>2, <1>9
  <2> QED  BY <2>2, <1>4 DEF Follows
<1>11. Complete(q, cl, lastSeq, lost)
  BY <1>2, <1>4 DEF Complete
<1>12. FeedOK(feed[c], cl, lastSeq, lost, generation, seen)
  BY <1>4, <1>8, <1>10, <1>11 DEF FeedOK, Orderly
<1>13. feed' = [feed EXCEPT ![c] = feed[c]] /\ subscribed' = subscribed \cup {c}
  BY <1>1, <1>2
<1> QED  BY <1>1, <1>2, <1>3, <1>4, <1>5, <1>7, <1>12, <1>13, OneAppKeeps

(* ... and a restart of the gateway.                                       *)
LEMMA RestartKeeps ==
  ASSUME IInv, Restart
  PROVE  IInv'
<1>1. epoch' = epoch + 1 /\ lastSeq' = 0 /\ history' = <<>> /\ gap' = FALSE /\ generation' = 0
      /\ seen' = 0 /\ subscribed' = {} /\ feed' = [c \in Clients |-> EmptyFeed]
      /\ lost' = 0 /\ client' = client
  BY DEF Restart
<1>2. client \in [Clients -> Client] /\ epoch \in Nat \ {0}
  BY DEF IInv, Types
<1>3. Types'
  <2>1. <<>> \in Seq(Frame) /\ [c \in Clients |-> EmptyFeed] \in [Clients -> Feed]
    BY EmptyIsFeed
  <2>2. epoch + 1 \in Nat \ {0}
    BY <1>2
  <2> QED  BY <1>1, <1>2, <2>1, <2>2 DEF Types
<1>4. HistoryOK' /\ StreamOK'
  BY <1>1 DEF HistoryOK, StreamOK
<1>5. ASSUME NEW c \in Clients PROVE ClientOK(client[c])'
  <2>1. client[c].epoch \in Nat /\ client[c].epoch <= epoch
    BY <1>2 DEF IInv, ClientOK, Client
  <2>2. client[c].epoch <= epoch + 1 /\ client[c].epoch # epoch + 1
    BY <1>2, <2>1
  <2> QED  BY <1>1, <2>2 DEF ClientOK
<1> QED  BY <1>1, <1>3, <1>4, <1>5 DEF IInv

-----------------------------------------------------------------------------
(* It holds at the start.                                                  *)
LEMMA Initially == Init => IInv
<1> SUFFICES ASSUME Init PROVE IInv
  OBVIOUS
<1>1. NewClient \in Client /\ NewClient.epoch = 0
  BY DEF NewClient, Client
<1>2. Types
  <2>1. /\ <<>> \in Seq(Frame) /\ [c \in Clients |-> EmptyFeed] \in [Clients -> Feed]
        /\ [c \in Clients |-> NewClient] \in [Clients -> Client]
    BY <1>1, EmptyIsFeed
  <2>2. /\ epoch = 1 /\ lastSeq = 0 /\ history = <<>> /\ gap = FALSE /\ generation = 0
        /\ seen = 0 /\ subscribed = {} /\ feed = [c \in Clients |-> EmptyFeed]
        /\ client = [c \in Clients |-> NewClient] /\ lost = 0
    BY DEF Init
  <2>3. /\ epoch \in Nat \ {0} /\ lastSeq \in Nat /\ gap \in BOOLEAN /\ generation \in Nat
        /\ seen \in Nat /\ subscribed \subseteq Clients /\ lost \in Nat
    <3>1. 1 \in Nat \ {0} /\ 0 \in Nat
      OBVIOUS
    <3>2. epoch \in Nat \ {0} /\ lastSeq \in Nat /\ generation \in Nat /\ seen \in Nat /\ lost \in Nat
      BY <2>2, <3>1
    <3>3. gap \in BOOLEAN /\ subscribed \subseteq Clients
      BY <2>2
    <3> QED  BY <3>2, <3>3
  <2>4. history \in Seq(Frame) /\ feed \in [Clients -> Feed] /\ client \in [Clients -> Client]
    BY <2>1, <2>2
  <2> QED  BY <2>3, <2>4 DEF Types
<1> QED  BY <1>1, <1>2 DEF Init, IInv, HistoryOK, StreamOK, ClientOK

(* Every step keeps it.                                                    *)
LEMMA Stepwise == IInv /\ [Next]_vars => IInv'
<1> SUFFICES ASSUME IInv, [Next]_vars PROVE IInv'
  OBVIOUS
<1>1. CASE UNCHANGED vars
  <2>1. epoch' = epoch /\ lastSeq' = lastSeq /\ history' = history /\ gap' = gap
        /\ generation' = generation /\ seen' = seen /\ subscribed' = subscribed
        /\ feed' = feed /\ client' = client /\ lost' = lost
    BY <1>1 DEF vars
  <2> QED  BY <2>1 DEF IInv, Types, HistoryOK, StreamOK, ClientOK, SubscriberOK
<1>2. CASE Next
  BY <1>2, ReconnectKeeps, WatchKeeps, PublishKeeps, InjectKeeps, LoseKeeps, ComingKeeps,
     ForwardKeeps, DisconnectKeeps, ReloadKeeps, RestartKeeps DEF Next
<1> QED  BY <1>1, <1>2

(* It holds in every reachable state.                                      *)
LEMMA Invariance == Spec => []IInv
  BY Initially, Stepwise, PTL DEF Spec

(* Whatever is cut off, evicted from the history, lost before it could be  *)
(* numbered or resumed from a stale cursor: an app on an open socket that  *)
(* owes no reload has every frame, or has it coming, or is being told.     *)
THEOREM NothingIsEverMissed == Spec => []NothingIsMissed
<1>1. IInv => NothingIsMissed
  BY DEF IInv, SubscriberOK, FeedOK, Complete, NothingIsMissed
<1> QED  BY <1>1, Invariance, PTL

(* No app sees an event of a Hermes connection before it is told of it.    *)
THEOREM ResyncAlwaysFirst == Spec => []ResyncComesFirst
<1>1. IInv => ResyncComesFirst
  BY DEF IInv, SubscriberOK, FeedOK, Orderly, ToldFirst, ResyncComesFirst
<1> QED  BY <1>1, Invariance, PTL

-----------------------------------------------------------------------------
(* The contract.                                                           *)

Belief(cl) == [epoch |-> cl.epoch, upTo |-> cl.known]
Beliefs == [c \in Clients |-> Belief(client[c])]
Told == [c \in Clients |-> client[c].stale]

(* The steps of the abstract specification, spelled out.                   *)
LEMMA ContractIs ==
  /\ Contract!Next <=>
       \/ lastSeq' = lastSeq + 1 /\ UNCHANGED <<epoch, Beliefs, Told>>
       \/ epoch' = epoch + 1 /\ lastSeq' = 0 /\ UNCHANGED <<Beliefs, Told>>
       \/ \E c \in Clients :
            \/ /\ ~Told[c] /\ Beliefs[c].epoch = epoch /\ Beliefs[c].upTo < lastSeq
               /\ Beliefs' = [Beliefs EXCEPT ![c].upTo = @ + 1]
               /\ UNCHANGED <<epoch, lastSeq, Told>>
            \/ /\ Told' = [Told EXCEPT ![c] = TRUE]
               /\ \E n \in 0..lastSeq : Beliefs' = [Beliefs EXCEPT ![c] = [epoch |-> epoch, upTo |-> n]]
               /\ UNCHANGED <<epoch, lastSeq>>
            \/ /\ Told[c] /\ Beliefs[c].epoch = epoch
               /\ Beliefs' = [Beliefs EXCEPT ![c].upTo = lastSeq]
               /\ Told' = [Told EXCEPT ![c] = FALSE]
               /\ UNCHANGED <<epoch, lastSeq>>
  /\ (UNCHANGED <<epoch, lastSeq, Beliefs, Told>>) => UNCHANGED Contract!vars
<1> USE DEF Contract!Next, Contract!Publish, Contract!Restart, Contract!Deliver, Contract!Tell,
            Contract!Reload, Contract!vars, Beliefs, Told, Belief
<1> QED  OBVIOUS

(* What a step of one app is to the contract.                              *)
LEMMA OneAppBelieves ==
  ASSUME IInv, NEW c \in Clients, NEW cl \in Client, client' = [client EXCEPT ![c] = cl]
  PROVE  /\ Beliefs' = [Beliefs EXCEPT ![c] = Belief(cl)]
         /\ Told' = [Told EXCEPT ![c] = cl.stale]
         /\ Beliefs[c] = Belief(client[c]) /\ Told[c] = client[c].stale
<1>1. client \in [Clients -> Client]
  BY DEF IInv, Types
<1> QED  BY <1>1 DEF Beliefs, Told

(* An update that changes nothing is a stutter.                            *)
LEMMA SameBelieves ==
  ASSUME IInv, NEW c \in Clients
  PROVE  /\ [Beliefs EXCEPT ![c] = Beliefs[c]] = Beliefs
         /\ [Told EXCEPT ![c] = Told[c]] = Told
         /\ \A n : [Beliefs EXCEPT ![c].upTo = n]
                      = [Beliefs EXCEPT ![c] = [epoch |-> client[c].epoch, upTo |-> n]]
<1>1. [Beliefs EXCEPT ![c] = Beliefs[c]] = Beliefs
  BY DEF Beliefs
<1>2. [Told EXCEPT ![c] = Told[c]] = Told
  BY DEF Told
<1>3. ASSUME NEW n
      PROVE  [Beliefs EXCEPT ![c].upTo = n]
               = [Beliefs EXCEPT ![c] = [epoch |-> client[c].epoch, upTo |-> n]]
  <2>1. Beliefs[c] = [epoch |-> client[c].epoch, upTo |-> client[c].known]
    BY DEF Beliefs, Belief
  <2>2. [Beliefs[c] EXCEPT !.upTo = n] = [epoch |-> client[c].epoch, upTo |-> n]
    BY <2>1
  <2> QED  BY <2>2
<1> QED  BY <1>1, <1>2, <1>3

(* Every step of the broadcaster is one of the contract, or none.          *)
LEMMA StepsImplement ==
  ASSUME IInv, [Next]_vars
  PROVE  [Contract!Next]_(Contract!vars)
<1>0. lastSeq \in Nat /\ client \in [Clients -> Client] /\ subscribed \subseteq Clients
  BY DEF IInv, Types
<1>1. ASSUME client' = client, epoch' = epoch, lastSeq' \in {lastSeq, lastSeq + 1}
      PROVE  [Contract!Next]_(Contract!vars)
  <2>1. UNCHANGED <<epoch, Beliefs, Told>>
    BY <1>1 DEF Beliefs, Told
  <2> QED  BY <2>1, <1>1, ContractIs
<1>2. CASE Reconnect \/ WatchGeneration \/ LoseEvent \/ (\E c \in Clients : Disconnect(c)) \/ UNCHANGED vars
  <2>1. client' = client /\ epoch' = epoch /\ lastSeq' = lastSeq
    BY <1>2 DEF Reconnect, WatchGeneration, LoseEvent, Disconnect, streamVars, vars
  <2> QED  BY <2>1, <1>1
<1>3. CASE \/ \E size \in Sizes, background \in BOOLEAN : PublishEvent(size, background)
           \/ \E size \in Sizes : InjectEvent(size)
  <2>1. client' = client /\ epoch' = epoch /\ lastSeq' = lastSeq + 1
    BY <1>3 DEF PublishEvent, InjectEvent, EventFrame
  <2> QED  BY <2>1, <1>1
<1>4. CASE Restart
  <2>1. epoch' = epoch + 1 /\ lastSeq' = 0 /\ UNCHANGED <<Beliefs, Told>>
    BY <1>4 DEF Restart, Beliefs, Told
  <2> QED  BY <2>1, ContractIs
<1>5. ASSUME NEW c \in Clients, Resume(c) \/ LegacyResume(c) \/ Join(c)
      PROVE  [Contract!Next]_(Contract!vars)
  <2>1. PICK after \in Nat \cup {NoCursor}, ep \in Nat :
          /\ ep = 0 \/ (ep = client[c].epoch /\ after = client[c].cursor)
          /\ Connect(c, after, ep)
    BY <1>5, ComingIs
  <2>2. PICK cl \in Client :
          /\ client' = [client EXCEPT ![c] = cl]
          /\ cl.epoch = epoch
          /\ \/ /\ client[c].epoch = epoch
                /\ cl.known = client[c].known /\ cl.stale = client[c].stale
             \/ cl.known = 0 /\ cl.stale
    BY <2>1, ConnectIs
  <2>3. UNCHANGED <<epoch, lastSeq>>
    BY <2>1 DEF Connect, streamVars
  <2>4. CASE client[c].epoch = epoch /\ cl.known = client[c].known /\ cl.stale = client[c].stale
    <3>1. Belief(cl) = Beliefs[c] /\ cl.stale = Told[c]
      BY <2>2, <2>4, OneAppBelieves DEF Belief
    <3>2. Beliefs' = [Beliefs EXCEPT ![c] = Belief(cl)] /\ Told' = [Told EXCEPT ![c] = cl.stale]
      BY <2>2, OneAppBelieves
    <3>3. Beliefs' = Beliefs /\ Told' = Told
      BY <3>1, <3>2, SameBelieves
    <3> QED  BY <2>3, <3>3, ContractIs
  <2>5. CASE cl.known = 0 /\ cl.stale
    <3>1. Belief(cl) = [epoch |-> epoch, upTo |-> 0] /\ cl.stale = TRUE /\ 0 \in 0..lastSeq
      BY <1>0, <2>2, <2>5 DEF Belief, Client
    <3>2. /\ Told' = [Told EXCEPT ![c] = TRUE]
          /\ Beliefs' = [Beliefs EXCEPT ![c] = [epoch |-> epoch, upTo |-> 0]]
      <4>1. Beliefs' = [Beliefs EXCEPT ![c] = Belief(cl)] /\ Told' = [Told EXCEPT ![c] = cl.stale]
        BY <2>2, OneAppBelieves
      <4> QED  BY <3>1, <4>1
    <3> QED  BY <2>3, <3>1, <3>2, ContractIs
  <2> QED  BY <2>2, <2>4, <2>5
<1>6. ASSUME NEW c \in Clients, Forward(c) PROVE [Contract!Next]_(Contract!vars)
  <2> DEFINE f == Head(feed[c].queue)
             cl == Absorb(client[c], f)
  <2>1. /\ f \in Frame /\ cl \in Client /\ client[c] \in Client
        /\ client' = [client EXCEPT ![c] = cl]
        /\ client[c].epoch = epoch /\ cl.epoch = epoch /\ ClientOK(cl)
        /\ f.type = "event" => f.seq <= lastSeq /\ (~client[c].stale => f.seq <= client[c].known + 1)
    BY <1>6, ForwardIs
  <2>2. UNCHANGED <<epoch, lastSeq>>
    BY <1>6 DEF Forward, streamVars
  <2> HIDE DEF f
  <2>3. /\ cl.stale = (client[c].stale \/ f.type \in Reloading)
        /\ cl.known = IF f.type = "event" THEN Larger(client[c].known, f.seq) ELSE client[c].known
        /\ f.type \in {"resync", "synth"} => cl.known = client[c].known /\ cl.stale = client[c].stale
    BY <2>1, AbsorbIs
  <2> HIDE DEF cl
  <2>4. cl.known \in 0..lastSeq /\ cl.known \in Nat /\ client[c].known \in Nat /\ f.seq \in Nat
    BY <1>0, <2>1 DEF ClientOK, Client, Frame
  <2>5. /\ Beliefs' = [Beliefs EXCEPT ![c] = [epoch |-> epoch, upTo |-> cl.known]]
        /\ Told' = [Told EXCEPT ![c] = cl.stale]
        /\ Beliefs[c] = [epoch |-> epoch, upTo |-> client[c].known] /\ Told[c] = client[c].stale
    <3>1. /\ Beliefs' = [Beliefs EXCEPT ![c] = Belief(cl)] /\ Told' = [Told EXCEPT ![c] = cl.stale]
          /\ Beliefs[c] = Belief(client[c]) /\ Told[c] = client[c].stale
      BY <2>1, OneAppBelieves
    <3>2. Belief(cl) = [epoch |-> epoch, upTo |-> cl.known]
          /\ Belief(client[c]) = [epoch |-> epoch, upTo |-> client[c].known]
      BY <2>1 DEF Belief
    <3> QED  BY <3>1, <3>2
  <2>6. CASE cl.stale
    <3>1. cl.stale = TRUE
      BY <2>1, <2>6 DEF Client
    <3> QED  BY <2>2, <2>4, <2>5, <3>1, ContractIs
  <2>7. CASE ~cl.stale /\ cl.known = client[c].known
    <3>1. ~client[c].stale /\ cl.stale = client[c].stale
      BY <2>1, <2>3, <2>7 DEF Client
    <3>2. UNCHANGED <<Beliefs, Told>>
      BY <2>5, <2>7, <3>1, SameBelieves
    <3> QED  BY <2>2, <3>2, ContractIs
  <2>8. CASE ~cl.stale /\ cl.known # client[c].known
    <3>1. ~client[c].stale /\ cl.stale = client[c].stale
      BY <2>1, <2>3, <2>8 DEF Client
    <3>2. cl.known = client[c].known + 1
      BY <2>1, <2>3, <2>4, <2>8, <3>1 DEF Larger
    <3>3. Told' = Told /\ ~Told[c]
      BY <2>5, <3>1, SameBelieves
    <3>4. Beliefs' = [Beliefs EXCEPT ![c].upTo = @ + 1]
      <4>1. [Beliefs EXCEPT ![c].upTo = @ + 1] = [Beliefs EXCEPT ![c].upTo = client[c].known + 1]
        BY <2>5
      <4>2. [Beliefs EXCEPT ![c].upTo = client[c].known + 1]
              = [Beliefs EXCEPT ![c] = [epoch |-> client[c].epoch, upTo |-> client[c].known + 1]]
        BY SameBelieves
      <4> QED  BY <4>1, <4>2, <2>1, <2>5, <3>2
    <3>5. Beliefs[c].epoch = epoch /\ Beliefs[c].upTo < lastSeq
      BY <1>0, <2>4, <2>5, <3>2
    <3> QED  BY <2>2, <3>3, <3>4, <3>5, ContractIs
  <2> QED  BY <2>6, <2>7, <2>8
<1>7. ASSUME NEW c \in Clients, Reload(c) PROVE [Contract!Next]_(Contract!vars)
  <2> DEFINE cl == [client[c] EXCEPT !.stale = FALSE, !.known = lastSeq, !.lost = lost]
  <2>1. client[c] \in Client /\ lost \in Nat /\ client[c].epoch = epoch /\ client[c].stale
        /\ UNCHANGED <<epoch, lastSeq>>
    BY <1>0, <1>7 DEF Reload, IInv, Types, SubscriberOK, streamVars
  <2>2. client' = [client EXCEPT ![c] = cl]
    BY <1>0, <1>7 DEF Reload
  <2>3. cl \in Client /\ cl.epoch = epoch /\ cl.known = lastSeq /\ cl.stale = FALSE
    BY <1>0, <2>1 DEF Client
  <2> HIDE DEF cl
  <2>4. /\ Beliefs' = [Beliefs EXCEPT ![c] = [epoch |-> epoch, upTo |-> lastSeq]]
        /\ Told' = [Told EXCEPT ![c] = FALSE]
        /\ Beliefs[c].epoch = epoch /\ Told[c]
    <3>1. /\ Beliefs' = [Beliefs EXCEPT ![c] = Belief(cl)] /\ Told' = [Told EXCEPT ![c] = cl.stale]
          /\ Beliefs[c] = Belief(client[c]) /\ Told[c] = client[c].stale
      BY <2>2, <2>3, OneAppBelieves
    <3>2. Belief(cl) = [epoch |-> epoch, upTo |-> lastSeq] /\ Belief(client[c]).epoch = epoch
      BY <2>1, <2>3 DEF Belief
    <3> QED  BY <2>1, <2>3, <3>1, <3>2
  <2>5. Beliefs' = [Beliefs EXCEPT ![c].upTo = lastSeq]
    <3>1. [Beliefs EXCEPT ![c].upTo = lastSeq]
            = [Beliefs EXCEPT ![c] = [epoch |-> client[c].epoch, upTo |-> lastSeq]]
      BY SameBelieves
    <3> QED  BY <2>1, <2>4, <3>1
  <2> QED  BY <2>1, <2>4, <2>5, ContractIs
<1> QED  BY <1>2, <1>3, <1>4, <1>5, <1>6, <1>7 DEF Next

(* An app that trusts its transcript is extended by the next frame only:   *)
(* queues, cut-offs, replays and epochs together implement StreamContract. *)
THEOREM ContractIsKept == Spec => ImplementsContract
<1>1. Init => Contract!Init
  BY DEF Init, Contract!Init, NewClient
<1>2. IInv /\ [Next]_vars => [Contract!Next]_(Contract!vars)
  BY StepsImplement
<1> QED  BY <1>1, <1>2, Invariance, PTL DEF Spec, ImplementsContract, Contract!Spec
=============================================================================
