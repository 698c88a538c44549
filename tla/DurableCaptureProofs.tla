------------------------ MODULE DurableCaptureProofs ------------------------
(***************************************************************************)
(* The two invariants of DurableCapture, for any handles, sessions, page   *)
(* and inbox: what is kept is kept once, and nothing is attributed to a    *)
(* session that did not hold the handle.                                   *)
(***************************************************************************)
EXTENDS DurableCapture, SequenceTheorems, TLAPS

Entry  == [session : Sessions, handle : Handles, host : Nat]
Sent   == [handle : Handles, entry : Nat, kind : Kinds, received : Nat]
Event  == [handle : Handles, entry : Nat, kind : Kinds, received : Nat, observed : Nat,
           host : Nat, accepted : BOOLEAN]
Held   == [id : Nat, epoch : Nat, owner : Nat]
Run    == [session : Sessions, status : {"running", "completed", "interrupted"}]
RunRow == [event : Nat, run : Nat]
ChatRow == [event : Nat, session : Sessions, turn : Nat]

HostTypes ==
  /\ hostEpoch \in Nat
  /\ opened \in Seq(Entry)
  /\ registry \in [Handles -> Nat]
  /\ wire \in Seq(Sent)
  /\ events \in Seq(Event)
  /\ inbox \subseteq Held
  /\ pass \in [by : {"none", "timer", "pump"}, todo : SUBSET Held]

StoreTypes ==
  /\ open \in [Sessions -> Nat]
  /\ runs \in Seq(Run)
  /\ runEvents \subseteq RunRow
  /\ chat \subseteq ChatRow

(* The two tables: the recorder's open runs are its sessions', no event    *)
(* has two rows of a kind, and no chat row is without its run event.       *)
StoreOK ==
  /\ StoreTypes
  /\ \A s \in Sessions :
       open[s] # None => open[s] \in DOMAIN runs /\ runs[open[s]].session = s
  /\ \A e \in runEvents : e.run \in DOMAIN runs
  /\ \A e, d \in runEvents : e.event = d.event => e = d
  /\ \A c, d \in chat : c.event = d.event => c = d
  /\ \A c \in chat : \E e \in runEvents :
       e.event = c.event /\ e.run = c.turn /\ runs[e.run].session = c.session

(* The registry has this host's entries, on their handles.                 *)
RegistryOK ==
  \A h \in Handles : registry[h] # None =>
    /\ registry[h] \in DOMAIN opened
    /\ opened[registry[h]].handle = h /\ opened[registry[h]].host = hostEpoch

(* What was sent on a handle was sent by the entry that is on it now, or   *)
(* by an older one.                                                        *)
SentEarlier(entry, handle) ==
  entry <= Len(opened) /\ (registry[handle] # None => entry <= registry[handle])

WireOK == \A i \in DOMAIN wire : SentEarlier(wire[i].entry, wire[i].handle)

EventsOK ==
  \A id \in DOMAIN events :
    /\ events[id].observed <= Len(opened)
    /\ events[id].host <= hostEpoch
    /\ events[id].host = hostEpoch => SentEarlier(events[id].entry, events[id].handle)

(* A row of the inbox whose event was recorded knows its owner, and the    *)
(* run is that owner's.                                                    *)
HeldOK(row) ==
  /\ row.id \in DOMAIN events
  /\ row.epoch = events[row.id].host
  /\ row.owner # None => row.owner \in Candidates(row.id)
  /\ \A e \in runEvents : e.event = row.id =>
       row.owner # None /\ runs[e.run].session = opened[row.owner].session

InboxOK ==
  /\ \A row \in inbox : HeldOK(row)
  /\ \A row, other \in inbox : row.id = other.id => row = other

(* The page that is gone through is of rows as they are in the inbox.      *)
PassOK ==
  /\ pass.todo \subseteq inbox
  /\ \A row \in pass.todo : row.epoch = hostEpoch \/ row.owner # None
  /\ pass.by = "pump" => wire # <<>>

Attributed ==
  \A e \in runEvents :
    /\ e.event \in DOMAIN events
    /\ \E i \in Candidates(e.event) : opened[i].session = runs[e.run].session

NothingLost ==
  /\ gap \in BOOLEAN
  /\ \A id \in EventIds :
       IF events[id].accepted THEN InInbox(id) \/ Kept(id)
       ELSE events[id].host = hostEpoch => gap

IInv ==
  /\ HostTypes /\ StoreOK /\ RegistryOK /\ WireOK /\ EventsOK
  /\ InboxOK /\ PassOK /\ Attributed /\ NothingLost

-----------------------------------------------------------------------------
(* The tables.                                                             *)

(* A retry is stamped with the run it was recorded in; an event that is    *)
(* recorded for the first time, with its session's open run or a new one.  *)
LEMMA RunForOf ==
  ASSUME StoreOK, NEW id \in Nat, NEW s \in Sessions,
         \A e \in runEvents : e.event = id => runs[e.run].session = s
  PROVE  /\ RunFor(id, s) \in 1..(Len(runs) + 1)
         /\ RunFor(id, s) <= Len(runs) => runs[RunFor(id, s)].session = s
         /\ \A e \in runEvents : e.event = id => e.run = RunFor(id, s)
<1>1. Len(runs) \in Nat /\ DOMAIN runs = 1..Len(runs)
  BY DEF StoreOK, StoreTypes
<1>2. CASE RowsOf(runEvents, id) # {}
  <2>1. PICK e \in RowsOf(runEvents, id) : e = CHOOSE row \in RowsOf(runEvents, id) : TRUE
    BY <1>2
  <2>2. RunFor(id, s) = e.run
    BY <1>2, <2>1 DEF RunFor
  <2>3. e \in runEvents /\ e.event = id
    BY <2>1 DEF RowsOf
  <2>4. e.run \in DOMAIN runs /\ runs[e.run].session = s
    BY <2>3 DEF StoreOK
  <2>5. \A d \in runEvents : d.event = id => d = e
    BY <2>3 DEF StoreOK
  <2>6. QED  BY <1>1, <2>2, <2>4, <2>5
<1>3. CASE RowsOf(runEvents, id) = {}
  <2>1. \A e \in runEvents : e.event # id
    BY <1>3 DEF RowsOf
  <2>2. CASE open[s] # None
    <3>1. RunFor(id, s) = open[s]
      BY <1>3, <2>2 DEF RunFor
    <3>2. open[s] \in DOMAIN runs /\ runs[open[s]].session = s
      BY <2>2 DEF StoreOK
    <3>3. QED  BY <1>1, <2>1, <3>1, <3>2
  <2>3. CASE open[s] = None
    <3>1. RunFor(id, s) = Len(runs) + 1
      BY <1>3, <2>3 DEF RunFor
    <3>2. QED  BY <1>1, <2>1, <3>1
  <2>4. QED  BY <2>2, <2>3
<1>4. QED  BY <1>2, <1>3

(* Nothing of the tables is taken back.                                    *)
TablesGrow ==
  /\ \A r \in DOMAIN runs : r \in DOMAIN runs' /\ runs'[r].session = runs[r].session
  /\ runEvents \subseteq runEvents'
  /\ chat \subseteq chat'

LedgerOK == /\ open \in [Sessions -> Nat] /\ runs \in Seq(Run) /\ runEvents \subseteq RunRow
            /\ \A s \in Sessions :
                 open[s] # None => open[s] \in DOMAIN runs /\ runs[open[s]].session = s
            /\ \A e \in runEvents : e.run \in DOMAIN runs
            /\ \A e, d \in runEvents : e.event = d.event => e = d

(* Recording: one row for an event, in a run of its session.               *)
LEMMA RecordKeeps ==
  ASSUME StoreOK, NEW id \in Nat, NEW s \in Sessions, NEW kind \in Kinds,
         \A e \in runEvents : e.event = id => runs[e.run].session = s,
         Record(id, s, kind)
  PROVE  /\ LedgerOK'
         /\ \A r \in DOMAIN runs : r \in DOMAIN runs' /\ runs'[r].session = runs[r].session
         /\ runEvents \subseteq runEvents'
         /\ \A e \in runEvents' \ runEvents : e.event = id /\ runs'[e.run].session = s
         /\ kind \in PersistedKinds =>
              \E e \in runEvents' : /\ e.event = id /\ e.run = RunFor(id, s)
                                    /\ runs'[e.run].session = s
<1>1. /\ runs \in Seq(Run) /\ Len(runs) \in Nat /\ DOMAIN runs = 1..Len(runs)
      /\ open \in [Sessions -> Nat] /\ runEvents \subseteq RunRow
  BY DEF StoreOK, StoreTypes
<1> DEFINE r == RunFor(id, s)
<1>2. /\ r \in 1..(Len(runs) + 1) /\ r \in Nat
      /\ r <= Len(runs) => runs[r].session = s
      /\ \A e \in runEvents : e.event = id => e.run = r
  BY <1>1, RunForOf
<1>3. CASE RowsOf(runEvents, id) # {}
  <2>1. UNCHANGED <<runs, runEvents, open>>
    BY <1>3 DEF Record
  <2>2. PICK e \in runEvents : e.event = id
    BY <1>3 DEF RowsOf
  <2>3. LedgerOK'
    BY <2>1 DEF LedgerOK, StoreOK, StoreTypes
  <2>4. QED  BY <1>2, <2>1, <2>2, <2>3
<1>4. CASE RowsOf(runEvents, id) = {}
  <2> DEFINE table == IF r > Len(runs)
                      THEN Append(runs, [session |-> s, status |-> "running"]) ELSE runs
             row == [event |-> id, run |-> r]
  <2>1. \A e \in runEvents : e.event # id
    BY <1>4 DEF RowsOf
  <2>2. /\ table \in Seq(Run) /\ r \in DOMAIN table /\ table[r].session = s
        /\ \A x \in DOMAIN runs : x \in DOMAIN table /\ table[x] = runs[x]
    <3>1. [session |-> s, status |-> "running"] \in Run
      BY DEF Run
    <3>2. CASE r > Len(runs)
      <4>1. r = Len(runs) + 1
        BY <1>1, <1>2, <3>2
      <4>2. table = Append(runs, [session |-> s, status |-> "running"])
        BY <3>2
      <4> HIDE DEF r
      <4>3. QED  BY <1>1, <3>1, <4>1, <4>2, AppendProperties
    <3>3. CASE ~(r > Len(runs))
      <4>1. table = runs /\ r \in DOMAIN runs /\ runs[r].session = s
        BY <1>1, <1>2, <3>3
      <4> HIDE DEF table, r
      <4>2. QED  BY <1>1, <4>1
    <3>4. QED  BY <3>2, <3>3
  <2>3. /\ runs' = [table EXCEPT ![r].status = IF kind = "completed" THEN "completed" ELSE @]
        /\ runEvents' = IF kind \in PersistedKinds THEN runEvents \cup {row} ELSE runEvents
        /\ open' = [open EXCEPT ![s] = IF kind = "completed" THEN None ELSE r]
    BY <1>4 DEF Record
  <2> HIDE DEF r, table
  <2>4. /\ runs' \in Seq(Run) /\ DOMAIN runs' = DOMAIN table
        /\ \A x \in DOMAIN table : runs'[x].session = table[x].session
    <3>1. table[r] \in Run
      BY <2>2, ElementOfSeq
    <3>2. [table[r] EXCEPT !.status = IF kind = "completed" THEN "completed" ELSE @] \in Run
      BY <3>1 DEF Run
    <3>3. runs' = [table EXCEPT ![r] =
                     [table[r] EXCEPT !.status = IF kind = "completed" THEN "completed" ELSE @]]
      BY <2>3
    <3>4. [table[r] EXCEPT !.status = IF kind = "completed" THEN "completed" ELSE @].session
            = table[r].session
      BY <3>1 DEF Run
    <3>5. QED  BY <2>2, <3>2, <3>3, <3>4, ExceptSeq
  <2>5. \A x \in DOMAIN runs : x \in DOMAIN runs' /\ runs'[x].session = runs[x].session
    BY <2>2, <2>4
  <2>6. r \in DOMAIN runs' /\ runs'[r].session = s
    BY <2>2, <2>4
  <2>7. row \in RunRow /\ row.event = id /\ row.run = r
    BY <1>2 DEF RunRow
  <2> HIDE DEF row
  <2>8. /\ open' \in [Sessions -> Nat]
        /\ \A x \in Sessions : open'[x] # None =>
             open'[x] \in DOMAIN runs' /\ runs'[open'[x]].session = x
    <3>1. None \in Nat
      BY DEF None
    <3>2. open' \in [Sessions -> Nat]
      BY <1>1, <1>2, <2>3, <3>1
    <3>3. ASSUME NEW x \in Sessions, open'[x] # None
          PROVE  open'[x] \in DOMAIN runs' /\ runs'[open'[x]].session = x
      <4>1. CASE x = s
        BY <1>1, <2>3, <2>6, <3>3, <4>1
      <4>2. CASE x # s
        <5>1. open'[x] = open[x]
          BY <1>1, <2>3, <4>2
        <5>2. open[x] \in DOMAIN runs /\ runs[open[x]].session = x
          BY <3>3, <5>1 DEF StoreOK
        <5>3. QED  BY <2>5, <5>1, <5>2
      <4>3. QED  BY <4>1, <4>2
    <3>4. QED  BY <3>2, <3>3
  <2>9. /\ runEvents \subseteq runEvents' /\ runEvents' \subseteq runEvents \cup {row}
        /\ kind \in PersistedKinds => row \in runEvents'
    BY <2>3
  <2>10. \A e \in runEvents' : e.run \in DOMAIN runs'
    BY <2>5, <2>6, <2>7, <2>9 DEF StoreOK
  <2>11. \A e, d \in runEvents' : e.event = d.event => e = d
    BY <2>1, <2>7, <2>9 DEF StoreOK
  <2>12. runEvents' \subseteq RunRow
    BY <1>1, <2>7, <2>9
  <2>13. LedgerOK'
    BY <2>4, <2>8, <2>10, <2>11, <2>12 DEF LedgerOK
  <2>14. QED  BY <2>5, <2>6, <2>7, <2>9, <2>13 DEF r
<1>5. QED  BY <1>3, <1>4

(* Recording and capture, as far as they get.                              *)
LEMMA StoreKeeps ==
  ASSUME StoreOK, NEW id \in Nat, NEW s \in Sessions, NEW kind \in Kinds,
         NEW reach \in Reaches,
         \A e \in runEvents : e.event = id => runs[e.run].session = s,
         IF HasRecorded(reach) THEN Record(id, s, kind) ELSE UNCHANGED <<runs, runEvents, open>>,
         IF HasCaptured(reach) THEN CaptureChat(id, s, kind) ELSE UNCHANGED chat
  PROVE  /\ StoreOK' /\ TablesGrow
         /\ \A e \in runEvents' \ runEvents :
              HasRecorded(reach) /\ e.event = id /\ runs'[e.run].session = s
         /\ reach = "done" /\ kind \in PersistedKinds => \E e \in runEvents' : e.event = id
         /\ reach = "done" /\ kind \in CapturedKinds => \E c \in chat' : c.event = id
<1>1. /\ LedgerOK'
      /\ \A r \in DOMAIN runs : r \in DOMAIN runs' /\ runs'[r].session = runs[r].session
      /\ runEvents \subseteq runEvents'
      /\ \A e \in runEvents' \ runEvents :
           HasRecorded(reach) /\ e.event = id /\ runs'[e.run].session = s
  <2>1. CASE HasRecorded(reach)
    BY <2>1, RecordKeeps
  <2>2. CASE ~HasRecorded(reach)
    <3>1. UNCHANGED <<runs, runEvents, open>>
      BY <2>2
    <3>2. LedgerOK
      BY DEF LedgerOK, StoreOK, StoreTypes
    <3>3. LedgerOK'
      BY <3>1, <3>2 DEF LedgerOK
    <3>4. QED  BY <3>1, <3>3
  <2>3. QED  BY <2>1, <2>2
<1>2. chat \subseteq ChatRow
  BY DEF StoreOK, StoreTypes
<1>3. ASSUME NEW c \in chat
      PROVE  \E e \in runEvents' :
               e.event = c.event /\ e.run = c.turn /\ runs'[e.run].session = c.session
  <2>1. PICK e \in runEvents : e.event = c.event /\ e.run = c.turn /\ runs[e.run].session = c.session
    BY DEF StoreOK
  <2>2. e.run \in DOMAIN runs
    BY DEF StoreOK
  <2>3. QED  BY <1>1, <2>1, <2>2
<1>4. HasRecorded(reach) /\ kind \in PersistedKinds =>
        \E e \in runEvents' : /\ e.event = id /\ e.run = RunFor(id, s)
                              /\ runs'[e.run].session = s
  BY RecordKeeps
<1>5. /\ HasCaptured(reach) => HasRecorded(reach)
      /\ reach = "done" => HasCaptured(reach)
      /\ CapturedKinds = PersistedKinds
  BY DEF HasCaptured, HasRecorded, CapturedKinds, PersistedKinds
<1>6. CASE HasCaptured(reach) /\ kind \in CapturedKinds /\ RowsOf(chat, id) = {}
  <2> DEFINE row == [event |-> id, session |-> s, turn |-> RunFor(id, s)]
  <2>1. chat' = chat \cup {row}
    BY <1>6 DEF CaptureChat
  <2>2. RunFor(id, s) \in Nat
    <3>1. Len(runs) \in Nat
      BY DEF StoreOK, StoreTypes
    <3>2. RunFor(id, s) \in 1..(Len(runs) + 1)
      BY RunForOf
    <3>3. QED  BY <3>1, <3>2
  <2>3. row \in ChatRow /\ row.event = id /\ row.session = s /\ row.turn = RunFor(id, s)
    BY <2>2 DEF ChatRow
  <2> HIDE DEF row
  <2>4. \A c \in chat : c.event # id
    BY <1>6 DEF RowsOf
  <2>5. chat' \subseteq ChatRow /\ \A c, d \in chat' : c.event = d.event => c = d
    BY <1>2, <2>1, <2>3, <2>4 DEF StoreOK
  <2>6. \E e \in runEvents' :
          e.event = row.event /\ e.run = row.turn /\ runs'[e.run].session = row.session
    BY <1>4, <1>5, <1>6, <2>3
  <2>7. \A c \in chat' : \E e \in runEvents' :
          e.event = c.event /\ e.run = c.turn /\ runs'[e.run].session = c.session
    BY <1>3, <2>1, <2>6
  <2>8. StoreOK'
    BY <1>1, <2>5, <2>7 DEF LedgerOK, StoreOK, StoreTypes
  <2>9. QED  BY <1>1, <1>4, <1>5, <1>6, <2>1, <2>3, <2>8 DEF TablesGrow
<1>7. CASE ~(HasCaptured(reach) /\ kind \in CapturedKinds /\ RowsOf(chat, id) = {})
  <2>1. chat' = chat
    BY <1>7 DEF CaptureChat
  <2>2. chat' \subseteq ChatRow /\ \A c, d \in chat' : c.event = d.event => c = d
    BY <1>2, <2>1 DEF StoreOK
  <2>3. StoreOK'
    BY <1>1, <1>3, <2>1, <2>2 DEF LedgerOK, StoreOK, StoreTypes
  <2>4. HasCaptured(reach) /\ kind \in CapturedKinds => \E c \in chat' : c.event = id
    BY <1>7, <2>1 DEF RowsOf
  <2>5. QED  BY <1>1, <1>4, <1>5, <2>1, <2>3, <2>4 DEF TablesGrow
<1>8. QED  BY <1>6, <1>7

-----------------------------------------------------------------------------
(* Attribution.                                                            *)

(* The registry's past and the events are only added to.                   *)
HistoryGrows ==
  /\ \A i \in DOMAIN opened : i \in DOMAIN opened' /\ opened'[i] = opened[i]
  /\ \A id \in DOMAIN events : id \in DOMAIN events' /\ events'[id] = events[id]

(* An element of a sequence, and its place.                                *)
LEMMA ElementsOf ==
  ASSUME NEW S, NEW q \in Seq(S), NEW i \in DOMAIN q
  PROVE  q[i] \in S /\ i \in Nat /\ i # 0
<1>1. i \in 1..Len(q) /\ Len(q) \in Nat
  OBVIOUS
<1>2. QED  BY <1>1, ElementOfSeq

(* An entry an event may belong to is one as long as the history grows.    *)
LEMMA CandidatesStay ==
  ASSUME HistoryGrows, NEW id \in DOMAIN events, NEW i \in Candidates(id)
  PROVE  i \in Candidates(id)' /\ opened'[i] = opened[i]
  BY DEF HistoryGrows, Candidates

(* An entry that can be proven to own an event of this host is on its      *)
(* handle, no older than the sender and no younger than the event.         *)
LEMMA ResolvedIsCandidate ==
  ASSUME HostTypes, RegistryOK, EventsOK, NEW id \in DOMAIN events,
         events[id].host = hostEpoch,
         Resolve(events[id].handle, events[id].observed) # None
  PROVE  Resolve(events[id].handle, events[id].observed) \in Candidates(id)
<1>1. events[id] \in Event /\ events[id].handle \in Handles
  <2>1. events[id] \in Event
    BY ElementsOf DEF HostTypes
  <2>2. QED  BY <2>1 DEF Event
<1>2. /\ Resolve(events[id].handle, events[id].observed) = registry[events[id].handle]
      /\ registry[events[id].handle] <= events[id].observed
      /\ registry[events[id].handle] # None
  BY DEF Resolve
<1>3. events[id].entry <= registry[events[id].handle]
  BY <1>2 DEF EventsOK, SentEarlier
<1>4. QED  BY <1>1, <1>2, <1>3 DEF RegistryOK, Candidates

(* Binding, recording, capturing and acknowledging an event, as far as     *)
(* they get, for an owner that is a candidate: box is the inbox they start *)
(* from, which holds a row of the event without owner or with this one.    *)
LEMMA CaptureKeeps ==
  ASSUME IInv, HistoryGrows, opened' = opened, events' \in Seq(Event),
         NEW id \in DOMAIN events', NEW owner \in Candidates(id)', NEW reach \in Reaches,
         NEW box, box \subseteq Held,
         \A row \in box :
           /\ row.id \in DOMAIN events'
           /\ row.epoch = events'[row.id].host
           /\ row.owner # None => row.owner \in Candidates(row.id)'
           /\ \A e \in runEvents : e.event = row.id =>
                row.owner # None /\ runs[e.run].session = opened[row.owner].session,
         \A row, other \in box : row.id = other.id => row = other,
         NEW mine \in box, mine.id = id, mine.owner = None \/ mine.owner = owner,
         Capture(events'[id], id, owner, reach, box)
  PROVE  /\ StoreOK' /\ TablesGrow /\ InboxOK' /\ Attributed' /\ inbox' \subseteq Held
         /\ \A row \in box : row.id # id => row \in inbox'
         /\ \A row \in box : InInbox(row.id)' \/ (row.id = id /\ Kept(id)')
<1> DEFINE s == opened[owner].session
           kind == events'[id].kind
<1>1. /\ id \in Nat /\ events'[id] \in Event /\ kind \in Kinds
  <2>1. id \in Nat /\ events'[id] \in Event
    BY ElementsOf
  <2>2. QED  BY <2>1 DEF Event
<1>2. owner \in DOMAIN opened /\ owner \in Nat /\ owner # None /\ s \in Sessions
  <2>1. owner \in DOMAIN opened
    BY DEF Candidates
  <2>2. opened \in Seq(Entry)
    BY DEF IInv, HostTypes
  <2>3. owner \in Nat /\ owner # 0 /\ opened[owner] \in Entry
    BY <2>1, <2>2, ElementsOf
  <2>4. QED  BY <2>1, <2>3 DEF Entry, None
<1>3. \A e \in runEvents : e.event = id => runs[e.run].session = s
  BY <1>2
<1>4. /\ IF HasRecorded(reach) THEN Record(id, s, kind) ELSE UNCHANGED <<runs, runEvents, open>>
      /\ IF HasCaptured(reach) THEN CaptureChat(id, s, kind) ELSE UNCHANGED chat
  BY DEF Capture
<1>5. inbox' = CASE reach = "unbound" -> box
                 [] reach = "done"    -> Without(box, id)
                 [] OTHER             -> Bound(box, id, owner)
  BY DEF Capture
<1>6. StoreOK
  BY DEF IInv
<1> HIDE DEF s, kind
<1>7. /\ StoreOK' /\ TablesGrow
      /\ \A e \in runEvents' \ runEvents :
           HasRecorded(reach) /\ e.event = id /\ runs'[e.run].session = s
      /\ reach = "done" /\ kind \in PersistedKinds => \E e \in runEvents' : e.event = id
      /\ reach = "done" /\ kind \in CapturedKinds => \E c \in chat' : c.event = id
  BY <1>1, <1>2, <1>3, <1>4, <1>6, StoreKeeps
<1>8. \A e \in runEvents : e.run \in DOMAIN runs /\ runs'[e.run].session = runs[e.run].session
  BY <1>6, <1>7 DEF StoreOK, TablesGrow
<1>9. Attributed'
  <2> SUFFICES ASSUME NEW e \in runEvents'
               PROVE  /\ e.event \in DOMAIN events'
                      /\ \E i \in Candidates(e.event)' : opened'[i].session = runs'[e.run].session
    BY DEF Attributed
  <2>1. CASE e \in runEvents
    <3>1. e.event \in DOMAIN events
      BY <2>1 DEF IInv, Attributed
    <3>2. PICK i \in Candidates(e.event) : opened[i].session = runs[e.run].session
      BY <2>1 DEF IInv, Attributed
    <3>3. i \in Candidates(e.event)' /\ e.event \in DOMAIN events'
      BY <3>1, <3>2, CandidatesStay DEF HistoryGrows
    <3>4. QED  BY <1>8, <2>1, <3>2, <3>3
  <2>2. CASE e \notin runEvents
    <3>1. e.event = id /\ runs'[e.run].session = s
      BY <1>7, <2>2
    <3>2. QED  BY <3>1 DEF s
  <2>3. QED  BY <2>1, <2>2
<1>10. ASSUME NEW row \in box, row.id # id
       PROVE  HeldOK(row)'
  <2>1. \A e \in runEvents' : e.event = row.id => e \in runEvents
    BY <1>7, <1>10
  <2>2. QED  BY <1>8, <2>1 DEF HeldOK
<1>11. ASSUME NEW row \in box, row.id = id
       PROVE  row = mine
  BY <1>11
<1>12. CASE reach = "unbound"
  <2>1. inbox' = box /\ runEvents' = runEvents
    BY <1>5, <1>7, <1>12 DEF HasRecorded, TablesGrow
  <2>2. \A row \in inbox' : HeldOK(row)'
    BY <1>8, <2>1 DEF HeldOK
  <2>3. InboxOK'
    BY <2>1, <2>2 DEF InboxOK
  <2>4. QED  BY <1>7, <1>9, <2>1, <2>3 DEF InInbox
<1>13. CASE reach = "done"
  <2>1. inbox' = {row \in box : row.id # id}
    BY <1>5, <1>13 DEF Without
  <2>2. InboxOK'
    BY <1>10, <2>1 DEF InboxOK
  <2>3. Kept(id)'
    <3>1. /\ kind \in PersistedKinds => RowsOf(runEvents, id)' # {}
          /\ kind \in CapturedKinds => RowsOf(chat, id)' # {}
      BY <1>7, <1>13 DEF RowsOf
    <3>2. QED  BY <3>1 DEF Kept, kind
  <2>4. \A row \in box : row.id # id => row \in inbox' /\ InInbox(row.id)'
    BY <2>1 DEF InInbox
  <2>5. QED  BY <1>7, <1>9, <2>1, <2>2, <2>3, <2>4
<1>14. CASE reach # "unbound" /\ reach # "done"
  <2> DEFINE now == [mine EXCEPT !.owner = owner]
  <2>1. inbox' = {IF row.id = id THEN [row EXCEPT !.owner = owner] ELSE row : row \in box}
    BY <1>5, <1>14 DEF Bound
  <2>2. /\ now \in Held /\ now.id = id /\ now.owner = owner /\ now.epoch = mine.epoch
    BY <1>2 DEF Held
  <2>3. /\ now \in inbox'
        /\ \A row \in box : row.id # id => row \in inbox'
        /\ \A row \in inbox' : row = now \/ (row \in box /\ row.id # id)
    BY <1>11, <2>1
  <2> HIDE DEF now
  <2>4. HeldOK(now)'
    <3>1. \A e \in runEvents' : e.event = id => runs'[e.run].session = s
      BY <1>3, <1>7, <1>8
    <3>2. QED  BY <1>2, <2>2, <3>1 DEF HeldOK, s
  <2>5. \A row \in inbox' : HeldOK(row)'
    BY <1>10, <2>3, <2>4
  <2>6. \A row, other \in inbox' : row.id = other.id => row = other
    BY <2>2, <2>3
  <2>7. inbox' \subseteq Held
    BY <2>2, <2>3
  <2>8. \A row \in box : InInbox(row.id)'
    <3> SUFFICES ASSUME NEW row \in box PROVE \E q \in inbox' : q.id = row.id
      BY DEF InInbox
    <3>1. CASE row.id = id
      BY <2>2, <2>3, <3>1
    <3>2. CASE row.id # id
      BY <2>3, <3>2
    <3>3. QED  BY <3>1, <3>2
  <2>9. QED  BY <1>7, <1>9, <2>3, <2>5, <2>6, <2>7, <2>8 DEF InboxOK
<1>15. QED  BY <1>12, <1>13, <1>14

(* What is kept stays kept, and a loss stays announced while its process   *)
(* lives.                                                                  *)
LEMMA LossKeeps ==
  ASSUME IInv, HistoryGrows, TablesGrow, gap' \in BOOLEAN,
         \/ hostEpoch' = hostEpoch /\ (gap => gap')
         \/ hostEpoch' = hostEpoch + 1 /\ DOMAIN events' = DOMAIN events,
         \A row \in inbox : InInbox(row.id)' \/ Kept(row.id)',
         \A id \in DOMAIN events' \ DOMAIN events :
           IF events'[id].accepted THEN InInbox(id)' \/ Kept(id)' ELSE gap'
  PROVE  NothingLost'
<1> SUFFICES ASSUME NEW id \in DOMAIN events'
             PROVE  IF events'[id].accepted THEN InInbox(id)' \/ Kept(id)'
                    ELSE events'[id].host = hostEpoch' => gap'
  BY DEF NothingLost, EventIds
<1>1. CASE id \notin DOMAIN events
  BY <1>1
<1>2. CASE id \in DOMAIN events
  <2>1. events'[id] = events[id]
    BY <1>2 DEF HistoryGrows
  <2>2. CASE events[id].accepted
    <3>1. InInbox(id) \/ Kept(id)
      BY <1>2, <2>2 DEF IInv, NothingLost, EventIds
    <3>2. CASE InInbox(id)
      BY <2>1, <2>2, <3>2 DEF InInbox
    <3>3. CASE Kept(id)
      <4>1. RowsOf(runEvents, id) \subseteq RowsOf(runEvents, id)'
        BY DEF RowsOf, TablesGrow
      <4>2. RowsOf(chat, id) \subseteq RowsOf(chat, id)'
        BY DEF RowsOf, TablesGrow
      <4>3. Kept(id)'
        BY <2>1, <3>3, <4>1, <4>2 DEF Kept
      <4>4. QED  BY <2>1, <2>2, <4>3
    <3>4. QED  BY <3>1, <3>2, <3>3
  <2>3. CASE ~events[id].accepted
    <3>1. events[id].host = hostEpoch => gap
      BY <1>2, <2>3 DEF IInv, NothingLost, EventIds
    <3>2. CASE hostEpoch' = hostEpoch /\ (gap => gap')
      BY <2>1, <2>3, <3>1, <3>2
    <3>3. CASE hostEpoch' = hostEpoch + 1
      <4>1. events[id] \in Event /\ hostEpoch \in Nat
        BY <1>2, ElementsOf DEF IInv, HostTypes
      <4>2. events[id].host <= hostEpoch /\ events[id].host \in Nat
        BY <1>2, <4>1 DEF IInv, EventsOK, Event
      <4>3. QED  BY <2>1, <2>3, <3>3, <4>1, <4>2
    <3>4. QED  BY <3>2, <3>3
  <2>4. QED  BY <2>2, <2>3
<1>3. QED  BY <1>1, <1>2

-----------------------------------------------------------------------------
(* Steps that leave the inbox and the rows of events alone.                *)
LEMMA InboxUntouched ==
  ASSUME IInv, HistoryGrows, events' = events, inbox' = inbox,
         runEvents' = runEvents, chat' = chat,
         \A r \in DOMAIN runs : r \in DOMAIN runs' /\ runs'[r].session = runs[r].session
  PROVE  InboxOK' /\ Attributed' /\ TablesGrow
         /\ \A row \in inbox : InInbox(row.id)' \/ Kept(row.id)'
<1>1. \A e \in runEvents : e.run \in DOMAIN runs /\ runs'[e.run].session = runs[e.run].session
  BY DEF IInv, StoreOK
<1>2. ASSUME NEW row \in inbox PROVE HeldOK(row)'
  <2>1. HeldOK(row)
    BY DEF IInv, InboxOK
  <2>2. row.id \in DOMAIN events
    BY <2>1 DEF HeldOK
  <2>3. row.owner # None => row.owner \in Candidates(row.id)' /\ opened'[row.owner] = opened[row.owner]
    BY <2>1, <2>2, CandidatesStay DEF HeldOK
  <2>4. QED  BY <1>1, <2>1, <2>3 DEF HeldOK
<1>3. InboxOK'
  BY <1>2 DEF IInv, InboxOK
<1>4. Attributed'
  <2> SUFFICES ASSUME NEW e \in runEvents
               PROVE  /\ e.event \in DOMAIN events
                      /\ \E i \in Candidates(e.event)' : opened'[i].session = runs'[e.run].session
    BY DEF Attributed
  <2>1. e.event \in DOMAIN events
    BY DEF IInv, Attributed
  <2>2. PICK i \in Candidates(e.event) : opened[i].session = runs[e.run].session
    BY DEF IInv, Attributed
  <2>3. i \in Candidates(e.event)' /\ opened'[i] = opened[i]
    BY <2>1, <2>2, CandidatesStay
  <2>4. QED  BY <1>1, <2>1, <2>2, <2>3
<1>5. TablesGrow
  BY DEF TablesGrow
<1>6. QED  BY <1>3, <1>4, <1>5 DEF InInbox

(* What the host does alone leaves the store as it is.                     *)
LEMMA StoreUntouched ==
  ASSUME StoreOK, UNCHANGED storeVars
  PROVE  StoreOK'
  BY DEF StoreOK, StoreTypes, storeVars

(* The host moves on its own: what it sends, and what it forgets.          *)
LEMMA HostKeeps ==
  ASSUME IInv, NEW h \in Handles,
         \/ \E s \in Sessions, key \in BOOLEAN : HostOpen(h, s, key)
         \/ HostKey(h) \/ HostClose(h) \/ \E kind \in Kinds : HostEmit(h, kind)
  PROVE  IInv'
<1>1. /\ UNCHANGED <<hostEpoch, events, inbox, pass, gap>>
      /\ UNCHANGED storeVars
  BY DEF HostOpen, HostKey, HostClose, HostEmit, hostVars
<1>2. UNCHANGED <<open, runs, runEvents, chat>>
  BY <1>1 DEF storeVars
<1>3. /\ opened \in Seq(Entry) /\ Len(opened) \in Nat /\ DOMAIN opened = 1..Len(opened)
      /\ wire \in Seq(Sent) /\ Len(wire) \in Nat /\ DOMAIN wire = 1..Len(wire)
      /\ registry \in [Handles -> Nat] /\ hostEpoch \in Nat /\ events \in Seq(Event)
  BY DEF IInv, HostTypes
<1>4. /\ \A id \in DOMAIN events : events[id] \in Event
      /\ \A i \in DOMAIN wire : wire[i] \in Sent
  BY <1>3, ElementsOf
<1>5. /\ opened' \in Seq(Entry) /\ registry' \in [Handles -> Nat] /\ wire' \in Seq(Sent)
      /\ \A i \in DOMAIN opened : i \in DOMAIN opened' /\ opened'[i] = opened[i]
      /\ RegistryOK' /\ WireOK' /\ EventsOK' /\ (wire # <<>> => wire' # <<>>)
  <2>1. CASE \E s \in Sessions, key \in BOOLEAN : HostOpen(h, s, key)
    <3>1. PICK s \in Sessions, key \in BOOLEAN : HostOpen(h, s, key)
      BY <2>1
    <3> DEFINE entry == [session |-> s, handle |-> h, host |-> hostEpoch]
               n == Len(opened) + 1
    <3>2. /\ registry[h] = None /\ wire' = wire
          /\ opened' = Append(opened, entry) /\ registry' = [registry EXCEPT ![h] = n]
      BY <3>1 DEF HostOpen
    <3>3. entry \in Entry /\ entry.handle = h /\ entry.host = hostEpoch
      BY <1>3 DEF Entry
    <3> HIDE DEF entry
    <3>4. /\ opened' \in Seq(Entry) /\ Len(opened') = n /\ n \in Nat /\ n # None
          /\ DOMAIN opened' = 1..n /\ opened'[n] = entry
          /\ \A i \in DOMAIN opened : i \in DOMAIN opened' /\ opened'[i] = opened[i]
      BY <1>3, <3>2, <3>3, AppendProperties DEF None
    <3>5. registry' \in [Handles -> Nat]
      BY <1>3, <3>2, <3>4
    <3>6. RegistryOK'
      <4> SUFFICES ASSUME NEW x \in Handles, registry'[x] # None
                   PROVE  /\ registry'[x] \in DOMAIN opened'
                          /\ opened'[registry'[x]].handle = x
                          /\ opened'[registry'[x]].host = hostEpoch
        BY <1>1 DEF RegistryOK
      <4>1. CASE x = h
        BY <1>3, <3>2, <3>3, <3>4, <4>1
      <4>2. CASE x # h
        <5>1. registry'[x] = registry[x]
          BY <1>3, <3>2, <4>2
        <5>2. QED  BY <3>4, <5>1 DEF IInv, RegistryOK
      <4>3. QED  BY <4>1, <4>2
    <3>7. ASSUME NEW x \in Handles, NEW e \in Nat, SentEarlier(e, x)
          PROVE  SentEarlier(e, x)'
      <4>1. e <= Len(opened) /\ Len(opened') = Len(opened) + 1
        BY <3>4, <3>7 DEF SentEarlier
      <4>2. CASE x = h
        <5>1. registry'[x] = n
          BY <1>3, <3>2, <4>2
        <5>2. QED  BY <1>3, <4>1, <5>1 DEF SentEarlier
      <4>3. CASE x # h
        <5>1. registry'[x] = registry[x]
          BY <1>3, <3>2, <4>3
        <5>2. QED  BY <1>3, <3>7, <4>1, <5>1 DEF SentEarlier
      <4>4. QED  BY <4>2, <4>3
    <3>8. WireOK'
      BY <1>4, <3>2, <3>7 DEF IInv, WireOK, Sent
    <3>9. EventsOK'
      <4> SUFFICES ASSUME NEW id \in DOMAIN events
                   PROVE  /\ events[id].observed <= Len(opened')
                          /\ events[id].host <= hostEpoch
                          /\ events[id].host = hostEpoch =>
                               SentEarlier(events[id].entry, events[id].handle)'
        BY <1>1 DEF EventsOK
      <4>1. events[id].observed \in Nat /\ events[id].handle \in Handles /\ events[id].entry \in Nat
        BY <1>4 DEF Event
      <4>2. events[id].observed <= Len(opened)
        BY DEF IInv, EventsOK
      <4>3. events[id].observed <= Len(opened')
        BY <1>3, <3>4, <4>1, <4>2
      <4>4. /\ events[id].host <= hostEpoch
            /\ events[id].host = hostEpoch => SentEarlier(events[id].entry, events[id].handle)
        BY DEF IInv, EventsOK
      <4>5. PICK e \in Nat, x \in Handles : e = events[id].entry /\ x = events[id].handle
        BY <4>1
      <4>6. SentEarlier(e, x) => SentEarlier(e, x)'
        BY <3>7
      <4>7. events'[id].entry = e /\ events'[id].handle = x
        BY <1>1, <4>5
      <4>8. QED  BY <4>3, <4>4, <4>5, <4>6, <4>7
    <3>10. QED  BY <1>3, <3>2, <3>4, <3>5, <3>6, <3>8, <3>9
  <2>2. CASE HostKey(h)
    <3>1. UNCHANGED <<opened, registry, wire>>
      BY <2>2 DEF HostKey
    <3>2. QED
      BY <1>1, <1>3, <3>1 DEF IInv, RegistryOK, WireOK, EventsOK, SentEarlier
  <2>3. CASE HostClose(h)
    <3>1. UNCHANGED <<opened, wire>> /\ registry' = [registry EXCEPT ![h] = None]
      BY <2>3 DEF HostClose
    <3>2. registry' \in [Handles -> Nat] /\ \A x \in Handles : registry'[x] \in {registry[x], None}
      BY <1>3, <3>1 DEF None
    <3>3. RegistryOK'
      BY <1>1, <3>1, <3>2 DEF IInv, RegistryOK
    <3>4. \A x \in Handles, e \in Nat : SentEarlier(e, x) => SentEarlier(e, x)'
      BY <3>1, <3>2 DEF SentEarlier
    <3>5. WireOK'
      BY <1>4, <3>1, <3>4 DEF IInv, WireOK, Sent
    <3>6. EventsOK'
      BY <1>1, <1>4, <3>1, <3>4 DEF IInv, EventsOK, Event
    <3>7. QED  BY <1>3, <3>1, <3>2, <3>3, <3>5, <3>6
  <2>4. CASE \E kind \in Kinds : HostEmit(h, kind)
    <3>1. PICK kind \in Kinds : HostEmit(h, kind)
      BY <2>4
    <3> DEFINE frame == [handle |-> h, entry |-> registry[h], kind |-> kind, received |-> Len(opened)]
    <3>2. UNCHANGED <<opened, registry>> /\ wire' = Append(wire, frame) /\ registry[h] # None
      BY <3>1 DEF HostEmit, hostVars
    <3>3. frame \in Sent /\ frame.handle = h /\ frame.entry = registry[h]
      BY <1>3 DEF Sent
    <3> HIDE DEF frame
    <3>4. /\ wire' \in Seq(Sent) /\ Len(wire') = Len(wire) + 1 /\ wire'[Len(wire) + 1] = frame
          /\ \A i \in 1..Len(wire) : wire'[i] = wire[i]
      BY <1>3, <3>2, <3>3, AppendProperties
    <3>5. SentEarlier(registry[h], h)
      BY <1>3, <3>2 DEF SentEarlier, IInv, RegistryOK
    <3>6. WireOK'
      <4> SUFFICES ASSUME NEW i \in DOMAIN wire'
                   PROVE  SentEarlier(wire'[i].entry, wire'[i].handle)
        BY <3>2 DEF WireOK, SentEarlier
      <4>1. i \in 1..(Len(wire) + 1)
        BY <3>4
      <4>2. CASE i = Len(wire) + 1
        BY <3>3, <3>4, <3>5, <4>2
      <4>3. CASE i # Len(wire) + 1
        <5>1. i \in DOMAIN wire /\ wire'[i] = wire[i]
          BY <1>3, <3>4, <4>1, <4>3
        <5>2. QED  BY <5>1 DEF IInv, WireOK
      <4>4. QED  BY <4>2, <4>3
    <3>7. wire' # <<>>
      BY <1>3, <3>4
    <3>8. QED
      BY <1>1, <1>3, <3>2, <3>4, <3>6, <3>7 DEF IInv, RegistryOK, EventsOK, SentEarlier
  <2>5. QED  BY <2>1, <2>2, <2>3, <2>4
<1>6. HistoryGrows
  BY <1>1, <1>5 DEF HistoryGrows
<1>7. InboxOK' /\ Attributed' /\ TablesGrow
      /\ \A row \in inbox : InInbox(row.id)' \/ Kept(row.id)'
  BY <1>1, <1>2, <1>6, InboxUntouched
<1>8. NothingLost'
  BY <1>1, <1>6, <1>7, LossKeeps DEF IInv, NothingLost
<1>9. StoreOK'
  BY <1>1, StoreUntouched DEF IInv
<1>10. HostTypes' /\ PassOK'
  BY <1>1, <1>5 DEF IInv, HostTypes, PassOK
<1>11. QED  BY <1>5, <1>7, <1>8, <1>9, <1>10 DEF IInv

(* A page of the inbox is read, a row of it is passed over, a pass ends.   *)
LEMMA PassKeeps ==
  ASSUME IInv,
         \/ \E by \in {"timer", "pump"}, failed \in BOOLEAN : StartPass(by, failed)
         \/ \E row \in pass.todo, failed \in BOOLEAN : SkipRow(row, failed)
         \/ EndPass
  PROVE  IInv'
<1>1. UNCHANGED <<hostEpoch, opened, registry, wire, events, inbox>> /\ UNCHANGED storeVars
  BY DEF StartPass, SkipRow, EndPass, hostVars
<1>2. UNCHANGED <<open, runs, runEvents, chat>>
  BY <1>1 DEF storeVars
<1>3. gap' \in BOOLEAN /\ (gap => gap')
  <2>1. gap \in BOOLEAN
    BY DEF IInv, NothingLost
  <2>2. CASE \E failed \in BOOLEAN : Fails(failed)
    BY <2>1, <2>2 DEF Fails
  <2>3. CASE EndPass
    BY <2>1, <2>3 DEF EndPass
  <2>4. QED  BY <2>2, <2>3 DEF StartPass, SkipRow
<1>4. pass' \in [by : {"none", "timer", "pump"}, todo : SUBSET Held] /\ PassOK'
  <2>1. CASE \E by \in {"timer", "pump"}, failed \in BOOLEAN : StartPass(by, failed)
    <3>1. PICK by \in {"timer", "pump"}, failed \in BOOLEAN : StartPass(by, failed)
      BY <2>1
    <3> DEFINE page == IF failed THEN {} ELSE Pending(cursor)
    <3>2. pass' = [by |-> by, todo |-> page] /\ (by = "pump" => wire # <<>>)
      BY <3>1 DEF StartPass
    <3>3. page \subseteq inbox /\ \A row \in page : row.epoch = hostEpoch \/ row.owner # None
      BY DEF Pending, Page, Behind
    <3> HIDE DEF page
    <3>4. inbox \subseteq Held
      BY DEF IInv, HostTypes
    <3>5. QED  BY <1>1, <3>2, <3>3, <3>4 DEF PassOK
  <2>2. CASE \E row \in pass.todo, failed \in BOOLEAN : SkipRow(row, failed)
    <3>1. PICK row \in pass.todo : pass' = [pass EXCEPT !.todo = @ \ {row}]
      BY <2>2 DEF SkipRow, Turns
    <3>2. pass \in [by : {"none", "timer", "pump"}, todo : SUBSET Held] /\ PassOK
      BY DEF IInv, HostTypes
    <3>3. pass'.by = pass.by /\ pass'.todo = pass.todo \ {row}
      BY <3>1, <3>2
    <3>4. QED  BY <1>1, <3>1, <3>2, <3>3 DEF PassOK
  <2>3. CASE EndPass
    BY <1>1, <2>3 DEF EndPass, NoPass, PassOK
  <2>4. QED  BY <2>1, <2>2, <2>3
<1>5. HistoryGrows
  BY <1>1 DEF HistoryGrows
<1>6. InboxOK' /\ Attributed' /\ TablesGrow
      /\ \A row \in inbox : InInbox(row.id)' \/ Kept(row.id)'
  BY <1>1, <1>2, <1>5, InboxUntouched
<1>7. NothingLost'
  BY <1>1, <1>3, <1>5, <1>6, LossKeeps
<1>8. StoreOK'
  BY <1>1, StoreUntouched DEF IInv
<1>9. HostTypes' /\ RegistryOK' /\ WireOK' /\ EventsOK'
  BY <1>1, <1>4 DEF IInv, HostTypes, RegistryOK, WireOK, EventsOK, SentEarlier
<1>10. QED  BY <1>4, <1>6, <1>7, <1>8, <1>9 DEF IInv

(* A row of the page is captured, as far as that gets.                     *)
LEMMA ReplayKeeps ==
  ASSUME IInv, NEW row \in pass.todo, NEW reach \in Reaches, ReplayRow(row, reach)
  PROVE  IInv'
<1>1. UNCHANGED <<hostEpoch, opened, registry, wire, events>>
  BY DEF ReplayRow, hostVars
<1>2. /\ row \in inbox /\ row \in Held /\ HeldOK(row) /\ inbox \subseteq Held
      /\ row.epoch = hostEpoch \/ row.owner # None
  BY DEF IInv, HostTypes, PassOK, InboxOK
<1> DEFINE id == row.id
           owner == IF row.owner # None THEN row.owner
                    ELSE Resolve(events[id].handle, events[id].observed)
<1>3. HistoryGrows
  BY <1>1 DEF HistoryGrows
<1>4. id \in DOMAIN events' /\ events' \in Seq(Event)
  BY <1>1, <1>2 DEF HeldOK, IInv, HostTypes
<1>5. owner \in Candidates(id)
  <2>1. owner # None
    BY DEF ReplayRow
  <2>2. CASE row.owner # None
    BY <1>2, <2>2 DEF HeldOK
  <2>3. CASE row.owner = None
    <3>1. events[id].host = hostEpoch
      BY <1>2, <2>3 DEF HeldOK
    <3>2. owner = Resolve(events[id].handle, events[id].observed)
      BY <2>3
    <3>3. id \in DOMAIN events
      BY <1>2 DEF HeldOK
    <3> HIDE DEF id, owner
    <3>4. QED  BY <2>1, <3>1, <3>2, <3>3, ResolvedIsCandidate DEF IInv
  <2>4. QED  BY <2>2, <2>3
<1>6. owner \in Candidates(id)'
  <2>1. id \in DOMAIN events
    BY <1>1, <1>4
  <2> HIDE DEF id, owner
  <2>2. QED  BY <1>3, <1>5, <2>1, CandidatesStay
<1>7. ASSUME NEW r \in inbox
      PROVE  /\ r.id \in DOMAIN events'
             /\ r.epoch = events'[r.id].host
             /\ r.owner # None => r.owner \in Candidates(r.id)'
             /\ \A e \in runEvents : e.event = r.id =>
                  r.owner # None /\ runs[e.run].session = opened[r.owner].session
  <2>1. HeldOK(r)
    BY DEF IInv, InboxOK
  <2>2. r.owner # None => r.owner \in Candidates(r.id)'
    BY <1>3, <2>1, CandidatesStay DEF HeldOK
  <2>3. QED  BY <1>1, <2>1, <2>2 DEF HeldOK
<1>8. \A r, other \in inbox : r.id = other.id => r = other
  BY DEF IInv, InboxOK
<1>9. row.id = id /\ (row.owner = None \/ row.owner = owner)
  OBVIOUS
<1>10. /\ Capture(events'[id], id, owner, reach, inbox)
       /\ Fails(reach # "done") /\ pass' = [pass EXCEPT !.todo = @ \ {row}]
  BY <1>1 DEF ReplayRow, Turns
<1> HIDE DEF id, owner
<1>11. /\ StoreOK' /\ TablesGrow /\ InboxOK' /\ Attributed' /\ inbox' \subseteq Held
       /\ \A r \in inbox : r.id # id => r \in inbox'
       /\ \A r \in inbox : InInbox(r.id)' \/ (r.id = id /\ Kept(id)')
  BY <1>1, <1>2, <1>3, <1>4, <1>6, <1>7, <1>8, <1>9, <1>10, CaptureKeeps
<1>12. gap' \in BOOLEAN /\ (gap => gap')
  BY <1>10 DEF Fails, IInv, NothingLost
<1>13. NothingLost'
  <2>1. \A r \in inbox : InInbox(r.id)' \/ Kept(r.id)'
    BY <1>11
  <2>2. QED  BY <1>1, <1>3, <1>11, <1>12, <2>1, LossKeeps
<1>14. pass' \in [by : {"none", "timer", "pump"}, todo : SUBSET Held] /\ PassOK'
  <2>1. pass \in [by : {"none", "timer", "pump"}, todo : SUBSET Held] /\ PassOK
    BY DEF IInv, HostTypes
  <2>2. pass'.by = pass.by /\ pass'.todo = pass.todo \ {row}
    BY <1>10, <2>1
  <2>3. ASSUME NEW r \in pass'.todo PROVE r \in inbox' /\ (r.epoch = hostEpoch \/ r.owner # None)
    <3>1. r \in pass.todo /\ r # row /\ r \in inbox
      BY <2>1, <2>2 DEF PassOK
    <3>2. r.id # id
      BY <1>2, <1>8, <1>9, <3>1
    <3>3. QED  BY <1>11, <2>1, <3>1, <3>2 DEF PassOK
  <2>4. pass' \in [by : {"none", "timer", "pump"}, todo : SUBSET Held]
    BY <1>10, <2>1
  <2>5. QED  BY <1>1, <2>1, <2>2, <2>3, <2>4 DEF PassOK
<1>15. HostTypes' /\ RegistryOK' /\ WireOK' /\ EventsOK'
  <2>1. inbox' \subseteq Held
    BY <1>11
  <2>2. QED
    BY <1>1, <1>14, <2>1 DEF IInv, HostTypes, RegistryOK, WireOK, EventsOK, SentEarlier
<1>16. QED  BY <1>11, <1>13, <1>14, <1>15 DEF IInv

-----------------------------------------------------------------------------
(* Forwarding: a frame becomes an event.                                   *)
LEMMA ForwardingKeeps ==
  ASSUME IInv, NEW accepted \in BOOLEAN, Forwarding(accepted)
  PROVE  /\ UNCHANGED <<hostEpoch, opened, registry>>
         /\ HistoryGrows /\ NewId \notin DOMAIN events /\ NewId \in Nat
         /\ events' \in Seq(Event) /\ DOMAIN events' = DOMAIN events \cup {NewId}
         /\ events'[NewId] = Arrived(accepted) /\ Head(wire).handle \in Handles
         /\ Arrived(accepted).handle = Head(wire).handle
         /\ Arrived(accepted).host = hostEpoch /\ Arrived(accepted).accepted = accepted
         /\ SentEarlier(Head(wire).entry, Head(wire).handle)
         /\ wire' \in Seq(Sent) /\ RegistryOK' /\ WireOK' /\ EventsOK'
         /\ pass' \in [by : {"none", "timer", "pump"}, todo : SUBSET Held] /\ PassOK'
<1>1. /\ UNCHANGED <<hostEpoch, opened, registry>> /\ pass.by = "pump" /\ pass' = NoPass
      /\ events' = Append(events, Arrived(accepted)) /\ wire' = Tail(wire)
  BY DEF Forwarding, hostVars
<1>2. /\ wire \in Seq(Sent) /\ wire # <<>> /\ Len(wire) \in Nat /\ DOMAIN wire = 1..Len(wire)
      /\ events \in Seq(Event) /\ Len(events) \in Nat /\ DOMAIN events = 1..Len(events)
      /\ Len(opened) \in Nat /\ hostEpoch \in Nat
  BY <1>1 DEF IInv, HostTypes, PassOK
<1>3. /\ Head(wire) = wire[1] /\ 1 \in DOMAIN wire /\ Head(wire) \in Sent
      /\ Tail(wire) \in Seq(Sent) /\ Len(Tail(wire)) = Len(wire) - 1
      /\ \A i \in 1..Len(Tail(wire)) : Tail(wire)[i] = wire[i + 1]
  <2>1. Len(wire) # 0
    BY <1>2
  <2>2. QED  BY <1>2, <2>1, HeadTailProperties
<1>4. SentEarlier(Head(wire).entry, Head(wire).handle)
  BY <1>3 DEF IInv, WireOK
<1>5. /\ Arrived(accepted) \in Event
      /\ Arrived(accepted).handle = Head(wire).handle
      /\ Arrived(accepted).entry = Head(wire).entry
      /\ Arrived(accepted).observed = Len(opened)
      /\ Arrived(accepted).host = hostEpoch /\ Arrived(accepted).accepted = accepted
  BY <1>2, <1>3 DEF Arrived, Event, Sent
<1>6. /\ events' \in Seq(Event) /\ Len(events') = NewId /\ events'[NewId] = Arrived(accepted)
      /\ NewId \in Nat /\ \A i \in 1..Len(events) : events'[i] = events[i]
  BY <1>1, <1>2, <1>5, AppendProperties DEF NewId
<1>7. DOMAIN events' = DOMAIN events \cup {NewId} /\ NewId \notin DOMAIN events
  <2>1. DOMAIN events' = 1..Len(events')
    BY <1>6
  <2>2. QED  BY <1>2, <1>6, <2>1 DEF NewId
<1>8. HistoryGrows
  BY <1>1, <1>2, <1>6, <1>7 DEF HistoryGrows
<1>9. RegistryOK'
  BY <1>1 DEF IInv, RegistryOK
<1>10. \A e, x : SentEarlier(e, x)' = SentEarlier(e, x)
  BY <1>1 DEF SentEarlier
<1>11. WireOK'
  <2> SUFFICES ASSUME NEW i \in DOMAIN Tail(wire)
               PROVE  SentEarlier(Tail(wire)[i].entry, Tail(wire)[i].handle)
    BY <1>1, <1>10 DEF WireOK
  <2>1. i \in 1..Len(Tail(wire)) /\ i + 1 \in DOMAIN wire
    BY <1>2, <1>3
  <2>2. QED  BY <1>3, <2>1 DEF IInv, WireOK
<1>12. EventsOK'
  <2> SUFFICES ASSUME NEW id \in DOMAIN events'
               PROVE  /\ events'[id].observed <= Len(opened)
                      /\ events'[id].host <= hostEpoch
                      /\ events'[id].host = hostEpoch =>
                           SentEarlier(events'[id].entry, events'[id].handle)
    BY <1>1, <1>10 DEF EventsOK
  <2>1. CASE id = NewId
    BY <1>2, <1>4, <1>5, <1>6, <2>1
  <2>2. CASE id \in DOMAIN events
    <3>1. events'[id] = events[id]
      BY <1>8, <2>2 DEF HistoryGrows
    <3>2. QED  BY <2>2, <3>1 DEF IInv, EventsOK
  <2>3. QED  BY <1>7, <2>1, <2>2
<1>13. pass' \in [by : {"none", "timer", "pump"}, todo : SUBSET Held] /\ PassOK'
  BY <1>1 DEF NoPass, PassOK
<1>14. Head(wire).handle \in Handles
  BY <1>3 DEF Sent
<1>15. QED
  BY <1>1, <1>3, <1>4, <1>5, <1>6, <1>7, <1>8, <1>9, <1>11, <1>12, <1>13, <1>14

(* The inbox with the new event, before anything is known of its owner.    *)
LEMMA PutKeeps ==
  ASSUME IInv, NEW accepted \in BOOLEAN, Forwarding(accepted)
  PROVE  /\ Put \subseteq Held /\ inbox \subseteq Put
         /\ \A row \in Put :
              /\ row.id \in DOMAIN events'
              /\ row.epoch = events'[row.id].host
              /\ row.owner # None => row.owner \in Candidates(row.id)'
              /\ \A e \in runEvents : e.event = row.id =>
                   row.owner # None /\ runs[e.run].session = opened[row.owner].session
         /\ \A row, other \in Put : row.id = other.id => row = other
         /\ \E mine \in Put : mine.id = NewId /\ mine.owner = None
<1> DEFINE mine == [id |-> NewId, epoch |-> hostEpoch, owner |-> None]
<1>1. /\ UNCHANGED <<hostEpoch, opened, registry>>
      /\ HistoryGrows /\ NewId \notin DOMAIN events /\ NewId \in Nat
      /\ DOMAIN events' = DOMAIN events \cup {NewId}
      /\ events'[NewId].host = hostEpoch
  BY ForwardingKeeps
<1>2. mine \in Held /\ mine.id = NewId /\ mine.epoch = hostEpoch /\ mine.owner = None
  BY <1>1 DEF Held, None, IInv, HostTypes
<1>3. Put = inbox \cup {mine}
  BY DEF Put
<1> HIDE DEF mine
<1>4. \A row \in inbox : HeldOK(row) /\ row.id # NewId
  BY <1>1 DEF IInv, InboxOK, HeldOK
<1>5. ASSUME NEW row \in inbox
      PROVE  /\ row.id \in DOMAIN events'
             /\ row.epoch = events'[row.id].host
             /\ row.owner # None => row.owner \in Candidates(row.id)'
             /\ \A e \in runEvents : e.event = row.id =>
                  row.owner # None /\ runs[e.run].session = opened[row.owner].session
  <2>1. HeldOK(row)
    BY <1>4
  <2>2. row.owner # None => row.owner \in Candidates(row.id)'
    BY <1>1, <2>1, CandidatesStay DEF HeldOK
  <2>3. QED  BY <1>1, <2>1, <2>2 DEF HeldOK, HistoryGrows
<1>6. \A e \in runEvents : e.event # NewId
  BY <1>1 DEF IInv, Attributed
<1>7. \A row, other \in Put : row.id = other.id => row = other
  BY <1>2, <1>3, <1>4 DEF IInv, InboxOK
<1>8. inbox \subseteq Held
  BY DEF IInv, HostTypes
<1>9. QED  BY <1>1, <1>2, <1>3, <1>5, <1>6, <1>7, <1>8

(* The event is captured at once, as far as that gets.                     *)
LEMMA ForwardCapturedKeeps ==
  ASSUME IInv, NEW reach \in Reaches, ForwardCaptured(reach)
  PROVE  IInv'
<1>1. Forwarding(TRUE)
  BY DEF ForwardCaptured
<1>2. /\ UNCHANGED <<hostEpoch, opened, registry>>
      /\ HistoryGrows /\ NewId \notin DOMAIN events
      /\ events' \in Seq(Event) /\ DOMAIN events' = DOMAIN events \cup {NewId}
      /\ events'[NewId] = Arrived(TRUE) /\ Head(wire).handle \in Handles
      /\ Arrived(TRUE).handle = Head(wire).handle
      /\ Arrived(TRUE).host = hostEpoch
      /\ SentEarlier(Head(wire).entry, Head(wire).handle)
      /\ wire' \in Seq(Sent) /\ RegistryOK' /\ WireOK' /\ EventsOK'
      /\ pass' \in [by : {"none", "timer", "pump"}, todo : SUBSET Held] /\ PassOK'
  BY <1>1, ForwardingKeeps
<1>3. /\ Put \subseteq Held /\ inbox \subseteq Put
      /\ \A row \in Put :
           /\ row.id \in DOMAIN events'
           /\ row.epoch = events'[row.id].host
           /\ row.owner # None => row.owner \in Candidates(row.id)'
           /\ \A e \in runEvents : e.event = row.id =>
                row.owner # None /\ runs[e.run].session = opened[row.owner].session
      /\ \A row, other \in Put : row.id = other.id => row = other
      /\ \E mine \in Put : mine.id = NewId /\ mine.owner = None
  BY <1>1, PutKeeps
<1>4. PICK mine \in Put : mine.id = NewId /\ mine.owner = None
  BY <1>3
<1>5. PICK new \in DOMAIN events' : new = NewId
  BY <1>2
<1> DEFINE owner == Resolve(Head(wire).handle, Len(opened))
<1>6. /\ owner # None /\ Fails(reach # "done")
      /\ Capture(events'[new], new, owner, reach, Put)
  BY <1>2, <1>5 DEF ForwardCaptured
<1>7. owner \in Candidates(new)'
  <2>1. /\ events'[new].host = hostEpoch /\ events'[new].handle = Head(wire).handle
        /\ events'[new].entry = Head(wire).entry /\ events'[new].observed = Len(opened)
    BY <1>2, <1>5 DEF Arrived
  <2>2. owner = registry[Head(wire).handle] /\ owner <= Len(opened)
    BY <1>6 DEF Resolve
  <2>3. Head(wire).entry <= owner
    BY <1>2, <1>6, <2>2 DEF SentEarlier
  <2>4. /\ owner \in DOMAIN opened /\ opened[owner].handle = Head(wire).handle
        /\ opened[owner].host = hostEpoch
    BY <1>2, <1>6, <2>2 DEF IInv, RegistryOK
  <2> HIDE DEF owner
  <2>5. QED  BY <1>2, <2>1, <2>2, <2>3, <2>4 DEF Candidates
<1>8. mine.id = new /\ (mine.owner = None \/ mine.owner = owner)
  BY <1>4, <1>5
<1> HIDE DEF owner
<1>9. /\ StoreOK' /\ TablesGrow /\ InboxOK' /\ Attributed' /\ inbox' \subseteq Held
      /\ \A r \in Put : InInbox(r.id)' \/ (r.id = new /\ Kept(new)')
  BY <1>2, <1>3, <1>6, <1>7, <1>8, CaptureKeeps
<1>10. gap' \in BOOLEAN /\ (gap => gap')
  BY <1>6 DEF Fails, IInv, NothingLost
<1>11. NothingLost'
  <2>1. \A r \in Put : InInbox(r.id)' \/ Kept(r.id)'
    BY <1>9
  <2>2. \A r \in inbox : InInbox(r.id)' \/ Kept(r.id)'
    BY <1>3, <2>1
  <2>3. InInbox(new)' \/ Kept(new)'
    BY <1>8, <2>1
  <2>4. \A id \in DOMAIN events' \ DOMAIN events :
          IF events'[id].accepted THEN InInbox(id)' \/ Kept(id)' ELSE gap'
    BY <1>2, <1>5, <2>3 DEF Arrived
  <2>5. QED  BY <1>2, <1>9, <1>10, <2>2, <2>4, LossKeeps
<1>12. HostTypes'
  BY <1>2, <1>9 DEF IInv, HostTypes
<1>13. QED  BY <1>2, <1>9, <1>11, <1>12 DEF IInv

(* The event is refused, loudly, or waits without owner: the tables are    *)
(* left alone.                                                             *)
LEMMA ForwardOtherKeeps ==
  ASSUME IInv, NEW failed \in BOOLEAN, ForwardRefused(failed) \/ ForwardHeld(failed)
  PROVE  IInv'
<1>1. PICK took \in BOOLEAN : Forwarding(took) /\ (IF took THEN ForwardHeld(failed)
                                                         ELSE ForwardRefused(failed))
  BY DEF ForwardRefused, ForwardHeld
<1>2. /\ UNCHANGED <<hostEpoch, opened, registry>>
      /\ HistoryGrows /\ NewId \notin DOMAIN events
      /\ events' \in Seq(Event) /\ DOMAIN events' = DOMAIN events \cup {NewId}
      /\ events'[NewId] = Arrived(took) /\ Arrived(took).accepted = took
      /\ wire' \in Seq(Sent) /\ RegistryOK' /\ WireOK' /\ EventsOK'
      /\ pass' \in [by : {"none", "timer", "pump"}, todo : SUBSET Held] /\ PassOK'
  BY <1>1, ForwardingKeeps
<1>3. /\ Put \subseteq Held /\ inbox \subseteq Put
      /\ \A row \in Put :
           /\ row.id \in DOMAIN events'
           /\ row.epoch = events'[row.id].host
           /\ row.owner # None => row.owner \in Candidates(row.id)'
           /\ \A e \in runEvents : e.event = row.id =>
                row.owner # None /\ runs[e.run].session = opened[row.owner].session
      /\ \A row, other \in Put : row.id = other.id => row = other
      /\ \E mine \in Put : mine.id = NewId /\ mine.owner = None
  BY <1>1, PutKeeps
<1>4. UNCHANGED storeVars /\ (took => inbox' = Put) /\ (~took => inbox' = inbox)
  BY <1>1 DEF ForwardHeld, ForwardRefused
<1>5. UNCHANGED <<open, runs, runEvents, chat>>
  BY <1>4 DEF storeVars
<1>6. inbox \subseteq inbox' /\ inbox' \subseteq Put
  BY <1>3, <1>4
<1>7. StoreOK'
  BY <1>4, StoreUntouched DEF IInv
<1>8. InboxOK'
  <2>1. \A row \in inbox' : HeldOK(row)'
    BY <1>2, <1>3, <1>5, <1>6 DEF HeldOK
  <2>2. QED  BY <1>3, <1>6, <2>1 DEF InboxOK
<1>9. Attributed'
  <2> SUFFICES ASSUME NEW e \in runEvents
               PROVE  /\ e.event \in DOMAIN events'
                      /\ \E i \in Candidates(e.event)' : opened'[i].session = runs'[e.run].session
    BY <1>5 DEF Attributed
  <2>1. e.event \in DOMAIN events
    BY DEF IInv, Attributed
  <2>2. PICK i \in Candidates(e.event) : opened[i].session = runs[e.run].session
    BY DEF IInv, Attributed
  <2>3. i \in Candidates(e.event)' /\ opened'[i] = opened[i]
    BY <1>2, <2>1, <2>2, CandidatesStay
  <2>4. QED  BY <1>2, <1>5, <2>1, <2>2, <2>3
<1>10. TablesGrow
  BY <1>5 DEF TablesGrow
<1>11. gap' \in BOOLEAN /\ (gap => gap') /\ (~took => gap')
  <2>1. gap \in BOOLEAN
    BY DEF IInv, NothingLost
  <2>2. CASE took
    BY <1>1, <2>1, <2>2 DEF ForwardHeld, Fails
  <2>3. CASE ~took
    BY <1>1, <2>3 DEF ForwardRefused
  <2>4. QED  BY <2>2, <2>3
<1>12. NothingLost'
  <2>1. \A row \in inbox : InInbox(row.id)' \/ Kept(row.id)'
    BY <1>6 DEF InInbox
  <2>2. PICK new \in DOMAIN events' : new = NewId
    BY <1>2
  <2>3. took => InInbox(new)'
    BY <1>3, <1>4, <2>2 DEF InInbox
  <2>4. \A id \in DOMAIN events' \ DOMAIN events :
          IF events'[id].accepted THEN InInbox(id)' \/ Kept(id)' ELSE gap'
    BY <1>2, <1>11, <2>2, <2>3
  <2>5. QED  BY <1>2, <1>10, <1>11, <2>1, <2>4, LossKeeps
<1>13. HostTypes'
  BY <1>2, <1>3, <1>6 DEF IInv, HostTypes
<1>14. QED  BY <1>2, <1>7, <1>8, <1>9, <1>12, <1>13 DEF IInv

(* The next host process: an empty registry, the inbox as it was, runs     *)
(* interrupted.                                                            *)
LEMMA RestartKeeps ==
  ASSUME IInv, Restart
  PROVE  IInv'
<1>1. /\ hostEpoch' = hostEpoch + 1 /\ registry' = [h \in Handles |-> None] /\ wire' = <<>>
      /\ pass' = NoPass /\ open' = [s \in Sessions |-> None] /\ gap' = FALSE
      /\ UNCHANGED <<opened, events, inbox, runEvents, chat>>
  BY DEF Restart
<1>2. /\ hostEpoch \in Nat /\ opened \in Seq(Entry) /\ events \in Seq(Event) /\ inbox \subseteq Held
      /\ runs \in Seq(Run) /\ runEvents \subseteq RunRow /\ chat \subseteq ChatRow
  BY DEF IInv, HostTypes, StoreOK, StoreTypes
<1>3. None \in Nat
  BY DEF None
<1>4. /\ runs' \in Seq(Run) /\ DOMAIN runs' = DOMAIN runs
      /\ \A r \in DOMAIN runs : runs'[r].session = runs[r].session
  <2>1. runs' = [r \in DOMAIN runs |->
                   IF runs[r].status = "running" THEN [runs[r] EXCEPT !.status = "interrupted"]
                   ELSE runs[r]]
    BY DEF Restart
  <2>2. ASSUME NEW r \in DOMAIN runs
        PROVE  runs'[r] \in Run /\ runs'[r].session = runs[r].session
    <3>1. runs[r] \in Run
      BY <1>2, <2>2, ElementsOf
    <3>2. CASE runs[r].status = "running"
      <4>1. runs'[r] = [runs[r] EXCEPT !.status = "interrupted"]
        BY <2>1, <3>2
      <4>2. QED  BY <3>1, <4>1 DEF Run
    <3>3. CASE runs[r].status # "running"
      <4>1. runs'[r] = runs[r]
        BY <2>1, <3>3
      <4>2. QED  BY <3>1, <4>1
    <3>4. QED  BY <3>2, <3>3
  <2>3. DOMAIN runs = 1..Len(runs) /\ Len(runs) \in Nat
    BY <1>2
  <2>4. DOMAIN runs' = DOMAIN runs
    BY <2>1
  <2>5. runs' \in Seq(Run)
    <3>1. runs' \in [1..Len(runs) -> Run]
      BY <2>1, <2>2, <2>3
    <3>2. QED  BY <2>3, <3>1, IsASeq
  <2>6. QED  BY <2>2, <2>4, <2>5
<1>5. StoreOK'
  <2>1. StoreTypes'
    BY <1>1, <1>2, <1>3, <1>4 DEF StoreTypes
  <2>2. \A s \in Sessions : open'[s] = None
    BY <1>1
  <2>3. \A e \in runEvents' : e.run \in DOMAIN runs'
    BY <1>1, <1>4 DEF IInv, StoreOK
  <2>4. \A c \in chat' : \E e \in runEvents' :
          e.event = c.event /\ e.run = c.turn /\ runs'[e.run].session = c.session
    <3> SUFFICES ASSUME NEW c \in chat
                 PROVE  \E e \in runEvents :
                          e.event = c.event /\ e.run = c.turn /\ runs'[e.run].session = c.session
      BY <1>1
    <3>1. PICK e \in runEvents : e.event = c.event /\ e.run = c.turn
                                 /\ runs[e.run].session = c.session
      BY DEF IInv, StoreOK
    <3>2. e.run \in DOMAIN runs
      BY DEF IInv, StoreOK
    <3>3. QED  BY <1>4, <3>1, <3>2
  <2>5. /\ \A e, d \in runEvents' : e.event = d.event => e = d
        /\ \A c, d \in chat' : c.event = d.event => c = d
    BY <1>1 DEF IInv, StoreOK
  <2>6. QED  BY <2>1, <2>2, <2>3, <2>4, <2>5 DEF StoreOK
<1>6. HistoryGrows
  BY <1>1 DEF HistoryGrows
<1>7. InboxOK' /\ Attributed' /\ TablesGrow
      /\ \A row \in inbox : InInbox(row.id)' \/ Kept(row.id)'
  BY <1>1, <1>4, <1>6, InboxUntouched
<1>8. NothingLost'
  BY <1>1, <1>6, <1>7, LossKeeps
<1>9. HostTypes' /\ PassOK'
  BY <1>1, <1>2, <1>3 DEF HostTypes, PassOK, NoPass
<1>10. RegistryOK' /\ WireOK'
  BY <1>1 DEF RegistryOK, WireOK
<1>11. EventsOK'
  <2> SUFFICES ASSUME NEW id \in DOMAIN events
               PROVE  /\ events[id].observed <= Len(opened)
                      /\ events[id].host <= hostEpoch + 1
                      /\ events[id].host # hostEpoch + 1
    BY <1>1 DEF EventsOK
  <2>1. events[id].host \in Nat
    <3>1. events[id] \in Event
      BY <1>2, ElementsOf
    <3>2. QED  BY <3>1 DEF Event
  <2>2. events[id].observed <= Len(opened) /\ events[id].host <= hostEpoch
    BY DEF IInv, EventsOK
  <2>3. QED  BY <1>2, <2>1, <2>2
<1>12. QED  BY <1>5, <1>7, <1>8, <1>9, <1>10, <1>11 DEF IInv

-----------------------------------------------------------------------------
(* It holds at the start.                                                  *)
LEMMA InitHolds == Init => IInv
<1> SUFFICES ASSUME Init PROVE IInv
  OBVIOUS
<1>1. HostTypes /\ StoreTypes
  BY EmptySeq DEF Init, HostTypes, StoreTypes, None, NoPass
<1>2. StoreOK
  BY <1>1 DEF Init, StoreOK
<1>3. RegistryOK /\ WireOK /\ EventsOK
  BY DEF Init, RegistryOK, WireOK, EventsOK
<1>4. InboxOK /\ Attributed /\ NothingLost
  <2>1. inbox = {} /\ runEvents = {} /\ events = <<>> /\ gap = FALSE
    BY DEF Init
  <2>2. InboxOK /\ Attributed
    BY <2>1 DEF InboxOK, Attributed
  <2>3. NothingLost
    <3>1. EventIds = {}
      BY <2>1 DEF EventIds
    <3>2. gap \in BOOLEAN
      BY <2>1
    <3>3. QED  BY <3>1, <3>2 DEF NothingLost
  <2>4. QED  BY <2>2, <2>3
<1>5. PassOK
  <2>1. pass = NoPass
    BY DEF Init
  <2>2. QED  BY <2>1 DEF PassOK, NoPass
<1>6. QED  BY <1>1, <1>2, <1>3, <1>4, <1>5 DEF IInv

(* It holds in every reachable state.                                      *)
LEMMA InvHolds == Spec => []IInv
<1>1. IInv /\ [Next]_vars => IInv'
  <2> SUFFICES ASSUME IInv, [Next]_vars PROVE IInv'
    OBVIOUS
  <2>1. CASE \E h \in Handles :
               \/ \E s \in Sessions, key \in BOOLEAN : HostOpen(h, s, key)
               \/ HostKey(h) \/ HostClose(h) \/ \E kind \in Kinds : HostEmit(h, kind)
    BY <2>1, HostKeeps
  <2>2. CASE \/ \E by \in {"timer", "pump"}, failed \in BOOLEAN : StartPass(by, failed)
             \/ \E row \in pass.todo, failed \in BOOLEAN : SkipRow(row, failed)
             \/ EndPass
    BY <2>2, PassKeeps
  <2>3. CASE \E row \in pass.todo, reach \in Reaches : ReplayRow(row, reach)
    BY <2>3, ReplayKeeps
  <2>4. CASE \E reach \in Reaches : ForwardCaptured(reach)
    BY <2>4, ForwardCapturedKeeps
  <2>5. CASE \E failed \in BOOLEAN : ForwardRefused(failed) \/ ForwardHeld(failed)
    BY <2>5, ForwardOtherKeeps
  <2>6. CASE Restart
    BY <2>6, RestartKeeps
  <2>7. CASE UNCHANGED vars
    <3>1. /\ UNCHANGED <<hostEpoch, opened, registry, wire, events, inbox, pass, gap>>
          /\ UNCHANGED storeVars
      BY <2>7 DEF vars, hostVars
    <3>2. UNCHANGED <<open, runs, runEvents, chat>>
      BY <3>1 DEF storeVars
    <3>3. HistoryGrows
      BY <3>1 DEF HistoryGrows
    <3>4. InboxOK' /\ Attributed' /\ TablesGrow
          /\ \A row \in inbox : InInbox(row.id)' \/ Kept(row.id)'
      BY <3>1, <3>2, <3>3, InboxUntouched
    <3>5. NothingLost'
      BY <3>1, <3>3, <3>4, LossKeeps DEF IInv, NothingLost
    <3>6. StoreOK'
      BY <3>1, StoreUntouched DEF IInv
    <3>7. HostTypes' /\ RegistryOK' /\ WireOK' /\ EventsOK' /\ PassOK'
      BY <3>1 DEF IInv, HostTypes, RegistryOK, WireOK, EventsOK, SentEarlier, PassOK
    <3>8. QED  BY <3>4, <3>5, <3>6, <3>7 DEF IInv
  <2>8. QED  BY <2>1, <2>2, <2>3, <2>4, <2>5, <2>6, <2>7 DEF Next
<1>2. QED  BY <1>1, InitHolds, PTL DEF Spec

(* No event the inbox took is lost, none is recorded or shown twice, and   *)
(* the two databases agree on its run, whatever fails or restarts on the   *)
(* way (event_inbox.py, _replay_quarantine, _deliver).                     *)
THEOREM NothingIsLostOrDoubled == Spec => []CapturedOnce
<1>1. IInv => CapturedOnce
  <2> SUFFICES ASSUME IInv PROVE CapturedOnce
    OBVIOUS
  <2>1. \A row \in runEvents : RowsOf(runEvents, row.event) = {row}
    BY DEF RowsOf, IInv, StoreOK
  <2>2. ASSUME NEW row \in chat
        PROVE  /\ RowsOf(chat, row.event) = {row}
               /\ row.turn \in DOMAIN runs /\ runs[row.turn].session = row.session
               /\ \A other \in RowsOf(runEvents, row.event) : other.run = row.turn
    <3>1. PICK e \in runEvents : /\ e.event = row.event /\ e.run = row.turn
                                 /\ runs[e.run].session = row.session
      BY DEF IInv, StoreOK
    <3>2. RowsOf(runEvents, row.event) = {e}
      BY <2>1, <3>1
    <3>3. RowsOf(chat, row.event) = {row}
      BY DEF RowsOf, IInv, StoreOK
    <3>4. e.run \in DOMAIN runs
      BY DEF IInv, StoreOK
    <3>5. QED  BY <3>1, <3>2, <3>3, <3>4
  <2>3. QED  BY <2>1, <2>2 DEF CapturedOnce, IInv, NothingLost
<1>2. QED  BY <1>1, InvHolds, PTL

(* An event is only ever attributed to a session that had its handle when  *)
(* it was sent or came to it before the frame was forwarded: never to one  *)
(* that came while the event was held, and by no other host                *)
(* (resolve_host_identity).                                                *)
THEOREM AttributionPrecedesForwarding == Spec => []OwnersPrecedeForwarding
<1>1. IInv => OwnersPrecedeForwarding
  <2> SUFFICES ASSUME IInv PROVE OwnersPrecedeForwarding
    OBVIOUS
  <2>1. \A row \in inbox : row.owner # None => row.owner \in Candidates(row.id)
    BY DEF IInv, InboxOK, HeldOK
  <2>2. \A row \in runEvents : \E i \in Candidates(row.event) :
          opened[i].session = runs[row.run].session
    BY DEF IInv, Attributed
  <2>3. ASSUME NEW row \in chat
        PROVE  \E i \in Candidates(row.event) : opened[i].session = row.session
    <3>1. PICK e \in runEvents : /\ e.event = row.event /\ e.run = row.turn
                                 /\ runs[e.run].session = row.session
      BY DEF IInv, StoreOK
    <3>2. QED  BY <2>2, <3>1
  <2>4. QED  BY <2>1, <2>2, <2>3 DEF OwnersPrecedeForwarding
<1>2. QED  BY <1>1, InvHolds, PTL
=============================================================================
