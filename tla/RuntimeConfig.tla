------------------------------ MODULE RuntimeConfig ------------------------------
(***************************************************************************)
(* The overlay of settings an operator changes from the app: the file and  *)
(* its reader's cache (gateway/config/runtime_config.py), the settings     *)
(* made of it and of .env (config/settings.py), and the routes that        *)
(* change it (api/config.py).                                              *)
(*                                                                         *)
(* The routes never await between reading the overlay and writing it, so   *)
(* two of them do not interleave; what does is a worker thread that asks   *)
(* for settings, an operator who edits the file by hand, and the death of  *)
(* the process.  A file's stamp is its time and size; the size of an       *)
(* overlay is the number of its entries, so that a changed value keeps it. *)
(* Which values a setting accepts, and reporting, are data: GoodValues.    *)
(***************************************************************************)
EXTENDS Naturals, FiniteSets

CONSTANTS
  Settings,        (* the names of CONFIG_KEYS                             *)
  Unknown,         (* a name that is not                                   *)
  GoodValues, BadValues,
  Bodies,          (* the requests the app sends                           *)
  HandEdits,       (* the entries an operator may save                     *)
  Loop, Worker,    (* the event loop's thread and another                  *)
  MaxConfigWrites, MaxChanges, MaxOutages                        (* bounds       *)

ASSUME NamesAssumption == Unknown \notin Settings /\ GoodValues \cap BadValues = {}

Threads == {Loop, Worker}
NoFile == [is |-> "nothing"]
Broken == [is |-> "broken"]                    (* not JSON                 *)
Overlay(entries) == [is |-> "overlay", entries |-> entries]
Empty == [k \in {} |-> 0]

VARIABLES
  file, filed,   \* the overlay file, and when it was written
  spare,         \* the temporary file beside it, and when it was written
  cache,         \* _CACHE: a stamp and what was parsed under it
  reader,        \* read_overlay, per thread
  since,         \* what the file was since the thread's read began; none
                 \* too, if stat or read failed on one of these versions
  unread,        \* whether they did on the present one
  put,           \* the request the event loop is on
  got,           \* what the last read of each thread returned
  time, changes, outages, requests

configVars == <<file, filed, spare, cache, reader, since, unread, put, got,
                time, changes, outages, requests>>
NoReader == [at |-> "none"]
NoRequest == [at |-> "none"]
NoCache == [stamp |-> "none"]
NoSpare == [at |-> 0, file |-> NoFile]

ConfigInit ==
  /\ file = NoFile /\ filed = 0 /\ spare = NoSpare
  /\ cache = NoCache
  /\ reader = [t \in Threads |-> NoReader]
  /\ since = [t \in Threads |-> {}] /\ unread = FALSE
  /\ put = NoRequest
  /\ got = [t \in Threads |-> NoFile]
  /\ time = 1 /\ changes = 0 /\ outages = 0 /\ requests = 0

(* _parse_overlay: entries that are unknown or do not validate are dropped.*)
Valid(f) ==
  IF f.is # "overlay" THEN Empty
  ELSE [k \in {n \in DOMAIN f.entries \cap Settings : f.entries[n] \in GoodValues}
          |-> f.entries[k]]
FileStamp(f, t) == IF f = NoFile THEN <<>>
               ELSE <<t, IF f.is = "broken" THEN 0 ELSE Cardinality(DOMAIN f.entries)>>
Now == FileStamp(file, filed)

(* Every write of the file has a time of its own.                          *)
Unreadable == IF unread THEN {NoFile} ELSE {}
Asking(t) == reader'[t] # NoReader \/ (t = Loop /\ put' # NoRequest)
Noting == since' = [t \in Threads |->
                      IF Asking(t) THEN since[t] \cup {file'} \cup Unreadable' ELSE {}]
ReadNoted == unread' = unread /\ Noting

-----------------------------------------------------------------------------
(* read_overlay, in either thread; the event loop reads for its request.   *)

Reads(t) ==
  /\ reader[t] = NoReader
  /\ t = Loop => put.at = "read"
  /\ reader' = [reader EXCEPT ![t] = [at |-> "stamp"]]
  /\ got' = [got EXCEPT ![t] = NoFile]
  /\ UNCHANGED <<file, filed, spare, cache, put, time, changes, outages, requests>>
  /\ ReadNoted

Returns(t, load) ==
  /\ got' = [got EXCEPT ![t] = load]
  /\ reader' = [reader EXCEPT ![t] = NoReader]
  /\ put' = IF t = Loop THEN [put EXCEPT !.at = "merge"] ELSE put

(* An OSError of stat is as good as no file.                               *)
TakeStamp(t) ==
  /\ reader[t].at = "stamp"
  /\ \/ /\ file # NoFile
        /\ reader' = [reader EXCEPT ![t] = [at |-> "look", stamp |-> Now]]
        /\ UNCHANGED <<cache, put, got, unread>>
     \/ /\ cache' = NoCache /\ Returns(t, Empty)
        /\ unread' = (unread \/ file # NoFile)
  /\ UNCHANGED <<file, filed, spare, time, changes, outages, requests>>
  /\ Noting

HitsAnyway(t) == cache.stamp # <<>>
Hits(t) == cache.stamp = reader[t].stamp
Look(t) ==
  /\ reader[t].at = "look"
  /\ IF cache # NoCache /\ Hits(t)
     THEN Returns(t, cache.load)
     ELSE reader' = [reader EXCEPT ![t].at = "parse"] /\ UNCHANGED <<put, got>>
  /\ UNCHANGED <<file, filed, spare, cache, time, changes, outages, requests>>
  /\ ReadNoted

(* One of read_text is as good as an empty overlay.                        *)
Parse(t) ==
  /\ reader[t].at = "parse"
  /\ \E f \in {file, NoFile} :
       /\ reader' = [reader EXCEPT ![t] =
            [at |-> "check", stamp |-> @.stamp, load |-> Valid(f)]]
       /\ unread' = (unread \/ f # file)
  /\ UNCHANGED <<file, filed, spare, cache, put, got, time, changes, outages, requests>>
  /\ Noting

(* Kept only if the file did not move under the read, as far as stat says; *)
(* what a failed read made of it is kept as well.                          *)
CheckStamp(t) ==
  /\ reader[t].at = "check"
  /\ \/ /\ Now = reader[t].stamp
        /\ reader' = [reader EXCEPT ![t].at = "keep"] /\ UNCHANGED <<put, got>>
     \/ Returns(t, reader[t].load)
  /\ UNCHANGED <<file, filed, spare, cache, time, changes, outages, requests>>
  /\ ReadNoted

StampKept(t) == reader[t].stamp
Keep(t) ==
  /\ reader[t].at = "keep"
  /\ cache' = [stamp |-> StampKept(t), load |-> reader[t].load]
  /\ Returns(t, reader[t].load)
  /\ UNCHANGED <<file, filed, spare, time, changes, outages, requests>>
  /\ ReadNoted

-----------------------------------------------------------------------------
(* PUT and DELETE /config/providers.                                       *)

(* 422: nothing to do, an unknown name, a name twice, a bad value.         *)
Accepted(values, reset) ==
  /\ DOMAIN values \cup reset # {}
  /\ DOMAIN values \cup reset \subseteq Settings
  /\ DOMAIN values \cap reset = {}
  /\ \A k \in DOMAIN values : values[k] \in GoodValues

Update(values, reset, delete) ==
  /\ put = NoRequest
  /\ requests < MaxConfigWrites /\ requests' = requests + 1
  /\ put' = IF Accepted(values, reset)
            THEN [at |-> "read", values |-> values, reset |-> reset, delete |-> delete]
            ELSE NoRequest
  /\ UNCHANGED <<file, filed, spare, cache, reader, got, time, changes, outages>>
  /\ ReadNoted
UpdateSome == \E b \in Bodies : Update(b.values, b.reset, b.delete)

Changed(entries, values, reset) ==
  [k \in (DOMAIN entries \cup DOMAIN values) \ reset |->
     IF k \in DOMAIN values THEN values[k] ELSE entries[k]]

Merged == Changed(got[Loop], put.values, put.reset)

(* DELETE of what is not overridden writes nothing.                        *)
NothingToDo == put.delete /\ put.reset \cap DOMAIN got[Loop] = {}
WriteSpare ==
  /\ put.at = "merge"
  /\ IF NothingToDo
     THEN put' = NoRequest /\ UNCHANGED <<spare, time>>
     ELSE /\ spare' = [at |-> time, file |-> Overlay(Merged)]
          /\ time' = time + 1
          /\ put' = [put EXCEPT !.at = "replace"]
  /\ UNCHANGED <<file, filed, cache, reader, got, changes, outages, requests>>
  /\ ReadNoted

(* The disk is full: the temporary file goes, a 500 says nothing changed.  *)
OverlayWriteFails ==
  /\ put.at \in {"merge", "replace"} /\ ~NothingToDo
  /\ outages < MaxOutages /\ outages' = outages + 1
  /\ spare' = NoSpare
  /\ put' = NoRequest
  /\ cache' = NoCache
  /\ UNCHANGED <<file, filed, reader, got, time, changes, requests>>
  /\ ReadNoted

Replace ==
  /\ put.at = "replace"
  /\ file' = spare.file /\ filed' = spare.at
  /\ spare' = NoSpare
  /\ put' = [put EXCEPT !.at = "forget"]
  /\ unread' = FALSE
  /\ UNCHANGED <<cache, reader, got, time, changes, outages, requests>>
  /\ Noting

(* invalidate_cache; the answer is a report of its own.                    *)
Invalidate ==
  /\ put.at = "forget"
  /\ cache' = NoCache
  /\ put' = NoRequest
  /\ UNCHANGED <<file, filed, spare, reader, got, time, changes, outages, requests>>
  /\ ReadNoted

-----------------------------------------------------------------------------

(* By hand, in an editor that may save half a file first.                  *)
OperatorEdits ==
  /\ changes < MaxChanges /\ changes' = changes + 1
  /\ file' \in {NoFile, Broken} \cup {Overlay(e) : e \in HandEdits}
  /\ filed' = time /\ time' = time + 1
  /\ unread' = FALSE
  /\ UNCHANGED <<spare, cache, reader, put, got, outages, requests>>
  /\ Noting

(* A restart; the temporary file of a write it cut short is overwritten by *)
(* the next write.                                                         *)
Restarts ==
  /\ outages < MaxOutages /\ outages' = outages + 1
  /\ cache' = NoCache
  /\ reader' = [t \in Threads |-> NoReader]
  /\ put' = NoRequest
  /\ UNCHANGED <<file, filed, spare, got, time, changes, requests>>
  /\ ReadNoted

ConfigNext ==
  \/ UpdateSome \/ WriteSpare \/ OverlayWriteFails \/ Replace \/ Invalidate
  \/ OperatorEdits \/ Restarts
  \/ \E t \in Threads : \/ Reads(t) \/ TakeStamp(t) \/ Look(t) \/ Parse(t)
                        \/ CheckStamp(t) \/ Keep(t)

ConfigSpec == ConfigInit /\ [][ConfigNext]_configVars

-----------------------------------------------------------------------------
(* What a read of the overlay returns, in either thread and whatever the   *)
(* cache held, was in the file at some time during it; or it is nothing,   *)
(* if the file could not be looked at or read in one of the versions it    *)
(* had meanwhile, by this read or by an earlier one (read_overlay).        *)
(* A save changes the settings it names and keeps every other override     *)
(* that its read returned, no less: it drops them all when a read failed,  *)
(* and only then.  A save that fails, or a process that dies on the way,   *)
(* leaves the file alone (write_overlay, update_provider_config).          *)
OverlayIsKept ==
  [][/\ \A t \in Threads :
          reader[t] # NoReader /\ reader'[t] = NoReader /\ outages' = outages
            => \E f \in since[t] \cup Unreadable' : got'[t] = Valid(f)
     /\ file' # file /\ changes' = changes
          => /\ put.at = "replace"
             /\ \E f \in since[Loop] :
                  file' = Overlay(Changed(Valid(f), put.values, put.reset))]_configVars
=============================================================================
