--------------------------- MODULE RunRecorderProofs --------------------------
(***************************************************************************)
(* Theorems about RunRecorder, for any number of sessions, requests, runs  *)
(* and rows, and about Reasoning, for any turns and transcripts.           *)
(***************************************************************************)
EXTENDS RunRecorder, Reasoning, FiniteSetTheorems, SequenceTheorems,
        WellFoundedInduction, TLAPS

-----------------------------------------------------------------------------
(* RunRecorder: the types, the numbering of every timeline, the agreement  *)
(* of the in-memory records with the table, and what a closed run may      *)
(* still get. All of them rest on one inductive invariant, IInv.           *)

(* A timeline numbered 1, 2, ...                                           *)
RowsOK(rows) == rows \in Seq(RowType) /\ \A i \in DOMAIN rows : rows[i].seq = i

(* A record is empty or names a run of its session in the table.           *)
RecordOK(s) ==
  \/ record[s] = NoRecord
  \/ /\ record[s].run \in DOMAIN runs
     /\ runs[record[s].run].session = s
     /\ record[s].lastSeq = Len(runs[record[s].run].rows)
     /\ runs[record[s].run].status = "running" \/ runs[record[s].run].stale

(* The part of the invariant that is about the recorder and its tables.    *)
LedgerOK ==
  /\ runs \in Seq(RunType)
  /\ record \in [Sessions -> RecordType]
  /\ missed \in BOOLEAN
  /\ \A r \in DOMAIN runs : RowsOK(runs[r].rows)
  /\ \A s \in Sessions : RecordOK(s)
  /\ RunningIsAttended

(* The step of ClosedRunsAreLeftAlone.                                     *)
LeavesClosedAlone ==
  \A r \in DOMAIN runs :
    runs[r].status # "running" /\ ~runs[r].stale =>
      /\ runs'[r].status = runs[r].status \/ runs'[r].stale
      /\ \A i \in DOMAIN runs'[r].rows :
           i > Len(runs[r].rows) => runs'[r].rows[i].kind = "resolved"

(* What a step has to establish of the tables.                             *)
Keeps == LedgerOK' /\ DOMAIN runs \subseteq DOMAIN runs' /\ LeavesClosedAlone

(* The frames there are.                                                   *)
FrameType == [kind: OpeningKinds \cup PersistedKinds, request: Requests \cup {NoRequest},
              outcome: Outcomes]

(* The types of the variables beside the tables.                           *)
HostType == [state: {"idle", "working", "ending"}, turn: Nat, asking: SUBSET Requests]

SurroundingsOK ==
  /\ check \in [phase: {"none", "asked", "answered"}, runs: SUBSET DOMAIN runs,
                busy: SUBSET Sessions]
  /\ host \in [Sessions -> HostType]
  /\ sweeps \in Nat

(* The inductive invariant.                                                *)
IInv == LedgerOK /\ SurroundingsOK

-----------------------------------------------------------------------------
(* Lemmas about the helpers.                                               *)

(* A set of numbers up to n has a largest one, unless it is empty.         *)
LEMMA LargestExists ==
  ASSUME NEW n \in Nat, NEW S, S \subseteq 0..n, S # {}
  PROVE  \E m \in S : \A k \in S : k <= m
<1> DEFINE T == {n - k : k \in S}
<1>1. T \subseteq Nat /\ T # {}
  <2>1. \A k \in S : n - k \in Nat
    OBVIOUS
  <2>2. T \subseteq Nat
    BY <2>1
  <2>3. T # {}
    OBVIOUS
  <2> QED  BY <2>2, <2>3
<1>2. PICK x \in T : \A y \in T : ~ (<<y, x>> \in OpToRel(<, Nat))
  <2> HIDE DEF T
  <2> QED  BY <1>1, NatLessThanWellFounded, WFMin
<1>3. PICK m \in S : x = n - m
  OBVIOUS
<1>4. ASSUME NEW k \in S PROVE k <= m
  <2>1. n - k \in T /\ n - k \in Nat /\ x \in Nat
    OBVIOUS
  <2>2. ~ (n - k < x)
    BY <1>2, <2>1 DEF OpToRel
  <2> QED  BY <2>2, <1>3
<1> QED  BY <1>4

(* A sequence and one more element.                                        *)
LEMMA AppendedSequence ==
  ASSUME NEW S, NEW q \in Seq(S), NEW e \in S
  PROVE  /\ Append(q, e) \in Seq(S)
         /\ DOMAIN Append(q, e) = DOMAIN q \cup {Len(q) + 1}
         /\ Append(q, e)[Len(q) + 1] = e
         /\ \A i \in DOMAIN q : Append(q, e)[i] = q[i]
<1>1. /\ Append(q, e) \in Seq(S) /\ Len(Append(q, e)) = Len(q) + 1
      /\ \A i \in 1..Len(q) : Append(q, e)[i] = q[i]
      /\ Append(q, e)[Len(q) + 1] = e
  BY AppendProperties
<1>2. Len(q) \in Nat /\ DOMAIN q = 1..Len(q) /\ DOMAIN Append(q, e) = 1..(Len(q) + 1)
  BY <1>1, LenProperties
<1>3. 1..(Len(q) + 1) = 1..Len(q) \cup {Len(q) + 1}
  BY <1>2
<1> QED  BY <1>1, <1>2, <1>3

(* Appending the next row keeps a timeline numbered.                       *)
LEMMA NextRow ==
  ASSUME NEW rows, RowsOK(rows), NEW row \in RowType, row.seq = Len(rows) + 1
  PROVE  /\ RowsOK(Append(rows, row))
         /\ Len(Append(rows, row)) = Len(rows) + 1
         /\ \A i \in DOMAIN Append(rows, row) :
              i > Len(rows) => Append(rows, row)[i] = row
<1> DEFINE new == Append(rows, row)
<1>1. /\ new \in Seq(RowType) /\ Len(new) = Len(rows) + 1
      /\ \A i \in 1..Len(rows) : new[i] = rows[i]
      /\ new[Len(rows) + 1] = row
  BY AppendProperties DEF RowsOK
<1>2. DOMAIN new = 1..(Len(rows) + 1) /\ DOMAIN rows = 1..Len(rows) /\ Len(rows) \in Nat
  BY <1>1, LenProperties DEF RowsOK
<1> HIDE DEF new
<1>3. \A i \in DOMAIN new : new[i].seq = i
  BY <1>1, <1>2 DEF RowsOK
<1>4. \A i \in DOMAIN new : i > Len(rows) => new[i] = row
  BY <1>1, <1>2
<1> QED  BY <1>1, <1>3, <1>4 DEF RowsOK, new

(* last_seq_by_run is the length of a numbered timeline.                   *)
LEMMA LastSeqIsLength ==
  ASSUME NEW r \in DOMAIN runs, RowsOK(runs[r].rows)
  PROVE  LastSeq(r) = Len(runs[r].rows)
<1> DEFINE rows == runs[r].rows
           seqs == {0} \cup {rows[i].seq : i \in DOMAIN rows}
<1>1. Len(rows) \in Nat /\ DOMAIN rows = 1..Len(rows)
  BY LenProperties DEF RowsOK
<1>2. \A i \in DOMAIN rows : rows[i].seq = i
  BY DEF RowsOK
<1> HIDE DEF rows
<1>3. seqs = 0..Len(rows)
  BY <1>1, <1>2
<1>4. LastSeq(r) = CHOOSE m \in seqs : \A n \in seqs : n <= m
  BY DEF LastSeq, rows
<1> HIDE DEF seqs
<1>5. LastSeq(r) \in seqs /\ \A n \in seqs : n <= LastSeq(r)
  BY <1>1, <1>3, <1>4
<1> QED  BY <1>1, <1>3, <1>5 DEF rows

(* _find_requested_row finds a run of the sessions it looks at, or none.   *)
LEMMA RequestedRunIsTheirs ==
  ASSUME NEW q \in Requests, NEW sessions, RequestedRun(q, sessions) # NoRun,
         MaxRuns \in Nat, MaxRows \in Nat
  PROVE  /\ RequestedRun(q, sessions) \in DOMAIN runs
         /\ runs[RequestedRun(q, sessions)].session \in sessions
<1> DEFINE rows == RowsAbout(q, sessions)
           R == {p[1] : p \in rows}
           newest == CHOOSE p \in rows : \A o \in rows :
                       o[1] < p[1] \/ (o[1] = p[1] /\ o[2] <= p[2])
<1>1. rows # {} /\ RequestedRun(q, sessions) = newest[1]
  BY DEF RequestedRun
<1>2. \A p \in rows : /\ p = <<p[1], p[2]>>
                      /\ p[1] \in 1..MaxRuns /\ p[2] \in 1..MaxRows
                      /\ p[1] \in DOMAIN runs /\ runs[p[1]].session \in sessions
  BY DEF RowsAbout, RunIds
<1> HIDE DEF rows
<1>3. PICK m \in R : \A k \in R : k <= m
  <2>1. R \subseteq 0..MaxRuns /\ R # {}
    BY <1>1, <1>2
  <2> QED  BY <2>1, LargestExists
<1> DEFINE S == {p[2] : p \in {x \in rows : x[1] = m}}
<1>4. PICK i \in S : \A k \in S : k <= i
  <2>1. S \subseteq 0..MaxRows
    BY <1>2
  <2>2. S # {}
    BY <1>1, <1>3
  <2> QED  BY <2>1, <2>2, LargestExists
<1>5. PICK p \in rows : p[1] = m /\ p[2] = i
  BY <1>4
<1>6. \A o \in rows : o[1] < p[1] \/ (o[1] = p[1] /\ o[2] <= p[2])
  <2> TAKE o \in rows
  <2>1. o[1] <= m /\ o[1] \in Int /\ m \in Int
    BY <1>2, <1>3
  <2>2. o[1] = m => o[2] <= i
    BY <1>4
  <2> QED  BY <2>1, <2>2, <1>5
<1>7. newest \in rows
  BY <1>6
<1> QED  BY <1>1, <1>2, <1>7

-----------------------------------------------------------------------------
(* What each way of writing the tables preserves.                          *)

(* NoRecord is a record, and no run has its number.                        *)
LEMMA NoRecordFacts ==
  NoRecord \in RecordType /\ NoRecord.run = NoRun /\ NoRun = 0
BY DEF NoRecord, RecordType, NoRun

(* Writing the run of a session's record, or opening one for a session     *)
(* without a record, and replacing that record.                            *)
LEMMA WriteOwnRun ==
  ASSUME LedgerOK, NEW s \in Sessions, NEW k,
         NEW run \in RunType, RowsOK(run.rows), run.session = s,
         NEW rec \in RecordType, record' = [record EXCEPT ![s] = rec],
         \/ /\ record[s] # NoRecord /\ k = record[s].run
            /\ runs' = [runs EXCEPT ![k] = run]
         \/ /\ record[s] = NoRecord /\ k = Len(runs) + 1
            /\ runs' = Append(runs, run),
         \/ rec = NoRecord /\ run.status # "running"
         \/ /\ rec.run = k /\ rec.lastSeq = Len(run.rows)
            /\ run.status = "running" \/ run.stale,
         missed' = missed
  PROVE  Keeps
<1>0. runs \in Seq(RunType)
  BY DEF LedgerOK
<1>1. /\ runs \in Seq(RunType) /\ Len(runs) \in Nat /\ DOMAIN runs = 1..Len(runs)
      /\ \A r \in DOMAIN runs : runs[r] \in RunType /\ RowsOK(runs[r].rows)
      /\ \A t \in Sessions : record[t] \in RecordType /\ RecordOK(t)
  BY <1>0, LenProperties, ElementOfSeq DEF LedgerOK
<1>2. /\ runs' \in Seq(RunType) /\ DOMAIN runs \subseteq DOMAIN runs' /\ k \in DOMAIN runs'
      /\ runs'[k] = run
      /\ \A r \in DOMAIN runs' : r # k => r \in DOMAIN runs /\ runs'[r] = runs[r]
  <2>1. CASE record[s] # NoRecord
    <3>1. k \in 1..Len(runs) /\ runs' = [runs EXCEPT ![k] = run]
      BY <2>1, <1>1 DEF RecordOK
    <3>2. [runs EXCEPT ![k] = run] \in Seq(RunType)
      BY <3>1, <1>1, ExceptSeq
    <3>3. DOMAIN runs' = DOMAIN runs /\ runs'[k] = run
          /\ \A r \in DOMAIN runs : r # k => runs'[r] = runs[r]
      BY <3>1, <1>1
    <3> QED  BY <3>1, <3>2, <3>3, <1>1
  <2>2. CASE record[s] = NoRecord
    <3>1. k = Len(runs) + 1 /\ runs' = Append(runs, run)
      BY <2>2
    <3>2. /\ runs' \in Seq(RunType) /\ DOMAIN runs' = DOMAIN runs \cup {k}
          /\ runs'[k] = run
          /\ \A r \in DOMAIN runs : runs'[r] = runs[r]
      BY <3>1, <1>0, AppendedSequence
    <3> QED  BY <3>2
  <2> QED  BY <2>1, <2>2
<1>3. /\ record' \in [Sessions -> RecordType] /\ record'[s] = rec
      /\ \A t \in Sessions : t # s => record'[t] = record[t]
  BY DEF LedgerOK
<1>4. \A r \in DOMAIN runs' : RowsOK(runs'[r].rows)
  BY <1>1, <1>2
<1>5. \A t \in Sessions : RecordOK(t)'
  <2> TAKE t \in Sessions
  <2>1. CASE t = s
    BY <2>1, <1>2, <1>3 DEF RecordOK
  <2>2. CASE t # s /\ record[t] = NoRecord
    BY <2>2, <1>3 DEF RecordOK
  <2>3. CASE t # s /\ record[t] # NoRecord
    <3>1. /\ record[t].run \in DOMAIN runs /\ runs[record[t].run].session = t
          /\ record'[t] = record[t]
      BY <2>3, <1>1, <1>3 DEF RecordOK
    <3>2. record[t].run # k
      BY <3>1, <2>3, <1>1 DEF RecordOK
    <3> QED  BY <3>1, <3>2, <2>3, <1>1, <1>2 DEF RecordOK
  <2> QED  BY <2>1, <2>2, <2>3
<1>6. RunningIsAttended'
  <2> SUFFICES ASSUME ~missed, NEW r \in DOMAIN runs', runs'[r].status = "running"
               PROVE  record'[runs'[r].session].run = r
    BY DEF RunningIsAttended, Running
  <2>1. CASE r = k
    BY <2>1, <1>2, <1>3
  <2>2. CASE r # k
    <3>1. r \in DOMAIN runs /\ runs'[r] = runs[r] /\ runs[r].session \in Sessions
      BY <2>2, <1>1, <1>2 DEF RunType
    <3>2. record[runs[r].session].run = r
      BY <3>1 DEF LedgerOK, RunningIsAttended, Running
    <3>3. runs[r].session # s
      BY <3>1, <3>2, <2>2, <1>1, NoRecordFacts
    <3> QED  BY <3>1, <3>2, <3>3, <1>3
  <2> QED  BY <2>1, <2>2
<1>7. LeavesClosedAlone
  <2> SUFFICES ASSUME NEW r \in DOMAIN runs, runs[r].status # "running", ~runs[r].stale
               PROVE  runs'[r] = runs[r]
    <3>1. \A x \in DOMAIN runs :
            DOMAIN runs[x].rows = 1..Len(runs[x].rows) /\ Len(runs[x].rows) \in Nat
      BY <1>1, LenProperties DEF RowsOK
    <3>2. \A x \in DOMAIN runs : \A i \in DOMAIN runs[x].rows : ~ (i > Len(runs[x].rows))
      BY <3>1
    <3> QED  BY <3>2 DEF LeavesClosedAlone
  <2>1. r # k
    BY <1>1 DEF RecordOK
  <2> QED  BY <2>1, <1>2
<1> QED  BY <1>2, <1>3, <1>4, <1>5, <1>6, <1>7 DEF LedgerOK, Keeps

(* The run a frame leaves.                                                 *)
LEMMA RunAfterFacts ==
  ASSUME NEW s \in Sessions, NEW f \in FrameType,
         NEW run \in RunType, RowsOK(run.rows), NextSeq(s) = Len(run.rows) + 1
  PROVE  /\ RunAfter(run, s, f) \in RunType
         /\ RowsOK(RunAfter(run, s, f).rows)
         /\ RunAfter(run, s, f).session = run.session
         /\ RunAfter(run, s, f).stale = run.stale
         /\ RunAfter(run, s, f).status = IF f.kind = "completed" THEN f.outcome ELSE run.status
         /\ Len(RunAfter(run, s, f).rows) = IF f.kind \in PersistedKinds THEN Len(run.rows) + 1
                                            ELSE Len(run.rows)
<1> DEFINE row == Row(NextSeq(s), f.kind, f.request)
           rows == IF f.kind \in PersistedKinds THEN Append(run.rows, row) ELSE run.rows
           status == IF f.kind = "completed" THEN f.outcome ELSE run.status
<1>1. Len(run.rows) \in Nat /\ run.rows \in Seq(RowType)
  BY LenProperties DEF RowsOK
<1>2. row.seq = Len(run.rows) + 1
  BY DEF Row
<1>3. f.kind \in PersistedKinds => row \in RowType
  BY <1>1 DEF Row, RowType, FrameType
<1> HIDE DEF row
<1>4. RowsOK(rows) /\ Len(rows) = IF f.kind \in PersistedKinds THEN Len(run.rows) + 1
                                   ELSE Len(run.rows)
  BY <1>2, <1>3, NextRow
<1>5. rows \in Seq(RowType)
  BY <1>4 DEF RowsOK
<1>6. status \in Outcomes \cup {"running"}
  BY DEF RunType, FrameType
<1> HIDE DEF rows, status
<1>7. RunAfter(run, s, f) = [run EXCEPT !.rows = rows, !.status = status]
  BY DEF RunAfter, rows, status, row
<1>8. /\ RunAfter(run, s, f) \in RunType
      /\ RunAfter(run, s, f).rows = rows /\ RunAfter(run, s, f).session = run.session
      /\ RunAfter(run, s, f).stale = run.stale /\ RunAfter(run, s, f).status = status
  BY <1>5, <1>6, <1>7 DEF RunType
<1> QED  BY <1>4, <1>8 DEF status

(* The transaction of a frame.                                             *)
LEMMA CommitKeeps ==
  ASSUME LedgerOK, NEW s \in Sessions, NEW f \in FrameType,
         f.kind = "requested" => f.request \in Requests,
         ~Ignores(s, f), ~OnlyStamps(s, f), Commit(s, f), missed' = missed
  PROVE  Keeps
<1>1. record[s] \in RecordType /\ RecordOK(s) /\ runs \in Seq(RunType)
  BY DEF LedgerOK
<1>2. CASE record[s] = NoRecord
  <2> DEFINE run == RunAfter(NewRun(s), s, f)
             rec == RecordAfter(s, f, Len(runs) + 1)
  <2>1. f.kind \in OpeningKinds /\ Opens(s, f)
    BY <1>2 DEF Ignores, Opens
  <2>2. NewRun(s) \in RunType /\ NewRun(s).rows = <<>> /\ NewRun(s).session = s
        /\ NewRun(s).status = "running"
    BY EmptySeq DEF NewRun, RunType
  <2>3. RowsOK(NewRun(s).rows) /\ Len(NewRun(s).rows) = 0 /\ NextSeq(s) = 1
    BY <2>2, <1>2, EmptySeq DEF RowsOK, NextSeq
  <2>4. /\ run \in RunType /\ RowsOK(run.rows) /\ run.session = s
        /\ run.status = IF f.kind = "completed" THEN f.outcome ELSE "running"
        /\ Len(run.rows) = IF f.kind \in PersistedKinds THEN 1 ELSE 0
    BY <2>2, <2>3, RunAfterFacts
  <2>5. Len(runs) \in Nat
    BY <1>1, LenProperties
  <2>6. rec \in RecordType
    BY <2>3, <2>5, <1>1, NoRecordFacts DEF RecordAfter, RecordType
  <2>7. \/ rec = NoRecord /\ run.status # "running"
        \/ rec.run = Len(runs) + 1 /\ rec.lastSeq = Len(run.rows) /\ run.status = "running"
    BY <2>3, <2>4 DEF RecordAfter, FrameType, Outcomes
  <2>8. runs' = Append(runs, run) /\ record' = [record EXCEPT ![s] = rec]
    BY <2>1 DEF Commit
  <2> HIDE DEF run, rec
  <2> QED  BY <1>2, <2>4, <2>6, <2>7, <2>8, WriteOwnRun
<1>3. CASE record[s] # NoRecord
  <2> DEFINE k == record[s].run
             run == RunAfter(runs[k], s, f)
             rec == RecordAfter(s, f, k)
  <2>1. f.kind \in PersistedKinds /\ ~Opens(s, f)
    BY <1>3 DEF OnlyStamps, Opens
  <2>2. /\ k \in DOMAIN runs /\ runs[k] \in RunType /\ RowsOK(runs[k].rows)
        /\ runs[k].session = s /\ record[s].lastSeq = Len(runs[k].rows)
        /\ runs[k].status = "running" \/ runs[k].stale
    BY <1>1, <1>3, ElementOfSeq, LenProperties DEF RecordOK, LedgerOK
  <2>3. NextSeq(s) = Len(runs[k].rows) + 1
    BY <2>2, <1>3 DEF NextSeq
  <2>4. /\ run \in RunType /\ RowsOK(run.rows) /\ run.session = s
        /\ run.stale = runs[k].stale
        /\ run.status = IF f.kind = "completed" THEN f.outcome ELSE runs[k].status
        /\ Len(run.rows) = NextSeq(s)
    BY <2>1, <2>2, <2>3, RunAfterFacts
  <2>5. k \in Nat /\ NextSeq(s) \in Nat
    BY <1>1, <2>2, <2>3 DEF RecordType
  <2>6. rec \in RecordType
    BY <2>5, <1>1, NoRecordFacts DEF RecordAfter, RecordType
  <2>7. \/ rec = NoRecord /\ run.status # "running"
        \/ /\ rec.run = k /\ rec.lastSeq = Len(run.rows)
           /\ run.status = "running" \/ run.stale
    BY <2>1, <2>2, <2>4 DEF RecordAfter, FrameType, Outcomes
  <2>8. runs' = [runs EXCEPT ![k] = run] /\ record' = [record EXCEPT ![s] = rec]
    BY <2>1, <2>2 DEF Commit
  <2> HIDE DEF run, rec
  <2> QED  BY <1>3, <2>4, <2>6, <2>7, <2>8, WriteOwnRun
<1> QED  BY <1>2, <1>3

(* A step that leaves the recorder and its tables alone.                   *)
LEMMA UnchangedKeeps ==
  ASSUME LedgerOK, UNCHANGED <<runs, record, missed>>
  PROVE  Keeps
<1>1. \A r \in DOMAIN runs :
        DOMAIN runs[r].rows = 1..Len(runs[r].rows) /\ Len(runs[r].rows) \in Nat
  BY LenProperties DEF LedgerOK, RowsOK
<1>2. \A r \in DOMAIN runs : \A i \in DOMAIN runs[r].rows : ~ (i > Len(runs[r].rows))
  BY <1>1
<1>3. LeavesClosedAlone
  BY <1>2 DEF LeavesClosedAlone
<1>4. LedgerOK'
  BY DEF LedgerOK, RecordOK, RunningIsAttended, Running
<1> QED  BY <1>3, <1>4 DEF Keeps

(* handle_event, whatever becomes of its transaction.                      *)
LEMMA HandleEventKeeps ==
  ASSUME LedgerOK, NEW s \in Sessions, NEW f \in FrameType, NEW up \in BOOLEAN,
         f.kind = "requested" => f.request \in Requests,
         HandleEvent(s, f, up), missed' = missed
  PROVE  Keeps
<1>1. CASE Ignores(s, f) \/ OnlyStamps(s, f) \/ ~up
  BY <1>1, UnchangedKeeps DEF HandleEvent
<1>2. CASE ~ (Ignores(s, f) \/ OnlyStamps(s, f) \/ ~up)
  BY <1>2, CommitKeeps DEF HandleEvent
<1> QED  BY <1>1, <1>2

(* Steps that change nothing of a run but its status and its stale mark,   *)
(* and clear records or leave them.                                        *)
LEMMA RestatusKeeps ==
  ASSUME LedgerOK, missed' \in BOOLEAN,
         runs' \in [DOMAIN runs -> RunType],
         \A r \in DOMAIN runs :
           /\ runs'[r].session = runs[r].session /\ runs'[r].rows = runs[r].rows
           /\ \/ runs'[r] = runs[r]
              \/ runs'[r].stale
              \/ runs[r].status = "running" /\ record' = [s \in Sessions |-> NoRecord],
         \/ /\ record' = record /\ missed' = missed
            /\ \A r \in DOMAIN runs : runs'[r].status = "running" => runs[r].status = "running"
         \/ /\ record' = [s \in Sessions |-> NoRecord]
            /\ missed' \/ \A r \in DOMAIN runs : runs'[r].status # "running"
  PROVE  Keeps
<1>1. /\ runs \in Seq(RunType) /\ DOMAIN runs = 1..Len(runs) /\ Len(runs) \in Nat
      /\ DOMAIN runs' = DOMAIN runs
  BY LenProperties DEF LedgerOK
<1>2. runs' \in Seq(RunType)
  BY <1>1, IsASeq
<1>3. record' \in [Sessions -> RecordType]
  BY NoRecordFacts DEF LedgerOK
<1>4. \A r \in DOMAIN runs' : RowsOK(runs'[r].rows)
  BY <1>1 DEF LedgerOK
<1>5. \A s \in Sessions : RecordOK(s)'
  <2> TAKE s \in Sessions
  <2>1. CASE record' = [t \in Sessions |-> NoRecord]
    BY <2>1 DEF RecordOK
  <2>2. CASE record' = record /\ record' # [t \in Sessions |-> NoRecord]
    BY <2>2, <1>1 DEF LedgerOK, RecordOK
  <2> QED  BY <2>1, <2>2
<1>6. RunningIsAttended'
  <2> SUFFICES ASSUME ~missed', NEW r \in DOMAIN runs', runs'[r].status = "running"
               PROVE  record'[runs'[r].session].run = r
    BY DEF RunningIsAttended, Running
  <2>1. record' = record /\ missed' = missed /\ runs[r].status = "running"
    BY <1>1
  <2> QED  BY <2>1, <1>1 DEF LedgerOK, RunningIsAttended, Running
<1>7. LeavesClosedAlone
  <2>1. \A r \in DOMAIN runs :
          DOMAIN runs'[r].rows = 1..Len(runs[r].rows) /\ Len(runs[r].rows) \in Nat
    BY LenProperties DEF LedgerOK, RowsOK
  <2>2. \A r \in DOMAIN runs : \A i \in DOMAIN runs'[r].rows : ~ (i > Len(runs[r].rows))
    BY <2>1
  <2> QED  BY <2>2 DEF LeavesClosedAlone
<1> QED  BY <1>1, <1>2, <1>3, <1>4, <1>5, <1>6, <1>7 DEF LedgerOK, Keeps

(* A sweep, at startup or for a replaced connection.                       *)
LEMMA SweepKeeps ==
  ASSUME LedgerOK, NEW up \in BOOLEAN, Sweep(up)
  PROVE  Keeps
<1>1. /\ runs \in [DOMAIN runs -> RunType]
      /\ \A r \in DOMAIN runs : runs[r] \in RunType
  BY ElementOfSeq, LenProperties, SeqOfRange DEF LedgerOK
<1>2. \A r \in DOMAIN runs : [runs[r] EXCEPT !.status = "interrupted"] \in RunType
  BY <1>1 DEF RunType, Outcomes
<1>3. /\ Interrupted \in [DOMAIN runs -> RunType]
      /\ \A r \in DOMAIN runs :
           /\ Interrupted[r].session = runs[r].session /\ Interrupted[r].rows = runs[r].rows
           /\ Interrupted[r].status # "running"
           /\ Interrupted[r] = runs[r] \/ runs[r].status = "running"
  BY <1>1, <1>2 DEF Interrupted, Running, RunType
<1>4. missed' \in BOOLEAN /\ record' = [s \in Sessions |-> NoRecord]
  BY DEF Sweep, LedgerOK
<1>5. CASE up
  BY <1>3, <1>4, <1>5, RestatusKeeps DEF Sweep
<1>6. CASE ~up
  BY <1>1, <1>4, <1>6, RestatusKeeps DEF Sweep
<1> QED  BY <1>5, <1>6

(* close_run_stale on the rows read before the await.                      *)
LEMMA CloseStaleKeeps ==
  ASSUME LedgerOK, CloseStale
  PROVE  Keeps
<1>1. \A r \in DOMAIN runs : runs[r] \in RunType
  BY ElementOfSeq, LenProperties DEF LedgerOK
<1>2. \A r \in DOMAIN runs :
        [runs[r] EXCEPT !.status = "completed", !.stale = TRUE] \in RunType
  BY <1>1 DEF RunType, Outcomes
<1>3. /\ runs' \in [DOMAIN runs -> RunType]
      /\ \A r \in DOMAIN runs :
           /\ runs'[r].session = runs[r].session /\ runs'[r].rows = runs[r].rows
           /\ runs'[r] = runs[r] \/ runs'[r].stale
           /\ runs'[r].status = "running" => runs[r].status = "running"
  BY <1>1, <1>2 DEF CloseStale, RunType
<1>4. record' = record /\ missed' = missed /\ missed' \in BOOLEAN
  BY DEF CloseStale, LedgerOK
<1> QED  BY <1>3, <1>4, RestatusKeeps

(* A run and the answer appended to it.                                    *)
LEMMA AnsweredRun ==
  ASSUME NEW run \in RunType, RowsOK(run.rows), NEW q \in Requests, NEW seq,
         seq = Len(run.rows) + 1
  PROVE  LET new == [run EXCEPT !.rows = Append(@, Row(seq, "resolved", q))]
         IN  /\ new \in RunType /\ RowsOK(new.rows) /\ new.session = run.session
             /\ new.stale = run.stale /\ new.status = run.status
             /\ Len(new.rows) = seq
             /\ \A i \in DOMAIN new.rows : i > Len(run.rows) => new.rows[i].kind = "resolved"
<1> DEFINE row == Row(seq, "resolved", q)
           rows == Append(run.rows, row)
           new == [run EXCEPT !.rows = Append(@, row)]
<1>1. Len(run.rows) \in Nat
  BY LenProperties DEF RowsOK
<1>2. row \in RowType /\ row.seq = Len(run.rows) + 1 /\ row.kind = "resolved"
  BY <1>1 DEF Row, RowType
<1> HIDE DEF row
<1>3. /\ RowsOK(rows) /\ Len(rows) = seq
      /\ \A i \in DOMAIN rows : i > Len(run.rows) => rows[i] = row
  BY <1>2, NextRow
<1>4. rows \in Seq(RowType)
  BY <1>3 DEF RowsOK
<1>5. new = [run EXCEPT !.rows = rows]
  BY DEF RunType
<1> HIDE DEF rows, new
<1>6. /\ new \in RunType /\ new.rows = rows /\ new.session = run.session
      /\ new.stale = run.stale /\ new.status = run.status
  BY <1>4, <1>5 DEF RunType
<1>7. RowsOK(new.rows) /\ Len(new.rows) = seq
      /\ \A i \in DOMAIN new.rows : i > Len(run.rows) => new.rows[i].kind = "resolved"
  BY <1>2, <1>3, <1>6
<1> QED  BY <1>6, <1>7 DEF new, row

(* record_synthetic, on the open run and on a run that is no longer open.  *)
LEMMA AnswerKeeps ==
  ASSUME LedgerOK, NEW s \in Sessions, NEW q \in Requests,
         RecordSynthetic(s, q), missed' = missed
  PROVE  Keeps
<1>1. record[s] \in RecordType /\ RecordOK(s) /\ runs \in Seq(RunType)
      /\ record \in [Sessions -> RecordType]
  BY DEF LedgerOK
<1>2. \A r \in DOMAIN runs : runs[r] \in RunType /\ RowsOK(runs[r].rows)
  BY <1>1, ElementOfSeq, LenProperties DEF LedgerOK
<1>3. CASE record[s] # NoRecord
  <2> DEFINE k == record[s].run
             seq == record[s].lastSeq + 1
             run == [runs[k] EXCEPT !.rows = Append(@, Row(seq, "resolved", q))]
             rec == [record[s] EXCEPT !.lastSeq = @ + 1, !.asked = @ \ {q}]
  <2>1. /\ k \in DOMAIN runs /\ runs[k] \in RunType /\ RowsOK(runs[k].rows)
        /\ runs[k].session = s /\ seq = Len(runs[k].rows) + 1
        /\ runs[k].status = "running" \/ runs[k].stale
    BY <1>1, <1>2, <1>3 DEF RecordOK
  <2>2. /\ run \in RunType /\ RowsOK(run.rows) /\ run.session = s
        /\ run.stale = runs[k].stale /\ run.status = runs[k].status /\ Len(run.rows) = seq
    BY <2>1, AnsweredRun
  <2>3. rec \in RecordType /\ rec.run = k /\ rec.lastSeq = seq
    <3> DEFINE asked == record[s].asked \ {q}
    <3>1. asked \in SUBSET Requests
      BY <1>1 DEF RecordType
    <3>2. rec = [record[s] EXCEPT !.lastSeq = seq, !.asked = asked]
      BY <1>1 DEF RecordType
    <3>3. seq \in Nat
      BY <1>1 DEF RecordType
    <3> HIDE DEF asked, seq, rec
    <3> QED  BY <3>1, <3>2, <3>3, <1>1 DEF RecordType
  <2>4. runs' = [runs EXCEPT ![k] = run]
    BY <1>3 DEF RecordSynthetic, AppendAnswer
  <2>5. record' = [record EXCEPT ![s] = rec]
    BY <1>1, <1>3 DEF RecordSynthetic
  <2>6. \/ rec = NoRecord /\ run.status # "running"
        \/ /\ rec.run = k /\ rec.lastSeq = Len(run.rows)
           /\ run.status = "running" \/ run.stale
    BY <2>1, <2>2, <2>3
  <2> HIDE DEF run, rec
  <2> QED  BY <1>3, <2>2, <2>3, <2>4, <2>5, <2>6, WriteOwnRun
<1>4. CASE record[s] = NoRecord
  <2> DEFINE k == RequestedRun(q, {s})
             seq == LastSeq(k) + 1
             run == [runs[k] EXCEPT !.rows = Append(@, Row(seq, "resolved", q))]
  <2>1. k # NoRun /\ AppendAnswer(k, seq, q) /\ record' = record
    BY <1>4 DEF RecordSynthetic
  <2>2. k \in DOMAIN runs /\ runs[k].session = s
    BY <2>1, RequestedRunIsTheirs, BoundAssumption
  <2>3. runs[k] \in RunType /\ RowsOK(runs[k].rows) /\ seq = Len(runs[k].rows) + 1
    BY <2>2, <1>2, LastSeqIsLength
  <2>4. runs' = [runs EXCEPT ![k] = run]
    BY <2>1 DEF AppendAnswer
  <2> HIDE DEF k, seq
  <2>5. /\ run \in RunType /\ RowsOK(run.rows) /\ run.session = s
        /\ run.stale = runs[k].stale /\ run.status = runs[k].status
        /\ \A i \in DOMAIN run.rows :
             i > Len(runs[k].rows) => run.rows[i].kind = "resolved"
    BY <2>2, <2>3, AnsweredRun
  <2> HIDE DEF run
  <2>6. /\ DOMAIN runs' = DOMAIN runs /\ runs'[k] = run
        /\ \A r \in DOMAIN runs : r # k => runs'[r] = runs[r]
    BY <2>2, <2>4
  <2>7. runs' \in Seq(RunType)
    <3>1. DOMAIN runs = 1..Len(runs) /\ Len(runs) \in Nat
      BY <1>1, LenProperties
    <3>2. [runs EXCEPT ![k] = run] \in Seq(RunType)
      BY <3>1, <1>1, <2>2, <2>5, ExceptSeq
    <3> QED  BY <3>2, <2>4
  <2>8. \A r \in DOMAIN runs' : RowsOK(runs'[r].rows)
    BY <2>5, <2>6, <1>2
  <2>9. \A t \in Sessions : RecordOK(t)'
    <3> TAKE t \in Sessions
    <3>1. CASE record[t] = NoRecord
      BY <3>1, <2>1 DEF RecordOK
    <3>2. CASE record[t] # NoRecord
      <4>1. /\ record[t].run \in DOMAIN runs /\ runs[record[t].run].session = t
            /\ record[t].lastSeq = Len(runs[record[t].run].rows)
            /\ runs[record[t].run].status = "running" \/ runs[record[t].run].stale
        BY <3>2 DEF LedgerOK, RecordOK
      <4>2. t # s /\ record[t].run # k
        BY <3>2, <4>1, <1>4, <2>2
      <4> QED  BY <4>1, <4>2, <2>1, <2>6 DEF RecordOK
    <3> QED  BY <3>1, <3>2
  <2>10. RunningIsAttended'
    <3> SUFFICES ASSUME ~missed, NEW r \in DOMAIN runs', runs'[r].status = "running"
                 PROVE  record'[runs'[r].session].run = r
      BY DEF RunningIsAttended, Running
    <3>1. /\ r \in DOMAIN runs /\ runs[r].status = "running"
          /\ runs'[r].session = runs[r].session
      BY <2>2, <2>5, <2>6
    <3> QED  BY <3>1, <2>1 DEF LedgerOK, RunningIsAttended, Running
  <2>11. LeavesClosedAlone
    <3>1. \A r \in DOMAIN runs :
            DOMAIN runs[r].rows = 1..Len(runs[r].rows) /\ Len(runs[r].rows) \in Nat
      BY <1>2, LenProperties DEF RowsOK
    <3>2. \A r \in DOMAIN runs : \A i \in DOMAIN runs[r].rows : ~ (i > Len(runs[r].rows))
      BY <3>1
    <3> QED  BY <3>2, <2>5, <2>6 DEF LeavesClosedAlone
  <2> QED  BY <1>1, <2>1, <2>6, <2>7, <2>8, <2>9, <2>10, <2>11 DEF LedgerOK, Keeps
<1> QED  BY <1>3, <1>4

(* The sessions an answer may belong to are sessions.                      *)
LEMMA SessionsAskedAreSessions ==
  ASSUME LedgerOK, NEW q \in Requests
  PROVE  SessionsAsked(q) \subseteq Sessions
<1>1. RequestedRun(q, Sessions) # NoRun => runs[RequestedRun(q, Sessions)].session \in Sessions
  BY RequestedRunIsTheirs, BoundAssumption
<1> QED  BY <1>1 DEF SessionsAsked

-----------------------------------------------------------------------------
(* The invariant is inductive.                                             *)

(* It holds at the start.                                                  *)
LEMMA InitEstablishes == Init => IInv
<1> SUFFICES ASSUME Init PROVE IInv
  OBVIOUS
<1>1. runs = <<>> /\ runs \in Seq(RunType) /\ DOMAIN runs = {}
  BY EmptySeq DEF Init
<1>2. LedgerOK
  BY <1>1, NoRecordFacts DEF Init, LedgerOK, RecordOK, RunningIsAttended, Running
<1>3. SurroundingsOK
  BY DEF Init, SurroundingsOK, HostType, IdleHost, NoCheck
<1> QED  BY <1>2, <1>3 DEF IInv

(* Every step preserves the invariant and leaves closed runs alone.        *)
LEMMA StepKeeps ==
  ASSUME IInv, [Next]_vars
  PROVE  IInv' /\ LeavesClosedAlone
<1> USE DEF IInv
<1>0. \A s \in Sessions : host[s] \in HostType
  BY DEF SurroundingsOK
<1>1. ASSUME NEW s \in Sessions, StartTurn(s)
      PROVE  Keeps /\ SurroundingsOK'
  <2>1. Keeps
    BY <1>1, UnchangedKeeps DEF StartTurn
  <2>2. SurroundingsOK'
    BY <1>0, <1>1 DEF StartTurn, SurroundingsOK, HostType
  <2> QED  BY <2>1, <2>2
<1>2. ASSUME NEW s \in Sessions, NEW kind \in {"step", "delta"}, NEW up \in BOOLEAN,
             TurnFrame(s, kind, up)
      PROVE  Keeps /\ SurroundingsOK'
  <2> DEFINE f == Frame(kind, NoRequest, "completed")
  <2>1. f \in FrameType /\ f.kind # "requested"
    BY <1>0 DEF Frame, FrameType, HostType, OpeningKinds, PersistedKinds, Outcomes
  <2>2. HandleEvent(s, f, up) /\ UNCHANGED <<check, host, sweeps, missed>>
    BY <1>2 DEF TurnFrame
  <2> HIDE DEF f
  <2>3. Keeps
    BY <2>1, <2>2, HandleEventKeeps
  <2> QED  BY <2>2, <2>3 DEF Keeps, SurroundingsOK
<1>3. ASSUME NEW s \in Sessions, NEW up \in BOOLEAN, StatusFrame(s, up)
      PROVE  Keeps /\ SurroundingsOK'
  <2> DEFINE f == Frame("status", NoRequest, "completed")
  <2>1. f \in FrameType /\ f.kind # "requested"
    BY <1>0 DEF Frame, FrameType, HostType, OpeningKinds, PersistedKinds, Outcomes
  <2>2. HandleEvent(s, f, up) /\ UNCHANGED <<check, host, sweeps, missed>>
    BY <1>3 DEF StatusFrame
  <2> HIDE DEF f
  <2>3. Keeps
    BY <2>1, <2>2, HandleEventKeeps
  <2> QED  BY <2>2, <2>3 DEF Keeps, SurroundingsOK
<1>4. ASSUME NEW s \in Sessions, NEW q \in Requests, NEW up \in BOOLEAN, RequestFrame(s, q, up)
      PROVE  Keeps /\ SurroundingsOK'
  <2> DEFINE f == Frame("requested", q, "completed")
  <2>1. f \in FrameType /\ f.request \in Requests
    BY <1>0 DEF Frame, FrameType, HostType, OpeningKinds, PersistedKinds, Outcomes
  <2>2. /\ HandleEvent(s, f, up) /\ UNCHANGED <<check, sweeps, missed>>
        /\ host' = [host EXCEPT ![s].asking = @ \cup {q}]
    BY <1>4 DEF RequestFrame
  <2> HIDE DEF f
  <2>3. Keeps
    BY <2>1, <2>2, HandleEventKeeps
  <2>4. host' \in [Sessions -> HostType]
    BY <1>0, <2>2 DEF SurroundingsOK, HostType
  <2> QED  BY <2>2, <2>3, <2>4 DEF Keeps, SurroundingsOK
<1>5. ASSUME NEW s \in Sessions, EndTurn(s)
      PROVE  Keeps /\ SurroundingsOK'
  <2>1. Keeps
    BY <1>5, UnchangedKeeps DEF EndTurn
  <2>2. SurroundingsOK'
    BY <1>0, <1>5 DEF EndTurn, SurroundingsOK, HostType
  <2> QED  BY <2>1, <2>2
<1>6. ASSUME NEW s \in Sessions, NEW outcome \in Outcomes, NEW up \in BOOLEAN,
             CompletionFrame(s, outcome, up)
      PROVE  Keeps /\ SurroundingsOK'
  <2> DEFINE f == Frame("completed", NoRequest, outcome)
  <2>1. f \in FrameType /\ f.kind # "requested"
    BY <1>0 DEF Frame, FrameType, HostType, OpeningKinds, PersistedKinds
  <2>2. /\ HandleEvent(s, f, up) /\ UNCHANGED <<check, sweeps, missed>>
        /\ host' = [host EXCEPT ![s].state = "idle"]
    BY <1>6 DEF CompletionFrame
  <2> HIDE DEF f
  <2>3. Keeps
    BY <2>1, <2>2, HandleEventKeeps
  <2>4. host' \in [Sessions -> HostType]
    BY <1>0, <2>2 DEF SurroundingsOK, HostType
  <2> QED  BY <2>2, <2>3, <2>4 DEF Keeps, SurroundingsOK
<1>7. ASSUME NEW s \in Sessions, LoseCompletion(s)
      PROVE  Keeps /\ SurroundingsOK'
  <2>1. Keeps
    BY <1>7, UnchangedKeeps DEF LoseCompletion
  <2>2. SurroundingsOK'
    BY <1>0, <1>7 DEF LoseCompletion, SurroundingsOK, HostType
  <2> QED  BY <2>1, <2>2
<1>8. ASSUME NEW s \in Sessions, NEW q \in Requests, NEW named \in BOOLEAN, Answer(s, q, named)
      PROVE  Keeps /\ SurroundingsOK'
  <2>1. PICK t \in Sessions : RecordSynthetic(t, q)
    BY <1>8, SessionsAskedAreSessions DEF Answer
  <2>2. /\ UNCHANGED <<check, sweeps, missed>>
        /\ host' = [host EXCEPT ![s].asking = @ \ {q}]
    BY <1>8 DEF Answer
  <2>3. Keeps
    BY <2>1, <2>2, AnswerKeeps
  <2>4. host' \in [Sessions -> HostType]
    BY <1>0, <2>2 DEF SurroundingsOK, HostType
  <2> QED  BY <2>2, <2>3, <2>4 DEF Keeps, SurroundingsOK
<1>9. ASSUME NEW s \in Sessions, NEW q \in Requests, AnswerUnrecorded(s, q)
      PROVE  Keeps /\ SurroundingsOK'
  <2>1. Keeps
    BY <1>9, UnchangedKeeps DEF AnswerUnrecorded
  <2>2. SurroundingsOK'
    BY <1>0, <1>9 DEF AnswerUnrecorded, SurroundingsOK, HostType
  <2> QED  BY <2>1, <2>2
<1>10. ASSUME NEW up \in BOOLEAN, ReplaceConnection(up) \/ Restart(up)
       PROVE  Keeps /\ SurroundingsOK'
  <2>1. Keeps
    BY <1>10, SweepKeeps DEF ReplaceConnection, Restart
  <2>2. SurroundingsOK'
    BY <1>10, <2>1 DEF ReplaceConnection, Restart, Keeps, SurroundingsOK, NoCheck
  <2> QED  BY <2>1, <2>2
<1>11. ASSUME ReadStale
       PROVE  Keeps /\ SurroundingsOK'
  <2>1. Keeps
    BY <1>11, UnchangedKeeps DEF ReadStale
  <2>2. SurroundingsOK'
    BY <1>11 DEF ReadStale, SurroundingsOK, NoCheck, Running
  <2> QED  BY <2>1, <2>2
<1>12. ASSUME ListActive \/ ListFailed
       PROVE  Keeps /\ SurroundingsOK'
  <2>1. Keeps
    BY <1>12, UnchangedKeeps DEF ListActive, ListFailed
  <2>2. SurroundingsOK'
    <3>1. CASE ListActive
      <4> DEFINE busy == {s \in Sessions : host[s].state = "working"}
      <4>1. busy \subseteq Sessions /\ check' = [check EXCEPT !.phase = "answered", !.busy = busy]
        BY <3>1 DEF ListActive
      <4> HIDE DEF busy
      <4>2. check' \in [phase: {"none", "asked", "answered"}, runs: SUBSET DOMAIN runs,
                        busy: SUBSET Sessions]
        BY <4>1 DEF SurroundingsOK
      <4> QED  BY <3>1, <4>2 DEF ListActive, SurroundingsOK
    <3>2. CASE ListFailed
      BY <3>2 DEF ListFailed, SurroundingsOK, NoCheck
    <3> QED  BY <1>12, <3>1, <3>2
  <2> QED  BY <2>1, <2>2
<1>13. ASSUME CloseStale
       PROVE  Keeps /\ SurroundingsOK'
  <2>1. Keeps
    BY <1>13, CloseStaleKeeps
  <2>2. SurroundingsOK'
    BY <1>13, <2>1 DEF CloseStale, Keeps, SurroundingsOK, NoCheck
  <2> QED  BY <2>1, <2>2
<1>14. ASSUME UNCHANGED vars
       PROVE  Keeps /\ SurroundingsOK'
  <2>1. Keeps
    BY <1>14, UnchangedKeeps DEF vars
  <2> QED  BY <1>14, <2>1 DEF vars, SurroundingsOK
<1>15. Keeps /\ SurroundingsOK'
  BY <1>1, <1>2, <1>3, <1>4, <1>5, <1>6, <1>7, <1>8, <1>9, <1>10, <1>11, <1>12, <1>13, <1>14
     DEF Next
<1> QED  BY <1>15 DEF Keeps

(* It holds in every reachable state.                                      *)
LEMMA Inductive == Spec => []IInv
<1>1. IInv /\ [Next]_vars => IInv'
  BY StepKeeps
<1> QED  BY <1>1, InitEstablishes, PTL DEF Spec

-----------------------------------------------------------------------------
(* The theorems.                                                           *)

(* The variables keep their types, and a record always names a run that is *)
(* in the table.                                                           *)
THEOREM TypesAreKept == Spec => []TypeOK
<1>1. IInv => TypeOK
  <2> SUFFICES ASSUME IInv PROVE TypeOK
    OBVIOUS
  <2>1. \A s \in Sessions : record[s].run \in {NoRun} \cup DOMAIN runs
    BY NoRecordFacts DEF IInv, LedgerOK, RecordOK
  <2> QED  BY <2>1 DEF IInv, LedgerOK, SurroundingsOK, TypeOK, HostType
<1> QED  BY <1>1, Inductive, PTL

(* Every timeline is numbered 1, 2, ... without hole or duplicate, whoever *)
(* wrote its rows and whatever failed.                                     *)
THEOREM TimelinesAreContiguous == Spec => []SeqsContiguous
<1>1. IInv => SeqsContiguous
  BY DEF IInv, LedgerOK, RowsOK, SeqsContiguous
<1> QED  BY <1>1, Inductive, PTL

(* The in-memory records agree with the table they were written from.      *)
THEOREM RecordsAgree == Spec => []RecordsMatchLedger
<1>1. IInv => RecordsMatchLedger
  BY DEF IInv, LedgerOK, RecordOK, RecordsMatchLedger
<1> QED  BY <1>1, Inductive, PTL

(* Unless a sweep could not write, a run shown running is attended by the  *)
(* recorder.                                                               *)
THEOREM RunningRunsAreAttended == Spec => []RunningIsAttended
<1>1. IInv => RunningIsAttended
  BY DEF IInv, LedgerOK
<1> QED  BY <1>1, Inductive, PTL

(* A closed run gets nothing but the answers to its requests, and keeps    *)
(* its outcome unless it is closed again as stale.                         *)
THEOREM ClosedRunsStayClosed == Spec => ClosedRunsAreLeftAlone
<1>1. IInv /\ [Next]_vars => [LeavesClosedAlone]_vars
  BY StepKeeps
<1>2. [LeavesClosedAlone]_vars =>
        [\A r \in DOMAIN runs :
           runs[r].status # "running" /\ ~runs[r].stale =>
             /\ runs'[r].status = runs[r].status \/ runs'[r].stale
             /\ \A i \in DOMAIN runs'[r].rows :
                  i > Len(runs[r].rows) => runs'[r].rows[i].kind = "resolved"]_vars
  BY DEF LeavesClosedAlone
<1> QED  BY <1>1, <1>2, Inductive, PTL DEF Spec, ClosedRunsAreLeftAlone

-----------------------------------------------------------------------------
(* Reasoning: where what streamed is kept.                                 *)

IsSeq(s) == Len(s) \in Nat /\ s = [i \in 1..Len(s) |-> s[i]]

ReasonTypes ==
  /\ held \in Seq(Turns)
  /\ buffer = [t \in Turns |-> buffer[t]]
  /\ cursor = [t \in Turns |-> cursor[t]]
  /\ IsSeq(chat)

(* What the archive row of a buffer says is the beginning of the buffer:   *)
(* the row is replaced by one that says more.                              *)
CursorBehind == \A t \in Turns : cursor[t] \subseteq buffer[t]

ReasonIInv == ReasonTypes /\ CursorBehind /\ StreamedIsKept

Buffered == UNION {buffer[t] : t \in Turns}
Kept == Buffered \cup OnRows \cup Archived \cup gone

(* The property, with its places as one set.                               *)
LEMMA KeptIs == StreamedIsKept <=> streamed \subseteq Kept
  BY DEF StreamedIsKept, Kept, Buffered

(* It holds at the start.                                                  *)
LEMMA ReasonInitIInv == ReasoningInit => ReasonIInv
  BY DEF ReasoningInit, ReasonIInv, ReasonTypes, IsSeq, CursorBehind, StreamedIsKept, Nothing

(* A sequence with one more, by places.                                    *)
LEMMA AppendIs ==
  ASSUME NEW s, IsSeq(s), NEW e
  PROVE  /\ IsSeq(Append(s, e)) /\ Len(Append(s, e)) = Len(s) + 1
         /\ Append(s, e)[Len(s) + 1] = e
         /\ \A i \in 1..Len(s) : Append(s, e)[i] = s[i]
<1> DEFINE S == {s[i] : i \in 1..Len(s)} \cup {e}
<1>1. s \in Seq(S) /\ e \in S
  <2>1. \A i \in 1..Len(s) : s[i] \in S
    OBVIOUS
  <2> HIDE DEF S
  <2>2. [i \in 1..Len(s) |-> s[i]] \in Seq(S)
    BY <2>1 DEF IsSeq
  <2> QED BY <2>2 DEF IsSeq, S
<1> HIDE DEF S
<1>2. /\ Append(s, e) \in Seq(S) /\ Len(Append(s, e)) = Len(s) + 1
      /\ Append(s, e)[Len(s) + 1] = e
      /\ \A i \in 1..Len(s) : Append(s, e)[i] = s[i]
  BY <1>1
<1>3. \A q \in Seq(S) : IsSeq(q)
  BY DEF IsSeq
<1> QED BY <1>2, <1>3

(* A sequence without one of its places still has all other elements.      *)
LEMMA RemovedIs ==
  ASSUME NEW S, NEW s \in Seq(S), NEW i \in DOMAIN s
  PROVE  RemoveAt(s, i) \in Seq(S)
<1>1. SubSeq(s, 1, i - 1) \in Seq(S) /\ SubSeq(s, i + 1, Len(s)) \in Seq(S)
  OBVIOUS
<1> QED BY <1>1 DEF RemoveAt

(* A row that is added is there with the others.                           *)
LEMMA RowAdded ==
  ASSUME ReasonTypes, NEW row, chat' = Append(chat, row)
  PROVE  IsSeq(chat') /\ OnRows \cup row.reasoning \subseteq OnRows'
<1>1. /\ IsSeq(chat) /\ IsSeq(chat') /\ Len(chat') = Len(chat) + 1 /\ chat'[Len(chat) + 1] = row
      /\ \A i \in 1..Len(chat) : chat'[i] = chat[i]
  BY AppendIs DEF ReasonTypes
<1>2. DOMAIN chat = 1..Len(chat) /\ DOMAIN chat' = 1..(Len(chat) + 1) /\ Len(chat) \in Nat
  BY <1>1 DEF IsSeq
<1>3. \A i \in DOMAIN chat : i \in DOMAIN chat' /\ chat'[i].reasoning = chat[i].reasoning
  BY <1>1, <1>2
<1>4. Len(chat) + 1 \in DOMAIN chat' /\ chat'[Len(chat) + 1].reasoning = row.reasoning
  BY <1>1, <1>2
<1> QED BY <1>1, <1>3, <1>4 DEF OnRows

(* A row of the archive that is replaced by one that says more.            *)
LEMMA ArchiveGrows ==
  ASSUME NEW t, NEW text, cursor[t] \subseteq text, archive' = Archiving(t, text)
  PROVE  Archived \cup text \subseteq Archived'
<1>1. Entry(t, text) \in archive' /\ Entry(t, text).text = text /\ Entry(t, cursor[t]).text = cursor[t]
  BY DEF Archiving, Entry
<1>2. \A a \in archive : a \in archive' \/ a.text = cursor[t]
  BY <1>1 DEF Archiving
<1>3. text \subseteq Archived'
  BY <1>1 DEF Archived
<1>4. \A a \in archive : a.text \subseteq Archived'
  BY <1>2, <1>3 DEF Archived
<1> QED BY <1>3, <1>4 DEF Archived

(* The end of a step keeps what was held: on its row, in the archive, or   *)
(* among what is known to be lost.                                         *)
LEMMA SpendKeeps ==
  ASSUME ReasonTypes, CursorBehind, NEW t \in Turns, NEW onRow, NEW ok \in BOOLEAN,
         Spend(t, onRow, ok), OnRows \cup onRow \subseteq OnRows', IsSeq(chat'),
         StreamedIsKept, streamed' = streamed
  PROVE  ReasonIInv'
<1>1. /\ held' = held \/ \E i \in DOMAIN held : held' = RemoveAt(held, i)
      /\ buffer' = [buffer EXCEPT ![t] = Nothing] /\ cursor' = [cursor EXCEPT ![t] = Nothing]
  BY DEF Spend
<1>2. held' \in Seq(Turns)
  BY <1>1, RemovedIs DEF ReasonTypes
<1>3. ReasonTypes' /\ CursorBehind'
  BY <1>1, <1>2 DEF ReasonTypes, CursorBehind, Nothing
<1>4. Archived \subseteq Archived' /\ gone \subseteq gone'
  BY ArchiveGrows DEF Spend, CursorBehind, Archived
<1>5. buffer[t] \subseteq Archived' \cup gone' \cup onRow
  BY ArchiveGrows DEF Spend, CursorBehind, Archived, Nothing
<1>6. Buffered \subseteq Buffered' \cup buffer[t]
  BY <1>1 DEF Buffered, ReasonTypes
<1>7. Kept \subseteq Kept'
  BY <1>4, <1>5, <1>6 DEF Kept
<1> QED BY <1>3, <1>7, KeptIs DEF ReasonIInv, StreamedIsKept, Kept, Buffered

(* Rows and archive as Hermes has them only gain.                          *)
LEMMA ReconcileKeeps ==
  ASSUME ReasonIInv, NEW messages, Reconcile(messages), UNCHANGED <<memory, notes>>
  PROVE  ReasonIInv'
<1>1. PICK u : chat' =
        [i \in 1..Len(chat) |->
          IF \E k \in First(Matches(chat[i], messages, u[i - 1])) :
               Cardinality(messages[k].body) > Cardinality(chat[i].reasoning)
          THEN [text |-> chat[i].text,
                reasoning |-> UNION {messages[k].body : k \in First(Matches(chat[i], messages, u[i - 1]))}]
          ELSE chat[i]]
  BY DEF Reconcile, Upgraded
<1>2. IsSeq(chat) /\ IsSeq(chat') /\ Len(chat') = Len(chat)
  BY <1>1 DEF ReasonIInv, ReasonTypes, IsSeq
<1>3. ASSUME NEW i \in DOMAIN chat PROVE i \in DOMAIN chat' /\ chat[i].reasoning \subseteq chat'[i].reasoning
  <2> DEFINE match == First(Matches(chat[i], messages, u[i - 1]))
  <2>1. i \in 1..Len(chat) /\ i \in DOMAIN chat'
    BY <1>2 DEF IsSeq
  <2>2. \A k \in match : chat[i].reasoning \subseteq messages[k].body
    BY DEF First, Matches, Within
  <2>3. \/ chat'[i] = chat[i]
        \/ /\ \E k \in match : TRUE
           /\ chat'[i] = [text |-> chat[i].text, reasoning |-> UNION {messages[k].body : k \in match}]
    BY <1>1, <2>1
  <2> HIDE DEF match
  <2> QED BY <2>1, <2>2, <2>3
<1>4. OnRows \subseteq OnRows'
  BY <1>3 DEF OnRows
<1>5. Archived \subseteq Archived'
  BY DEF Reconcile, ArchivedToo, Archived
<1>6. UNCHANGED <<held, buffer, cursor, gone, streamed>>
  BY DEF memory, notes
<1>7. Kept \subseteq Kept'
  BY <1>4, <1>5, <1>6 DEF Kept, Buffered
<1> QED BY <1>2, <1>6, <1>7, KeptIs DEF ReasonIInv, ReasonTypes, CursorBehind, StreamedIsKept, Kept,
           Buffered

(* It survives a delta, stored or not ...                                  *)
LEMMA DeltaKeeps ==
  ASSUME ReasonIInv, NEW t \in Turns, NEW how \in {"written", "later", "failed"}, Delta(t, how)
  PROVE  ReasonIInv'
<1> DEFINE new == NewThought(t)
<1>1. /\ streamed' = streamed \cup {new} /\ chat' = chat /\ gone' = gone
      /\ held' = IF t \in Range(held) THEN held ELSE Append(held, t)
      /\ buffer' = [buffer EXCEPT ![t] = @ \cup {new}]
      /\ \/ archive' = Archiving(t, buffer'[t]) /\ cursor' = [cursor EXCEPT ![t] = buffer'[t]]
         \/ UNCHANGED <<archive, cursor>>
  BY DEF Delta
<1> HIDE DEF new
<1>2. ReasonTypes /\ CursorBehind /\ StreamedIsKept
  BY DEF ReasonIInv
<1>3. buffer'[t] = buffer[t] \cup {new} /\ \A u \in Turns \ {t} : buffer'[u] = buffer[u]
  BY <1>1, <1>2 DEF ReasonTypes
<1>4. held' \in Seq(Turns)
  BY <1>1, <1>2 DEF ReasonTypes
<1>5. ReasonTypes' /\ CursorBehind'
  BY <1>1, <1>2, <1>3, <1>4 DEF ReasonTypes, CursorBehind
<1>6. cursor[t] \subseteq buffer'[t]
  BY <1>2, <1>3 DEF CursorBehind
<1>7. Archived \subseteq Archived'
  BY <1>1, <1>6, ArchiveGrows DEF Archived
<1>8. Buffered \cup {new} \subseteq Buffered'
  BY <1>3 DEF Buffered
<1>9. streamed' \subseteq Kept'
  BY <1>1, <1>2, <1>7, <1>8, KeptIs DEF Kept, OnRows
<1> QED BY <1>5, <1>9 DEF ReasonIInv, StreamedIsKept, Kept, Buffered

(* ... the eviction of the oldest buffer ...                               *)
LEMMA EvictKeeps ==
  ASSUME ReasonIInv, NEW ok \in BOOLEAN, Evict(ok)
  PROVE  ReasonIInv'
<1> DEFINE t == Head(held)
<1>1. /\ held' = Tail(held) /\ chat' = chat /\ streamed' = streamed
      /\ buffer' = [buffer EXCEPT ![t] = Nothing] /\ cursor' = [cursor EXCEPT ![t] = Nothing]
      /\ \/ archive' = Evicted(t) /\ gone' = gone
         \/ archive' = archive /\ gone' = gone \cup (buffer[t] \ Archived)
  BY DEF Evict
<1>2. ReasonTypes /\ CursorBehind /\ StreamedIsKept
  BY DEF ReasonIInv
<1>3. t \in Turns /\ held' \in Seq(Turns)
  BY <1>1, <1>2 DEF ReasonTypes, Evict
<1> HIDE DEF t
<1>4. ReasonTypes' /\ CursorBehind'
  BY <1>1, <1>2, <1>3 DEF ReasonTypes, CursorBehind, Nothing
<1>5. Archived \subseteq Archived' /\ buffer[t] \subseteq Archived' \cup gone'
  <2>1. CASE archive' = Archiving(t, buffer[t])
    BY <1>2, <1>3, <2>1, ArchiveGrows DEF CursorBehind
  <2>2. CASE archive' # Archiving(t, buffer[t])
    <3>1. archive' = archive /\ (buffer[t] = {} \/ gone' = gone \cup (buffer[t] \ Archived))
      BY <1>1, <2>2 DEF Evicted, Nothing
    <3> QED BY <3>1 DEF Archived
  <2> QED BY <1>1, <2>1, <2>2 DEF Evicted
<1>6. Buffered \subseteq Buffered' \cup buffer[t]
  BY <1>1, <1>2 DEF Buffered, ReasonTypes
<1>7. Kept \subseteq Kept'
  BY <1>1, <1>5, <1>6 DEF Kept, OnRows
<1> QED BY <1>1, <1>2, <1>4, <1>7, KeptIs DEF ReasonIInv, StreamedIsKept, Kept, Buffered

(* ... the end of a step or of its turn ...                                *)
LEMMA StepEndKeeps ==
  ASSUME ReasonIInv, NEW t \in Turns, NEW ok \in BOOLEAN,
         \/ ToolStarted(t, ok)
         \/ \E text \in Texts : Interim(t, text, ok)
         \/ \E text \in Texts, claimed \in Claims(t) : Completed(t, text, claimed, ok)
  PROVE  ReasonIInv'
<1>1. ReasonTypes /\ CursorBehind /\ StreamedIsKept
  BY DEF ReasonIInv
<1>2. CASE ToolStarted(t, ok)
  <2>1. /\ chat' = IF buffer[t] = Nothing THEN chat
                   ELSE Append(chat, [text |-> NoText, reasoning |-> buffer[t]])
        /\ Spend(t, buffer[t], ok) /\ streamed' = streamed
    BY <1>2 DEF ToolStarted
  <2>2. OnRows \cup buffer[t] \subseteq OnRows' /\ IsSeq(chat')
    BY <1>1, <2>1, RowAdded DEF OnRows, Nothing, ReasonTypes
  <2> QED BY <1>1, <2>1, <2>2, SpendKeeps
<1>3. ASSUME NEW text \in Texts, Interim(t, text, ok) PROVE ReasonIInv'
  <2>1. /\ chat' = Append(chat, [text |-> text, reasoning |-> buffer[t]])
        /\ Spend(t, buffer[t], ok) /\ streamed' = streamed
    BY <1>3 DEF Interim
  <2>2. OnRows \cup buffer[t] \subseteq OnRows' /\ IsSeq(chat')
    BY <1>1, <2>1, RowAdded
  <2> QED BY <1>1, <2>1, <2>2, SpendKeeps
<1>4. ASSUME NEW text \in Texts, NEW claimed \in Claims(t), Completed(t, text, claimed, ok)
      PROVE  ReasonIInv'
  <2>1. PICK shown : /\ chat' = Append(chat, [text |-> text, reasoning |-> shown])
                     /\ Spend(t, shown, ok) /\ streamed' = streamed
    BY <1>4 DEF Completed
  <2>2. OnRows \cup shown \subseteq OnRows' /\ IsSeq(chat')
    BY <1>1, <2>1, RowAdded
  <2> QED BY <1>1, <2>1, <2>2, SpendKeeps
<1> QED BY <1>2, <1>3, <1>4

(* ... and a crash.                                                        *)
LEMMA CrashKeeps ==
  ASSUME ReasonIInv, Crash
  PROVE  ReasonIInv'
<1>1. /\ gone' = gone \cup (Buffered \ Archived) /\ held' = <<>>
      /\ UNCHANGED <<chat, archive, streamed>>
      /\ buffer' = [t \in Turns |-> Nothing] /\ cursor' = [t \in Turns |-> Nothing]
  BY DEF Crash, tables, Buffered
<1>2. Kept \subseteq Kept'
  BY <1>1 DEF Kept, OnRows, Archived
<1> QED BY <1>1, <1>2, KeptIs DEF ReasonIInv, ReasonTypes, CursorBehind, StreamedIsKept, Kept, Buffered,
           Nothing

(* Every step keeps it.                                                    *)
LEMMA ReasonStepKeeps ==
  ASSUME ReasonIInv, [ReasoningNext]_reasoningVars
  PROVE  ReasonIInv'
<1>1. ASSUME UNCHANGED <<memory, tables, notes>> PROVE ReasonIInv'
  BY <1>1 DEF memory, tables, notes, ReasonIInv, ReasonTypes, CursorBehind, StreamedIsKept, IsSeq,
              OnRows, Archived
<1>2. ASSUME NEW t \in Turns, StepsBegin(t) \/ ThinksSilently(t) \/ Abandoned(t) PROVE ReasonIInv'
  BY <1>1, <1>2 DEF StepsBegin, ThinksSilently, Abandoned
<1>3. CASE SyncReads \/ SyncFails \/ LoadReads \/ UNCHANGED reasoningVars
  BY <1>1, <1>3 DEF SyncReads, SyncFails, LoadReads, reasoningVars
<1>4. CASE SyncReconciles \/ LoadReconciles
  BY <1>4, ReconcileKeeps DEF SyncReconciles, LoadReconciles
<1>5. ASSUME NEW t \in Turns, NEW text, NEW over, Unheard(t, text, over) PROVE ReasonIInv'
  <2>1. UNCHANGED <<memory, tables, streamed, gone>>
    BY <1>5 DEF Unheard
  <2> QED BY <2>1 DEF memory, tables, ReasonIInv, ReasonTypes, CursorBehind, StreamedIsKept, IsSeq,
             OnRows, Archived
<1> QED BY <1>2, <1>3, <1>4, <1>5, DeltaKeeps, EvictKeeps, StepEndKeeps, CrashKeeps DEF ReasoningNext

(* Reasoning that streamed is in a buffer, on a row or in the archive, for *)
(* every number of turns and every transcript: only a crash, or an archive *)
(* write that fails when the buffer goes, loses any (chat_store.py,        *)
(* reasoning_reconcile.py).                                                *)
THEOREM ReasoningSurvives == ReasoningSpec => []StreamedIsKept
<1>1. ReasoningInit => ReasonIInv
  BY ReasonInitIInv
<1>2. ReasonIInv /\ [ReasoningNext]_reasoningVars => ReasonIInv'
  BY ReasonStepKeeps
<1>3. ReasonIInv => StreamedIsKept
  BY DEF ReasonIInv
<1> QED BY <1>1, <1>2, <1>3, PTL DEF ReasoningSpec

-----------------------------------------------------------------------------
(* Reasoning: how often what streamed is shown.                            *)

-----------------------------------------------------------------------------
(* A chunk is of one step of one turn, and nothing but what a step thought *)
(* was streamed.                                                           *)
Of(body, t, k) == \A c \in body : c[1] = t /\ c[2] = k

StepsNumbered ==
  \A t \in Turns :
    /\ step[t] \in Nat /\ IsSeq(said[t]) /\ IsFiniteSet(thought[t])
    /\ step[t] # 0 => Len(said[t]) = step[t] - 1
    /\ step[t] = 0 => thought[t] = {}
    /\ Of(thought[t], t, step[t])
    /\ \A k \in DOMAIN said[t] : Of(said[t][k].body, t, k)

Thought(c) ==
  \E t \in Turns : c \in thought[t] \/ \E k \in DOMAIN said[t] : c \in said[t][k].body

Own(t) == thought[t] \cup UNION {said[t][k].body : k \in DOMAIN said[t]}

(* What a turn that runs has in its buffer and has spent, unless it lost   *)
(* its buffer or the end of a step on the way.                             *)
BuffersFollow ==
  \A t \in Turns :
    /\ step[t] # 0 => buffer[t] \subseteq Own(t)
    /\ step[t] = 0 /\ said[t] = <<>> => buffer[t] = {}
    /\ step[t] # 0 /\ t \notin unsure =>
         /\ buffer[t] = thought[t] \cap streamed
         /\ \A k \in DOMAIN said[t] :
              said[t][k].body # {} /\ said[t][k].body \subseteq streamed => said[t][k].body \in spent[t]

(* Every row shows what finished steps thought, or nothing.                *)
Meets(i, body) == chat[i].reasoning \cap body # {}
RowsAreOfSteps ==
  \A i \in DOMAIN chat : \A c \in chat[i].reasoning :
    \E t \in Turns : \E k \in DOMAIN said[t] : c \in said[t][k].body

Clear(t, k) == t \notin unsure /\ said[t][k].body # {} /\ said[t][k].body \subseteq streamed
OneRowEach ==
  \A t \in Turns : \A k \in DOMAIN said[t] : Clear(t, k) =>
    \A i, j \in DOMAIN chat : Meets(i, said[t][k].body) /\ Meets(j, said[t][k].body) => i = j

(* A streamed step of a turn that runs, or is in the transcript, has a row *)
(* with its text: a row without reasoning is not taken for its.            *)
HasRow(t, k) ==
  Clear(t, k) => \E i \in DOMAIN chat : chat[i].text = said[t][k].text /\ Meets(i, said[t][k].body)
RunningHaveRows == \A t \in Turns : step[t] # 0 => \A k \in DOMAIN said[t] : HasRow(t, k)
Reported(m) ==
  /\ IsSeq(m)
  /\ \A j \in DOMAIN m : \E t \in Turns :
       step[t] = 0 /\ \E k \in DOMAIN said[t] : m[j] = said[t][k] /\ HasRow(t, k)
ReadWas(r) ==
  r = Idle \/ r = <<"waiting">> \/ \E m \in {r[2]} : r = <<"read", m>> /\ Reported(m)
TranscriptsReported == Reported(transcript) /\ ReadWas(sync) /\ (load = <<"waiting">> => FALSE) /\ ReadWas(load)

ShownTypes ==
  /\ step = [t \in Turns |-> step[t]] /\ said = [t \in Turns |-> said[t]]
  /\ thought = [t \in Turns |-> thought[t]]
  /\ buffer = [t \in Turns |-> buffer[t]] /\ spent = [t \in Turns |-> spent[t]]

ShownIInv ==
  /\ ShownTypes /\ StepsNumbered /\ (\A c \in streamed : Thought(c))
  /\ BuffersFollow /\ RowsAreOfSteps /\ OneRowEach /\ RunningHaveRows /\ TranscriptsReported

StepVars == <<step, thought, said, transcript, buffer, spent, chat, streamed, unsure, sync, load>>

(* It holds at the start.                                                  *)
LEMMA ShownStarts == ReasoningInit => ShownIInv
<1> SUFFICES ASSUME ReasoningInit PROVE ShownIInv
  OBVIOUS
<1>1. /\ step = [t \in Turns |-> 0] /\ thought = [t \in Turns |-> {}] /\ said = [t \in Turns |-> <<>>]
      /\ transcript = <<>> /\ buffer = [t \in Turns |-> {}] /\ spent = [t \in Turns |-> {}]
      /\ chat = <<>> /\ sync = Idle /\ load = Idle /\ streamed = {} /\ unsure = {}
  BY DEF ReasoningInit, Nothing
<1>2. ShownTypes
  BY <1>1 DEF ShownTypes
<1>3. IsFiniteSet({})
  BY FS_EmptySet
<1>4. IsSeq(<<>>) /\ DOMAIN <<>> = {}
  BY DEF IsSeq
<1>5. StepsNumbered
  BY <1>1, <1>3, <1>4 DEF StepsNumbered, Of
<1>6. BuffersFollow /\ RowsAreOfSteps /\ OneRowEach /\ RunningHaveRows
  BY <1>1, <1>4 DEF BuffersFollow, RowsAreOfSteps, OneRowEach, RunningHaveRows
<1>7. TranscriptsReported
  BY <1>1, <1>4 DEF TranscriptsReported, Reported, ReadWas, Idle
<1> QED BY <1>1, <1>2, <1>5, <1>6, <1>7 DEF ShownIInv

(* What is known of the finished steps is known as long as these, what     *)
(* streamed and the rows stay; turns may become unsure.                    *)
LEMMA RowsStay ==
  ASSUME NEW t, NEW k, HasRow(t, k),
         chat' = chat, said'[t][k] = said[t][k], unsure \subseteq unsure',
         Clear(t, k)' => Clear(t, k)
  PROVE  HasRow(t, k)'
  BY DEF HasRow, Meets

(* A chunk names its turn and its step.                                    *)
LEMMA StepsApart ==
  ASSUME StepsNumbered, NEW t \in Turns, NEW u \in Turns, NEW k \in DOMAIN said[t], NEW j \in DOMAIN said[u],
         said[t][k].body \cap said[u][j].body # {}
  PROVE  t = u /\ k = j
<1>1. PICK c : c \in said[t][k].body /\ c \in said[u][j].body
  OBVIOUS
<1>2. c[1] = t /\ c[2] = k /\ c[1] = u /\ c[2] = j
  BY <1>1 DEF StepsNumbered, Of
<1> QED BY <1>2

(* What a turn thinks at present is apart from every finished step ...     *)
LEMMA CurrentIsApart ==
  ASSUME StepsNumbered, NEW t \in Turns, NEW u \in Turns, NEW j \in DOMAIN said[u]
  PROVE  thought[t] \cap said[u][j].body = {}
<1> SUFFICES ASSUME NEW c, c \in thought[t], c \in said[u][j].body PROVE FALSE
  OBVIOUS
<1>1. c[1] = t /\ c[2] = step[t] /\ c[1] = u /\ c[2] = j
  BY DEF StepsNumbered, Of
<1>2. step[t] # 0 /\ Len(said[t]) = step[t] - 1 /\ step[t] \in Nat /\ DOMAIN said[t] = 1..Len(said[t])
  BY DEF StepsNumbered, IsSeq
<1> QED BY <1>1, <1>2

(* ... and on no row yet.                                                  *)
LEMMA CurrentUnshown ==
  ASSUME StepsNumbered, RowsAreOfSteps, NEW i \in DOMAIN chat, NEW t \in Turns
  PROVE  ~Meets(i, thought[t])
  BY CurrentIsApart DEF RowsAreOfSteps, Meets

(* A step of Hermes that changes nothing of the rows, of what was said and *)
(* of what streamed of it.                                                 *)
LEMMA RowsUntouched ==
  ASSUME RowsAreOfSteps, OneRowEach, RunningHaveRows,
         chat' = chat, said' = said, unsure \subseteq unsure',
         \A t \in Turns : \A k \in DOMAIN said[t] :
           /\ step'[t] = step[t]
           /\ said[t][k].body \subseteq streamed' => said[t][k].body \subseteq streamed
  PROVE  RowsAreOfSteps' /\ OneRowEach' /\ RunningHaveRows' /\ \A m : Reported(m) => Reported(m)'
<1>1. \A t \in Turns : \A k \in DOMAIN said[t] :
        /\ Clear(t, k)' => Clear(t, k)
        /\ HasRow(t, k) => HasRow(t, k)'
  BY DEF Clear, HasRow, Meets
<1>2. RowsAreOfSteps'
  BY DEF RowsAreOfSteps
<1>3. OneRowEach'
  BY <1>1 DEF OneRowEach, Meets
<1>4. RunningHaveRows'
  BY <1>1 DEF RunningHaveRows
<1>5. ASSUME NEW m, Reported(m) PROVE Reported(m)'
  <2> SUFFICES ASSUME NEW j \in DOMAIN m
               PROVE  \E t \in Turns : step'[t] = 0 /\ \E k \in DOMAIN said'[t] : m[j] = said'[t][k] /\ HasRow(t, k)'
    BY <1>5 DEF Reported
  <2>1. PICK t \in Turns : step[t] = 0 /\ \E k \in DOMAIN said[t] : m[j] = said[t][k] /\ HasRow(t, k)
    BY <1>5 DEF Reported
  <2>2. PICK k \in DOMAIN said[t] : m[j] = said[t][k] /\ HasRow(t, k)
    BY <2>1
  <2>3. step'[t] = 0 /\ k \in DOMAIN said'[t] /\ m[j] = said'[t][k] /\ HasRow(t, k)'
    BY <1>1, <2>1, <2>2
  <2> QED BY <2>3
<1> QED BY <1>2, <1>3, <1>4, <1>5

(* The transcripts stay reported when their steps do.                      *)
LEMMA ReadsStay ==
  ASSUME TranscriptsReported, \A m : Reported(m) => Reported(m)', transcript' = transcript,
         sync' \in {sync, Idle, <<"waiting">>} \/ (sync = <<"waiting">> /\ sync' = <<"read", transcript>>),
         load' \in {load, Idle} \/ load' = <<"read", transcript>>
  PROVE  TranscriptsReported'
<1>1. PICK n : n = transcript
  OBVIOUS
<1>2. Reported(n) /\ Reported(n)' /\ transcript' = n
  BY <1>1 DEF TranscriptsReported
<1>3. Reported(transcript)'
  BY <1>2
<1>4. ASSUME NEW r, ReadWas(r) PROVE ReadWas(r)'
  BY <1>4 DEF ReadWas
<1>5. ReadWas(Idle)' /\ ReadWas(<<"waiting">>)' /\ ReadWas(<<"read", n>>)'
  BY <1>2 DEF ReadWas
<1>6. PICK r : r = sync
  OBVIOUS
<1>7. PICK l : l = load
  OBVIOUS
<1>8. ReadWas(r)' /\ ReadWas(l)' /\ l # <<"waiting">>
  BY <1>4, <1>6, <1>7 DEF TranscriptsReported
<1>9. sync' \in {r, Idle, <<"waiting">>, <<"read", n>>} /\ load' \in {l, Idle, <<"read", n>>}
  BY <1>1, <1>6, <1>7
<1>10. ReadWas(sync)' /\ ReadWas(load)'
  BY <1>5, <1>8, <1>9
<1>11. load' # <<"waiting">>
  BY <1>8, <1>9 DEF Idle
<1> QED BY <1>3, <1>10, <1>11 DEF TranscriptsReported

(* A turn begins, or thinks.                                               *)
LEMMA BeginKeepsShown ==
  ASSUME ShownIInv, NEW t \in Turns, StepsBegin(t)
  PROVE  ShownIInv'
<1>1. /\ step[t] = 0 /\ said[t] = <<>> /\ step' = [step EXCEPT ![t] = 1]
      /\ UNCHANGED <<thought, said, transcript, buffer, spent, chat, sync, load, streamed, unsure>>
  BY DEF StepsBegin, memory, tables, readers, notes
<1>2. /\ ShownTypes /\ StepsNumbered /\ BuffersFollow /\ (\A c \in streamed : Thought(c))
      /\ RowsAreOfSteps /\ OneRowEach /\ RunningHaveRows /\ TranscriptsReported
  BY DEF ShownIInv
<1>3. ShownTypes' /\ step'[t] = 1 /\ \A u \in Turns \ {t} : step'[u] = step[u]
  BY <1>1, <1>2 DEF ShownTypes
<1>4. DOMAIN said[t] = {} /\ Len(said[t]) = 0 /\ thought[t] = {}
  BY <1>1, <1>2 DEF StepsNumbered
<1>5. StepsNumbered'
  BY <1>1, <1>2, <1>3, <1>4 DEF StepsNumbered, Of
<1>6. \A c \in streamed' : Thought(c)'
  BY <1>1, <1>2 DEF Thought
<1>7. BuffersFollow'
  BY <1>1, <1>2, <1>3, <1>4 DEF BuffersFollow, Own
<1>8. \A u \in Turns : \A k \in DOMAIN said[u] : step'[u] = step[u]
  BY <1>3, <1>4
<1>9. RowsAreOfSteps' /\ OneRowEach' /\ RunningHaveRows' /\ \A m : Reported(m) => Reported(m)'
  BY <1>1, <1>2, <1>8, RowsUntouched
<1>10. TranscriptsReported'
  BY <1>1, <1>2, <1>9, ReadsStay
<1> QED BY <1>3, <1>5, <1>6, <1>7, <1>9, <1>10 DEF ShownIInv

(* The next chunk of a turn is of its present step, and of no other.       *)
LEMMA NewIsNew ==
  ASSUME StepsNumbered, NEW t \in Turns, step[t] # 0
  PROVE  /\ NewThought(t)[1] = t /\ NewThought(t)[2] = step[t]
         /\ \A u \in Turns : \A k \in DOMAIN said[u] : NewThought(t) \notin said[u][k].body
         /\ \A u \in Turns \ {t} : NewThought(t) \notin thought[u]
<1>1. NewThought(t)[1] = t /\ NewThought(t)[2] = step[t]
  BY DEF NewThought, Chunk
<1>2. step[t] \in Nat /\ Len(said[t]) = step[t] - 1 /\ DOMAIN said[t] = 1..Len(said[t])
  BY DEF StepsNumbered, IsSeq
<1> QED BY <1>1, <1>2 DEF StepsNumbered, Of

(* It survives a thought, streamed or silent.                              *)
LEMMA ThoughtKeepsShown ==
  ASSUME ShownIInv, NEW t \in Turns,
         ThinksSilently(t) \/ \E how \in {"written", "later", "failed"} : Delta(t, how)
  PROVE  ShownIInv'
<1>1. /\ step[t] # 0 /\ thought' = [thought EXCEPT ![t] = @ \cup {NewThought(t)}]
      /\ \/ streamed' = streamed /\ buffer' = buffer
         \/ /\ streamed' = streamed \cup {NewThought(t)}
            /\ buffer' = [buffer EXCEPT ![t] = @ \cup {NewThought(t)}]
      /\ UNCHANGED <<step, said, transcript, spent, chat, sync, load, unsure>>
  BY DEF ThinksSilently, Delta, memory, tables, readers, notes
<1>2. /\ ShownTypes /\ StepsNumbered /\ BuffersFollow /\ (\A c \in streamed : Thought(c))
      /\ RowsAreOfSteps /\ OneRowEach /\ RunningHaveRows /\ TranscriptsReported
  BY DEF ShownIInv
<1>3. PICK new : new = NewThought(t)
  OBVIOUS
<1>4. /\ new[1] = t /\ new[2] = step[t]
      /\ \A u \in Turns : \A k \in DOMAIN said[u] : new \notin said[u][k].body
      /\ \A u \in Turns \ {t} : new \notin thought[u]
  BY <1>1, <1>2, <1>3, NewIsNew
<1>5. /\ thought'[t] = thought[t] \cup {new} /\ \A u \in Turns \ {t} : thought'[u] = thought[u]
      /\ ShownTypes'
  BY <1>1, <1>2, <1>3 DEF ShownTypes
<1>6. new \in streamed => new \in thought[t]
  BY <1>2, <1>4 DEF Thought
<1>7. IsFiniteSet(thought'[t])
  <2>1. PICK old : old = thought[t]
    OBVIOUS
  <2>2. IsFiniteSet(old)
    BY <1>2, <2>1 DEF StepsNumbered
  <2>3. IsFiniteSet(old \cup {new})
    BY <2>2, FS_AddElement
  <2>4. thought'[t] = old \cup {new}
    BY <1>5, <2>1
  <2> QED BY <2>3, <2>4
<1>10. StepsNumbered'
  <2> SUFFICES ASSUME NEW u \in Turns
               PROVE  /\ step'[u] \in Nat /\ IsSeq(said'[u]) /\ IsFiniteSet(thought'[u])
                      /\ step'[u] # 0 => Len(said'[u]) = step'[u] - 1
                      /\ step'[u] = 0 => thought'[u] = {}
                      /\ Of(thought'[u], u, step'[u])
                      /\ \A k \in DOMAIN said'[u] : Of(said'[u][k].body, u, k)
    BY DEF StepsNumbered, Of
  <2>1. CASE u = t
    BY <1>1, <1>2, <1>4, <1>5, <1>7, <2>1 DEF StepsNumbered, Of
  <2>2. CASE u # t
    BY <1>1, <1>2, <1>5, <2>2 DEF StepsNumbered, Of
  <2> QED BY <2>1, <2>2
<1>11. \A c \in streamed' : Thought(c)'
  BY <1>1, <1>2, <1>3, <1>5 DEF Thought
<1>12. /\ \A u \in Turns \ {t} : buffer'[u] = buffer[u] /\ thought'[u] \cap streamed' = thought[u] \cap streamed
       /\ \/ streamed' = streamed /\ buffer'[t] = buffer[t] /\ (new \in streamed => new \in thought[t])
          \/ buffer'[t] = buffer[t] \cup {new} /\ streamed' = streamed \cup {new}
  BY <1>1, <1>2, <1>3, <1>4, <1>5, <1>6 DEF ShownTypes
<1>13. \A u \in Turns : \A k \in DOMAIN said[u] :
         said[u][k].body \subseteq streamed' => said[u][k].body \subseteq streamed
  BY <1>1, <1>3, <1>4
<1>15. RowsAreOfSteps' /\ OneRowEach' /\ RunningHaveRows' /\ \A m : Reported(m) => Reported(m)'
  BY <1>1, <1>2, <1>13, RowsUntouched
<1>16. TranscriptsReported'
  BY <1>1, <1>2, <1>15, ReadsStay
<1>17. BuffersFollow'
  <2>1. \A u \in Turns : step'[u] # 0 => buffer'[u] \subseteq Own(u)'
    BY <1>1, <1>2, <1>5, <1>12 DEF BuffersFollow, Own
  <2>2. \A u \in Turns : step'[u] = 0 /\ said'[u] = <<>> => buffer'[u] = {}
    BY <1>1, <1>2, <1>12 DEF BuffersFollow
  <2>3. \A u \in Turns : step'[u] # 0 /\ u \notin unsure' => buffer'[u] = thought'[u] \cap streamed'
    BY <1>1, <1>2, <1>5, <1>12 DEF BuffersFollow
  <2>4. \A u \in Turns : step'[u] # 0 /\ u \notin unsure' =>
          \A k \in DOMAIN said'[u] :
            said'[u][k].body # {} /\ said'[u][k].body \subseteq streamed' => said'[u][k].body \in spent'[u]
    BY <1>1, <1>2, <1>13 DEF BuffersFollow
  <2> QED BY <2>1, <2>2, <2>3, <2>4 DEF BuffersFollow
<1> QED BY <1>5, <1>10, <1>11, <1>15, <1>16, <1>17 DEF ShownIInv

(* A step of a turn ends.                                                  *)
StepOver(t, last, words) ==
  /\ step[t] # 0 /\ last = step[t] /\ StepEnds(t, words)
  /\ \E then \in {0, step[t] + 1} : step' = [step EXCEPT ![t] = then]
  /\ streamed' = streamed /\ unsure' \in {unsure, unsure \cup {t}}

SaidMore(t, last, words) ==
  /\ IsSeq(said'[t]) /\ Len(said'[t]) = last /\ last \in Nat \ {0}
  /\ DOMAIN said[t] = 1..(last - 1) /\ DOMAIN said'[t] = 1..last
  /\ said'[t][last].text = words /\ said'[t][last].body = thought[t]
  /\ \A k \in DOMAIN said[t] : said'[t][k] = said[t][k]
  /\ thought'[t] = {}
  /\ \A u \in Turns \ {t} : said'[u] = said[u] /\ thought'[u] = thought[u] /\ step'[u] = step[u]

(* What the end of a step does to what was said and thought.               *)
LEMMA SaidIs ==
  ASSUME ShownTypes, StepsNumbered, NEW t \in Turns, NEW last, NEW words, StepOver(t, last, words)
  PROVE  SaidMore(t, last, words)
<1>1. PICK item : item = [text |-> words, body |-> thought[t]]
  OBVIOUS
<1>2. /\ said'[t] = Append(said[t], item) /\ \A u \in Turns \ {t} : said'[u] = said[u]
      /\ thought'[t] = {} /\ \A u \in Turns \ {t} : thought'[u] = thought[u]
  BY <1>1 DEF StepOver, StepEnds, ShownTypes, Nothing
<1>3. \A u \in Turns \ {t} : step'[u] = step[u]
  BY DEF StepOver, ShownTypes
<1>4. PICK old : old = said[t]
  OBVIOUS
<1>5. IsSeq(old) /\ Len(old) = last - 1 /\ last \in Nat \ {0}
  BY <1>4 DEF StepsNumbered, StepOver
<1>6. PICK new : new = Append(old, item)
  OBVIOUS
<1>7. /\ IsSeq(new) /\ Len(new) = Len(old) + 1 /\ new[Len(old) + 1] = item
      /\ \A i \in 1..Len(old) : new[i] = old[i]
  BY <1>5, <1>6, AppendIs
<1>8. DOMAIN old = 1..Len(old) /\ DOMAIN new = 1..Len(new) /\ Len(old) \in Nat
  BY <1>5, <1>7 DEF IsSeq
<1>9. said'[t] = new /\ said[t] = old
  BY <1>2, <1>4, <1>6
<1>10. /\ IsSeq(said'[t]) /\ Len(said'[t]) = last
       /\ DOMAIN said[t] = 1..(last - 1) /\ DOMAIN said'[t] = 1..last
       /\ \A k \in DOMAIN said[t] : said'[t][k] = said[t][k]
  BY <1>5, <1>7, <1>8, <1>9
<1>11. said'[t][last] = item
  BY <1>5, <1>7, <1>9
<1> QED BY <1>1, <1>2, <1>3, <1>5, <1>10, <1>11 DEF SaidMore

(* The steps stay numbered, their chunks apart.                            *)
LEMMA StepEndNumbers ==
  ASSUME ShownTypes, StepsNumbered, \A c \in streamed : Thought(c),
         NEW t \in Turns, NEW last, NEW words, StepOver(t, last, words)
  PROVE  StepsNumbered' /\ \A c \in streamed' : Thought(c)'
<1>1. SaidMore(t, last, words)
  BY SaidIs
<1>2. streamed' = streamed /\ last = step[t] /\ step'[t] \in {0, last + 1}
  BY DEF StepOver, ShownTypes
<1>3. IsFiniteSet({})
  BY FS_EmptySet
<1>5. Of(said'[t][last].body, t, last)
  BY <1>1, <1>2 DEF SaidMore, StepsNumbered, Of
<1>6. \A k \in DOMAIN said[t] : Of(said'[t][k].body, t, k)
  BY <1>1, <1>2 DEF SaidMore, StepsNumbered
<1>7. \A k \in DOMAIN said'[t] : k = last \/ k \in DOMAIN said[t]
  BY <1>1 DEF SaidMore
<1>8. \A k \in DOMAIN said'[t] : Of(said'[t][k].body, t, k)
  BY <1>5, <1>6, <1>7
<1>9. /\ step'[t] \in Nat /\ IsSeq(said'[t]) /\ IsFiniteSet(thought'[t])
      /\ step'[t] # 0 => Len(said'[t]) = step'[t] - 1
      /\ thought'[t] = {}
  BY <1>1, <1>2, <1>3 DEF SaidMore
<1>10. StepsNumbered'
  <2> SUFFICES ASSUME NEW u \in Turns
               PROVE  /\ step'[u] \in Nat /\ IsSeq(said'[u]) /\ IsFiniteSet(thought'[u])
                      /\ step'[u] # 0 => Len(said'[u]) = step'[u] - 1
                      /\ step'[u] = 0 => thought'[u] = {}
                      /\ Of(thought'[u], u, step'[u])
                      /\ \A k \in DOMAIN said'[u] : Of(said'[u][k].body, u, k)
    BY DEF StepsNumbered, Of
  <2>1. CASE u = t
    BY <1>8, <1>9, <2>1 DEF Of
  <2>2. CASE u # t
    <3>1. said'[u] = said[u] /\ thought'[u] = thought[u] /\ step'[u] = step[u]
      BY <1>1, <2>2 DEF SaidMore
    <3>2. /\ step[u] \in Nat /\ IsSeq(said[u]) /\ IsFiniteSet(thought[u])
          /\ step[u] # 0 => Len(said[u]) = step[u] - 1
          /\ step[u] = 0 => thought[u] = {}
          /\ Of(thought[u], u, step[u])
          /\ \A k \in DOMAIN said[u] : Of(said[u][k].body, u, k)
      BY DEF StepsNumbered
    <3> QED BY <3>1, <3>2
  <2> QED BY <2>1, <2>2
<1>11. ASSUME NEW c \in streamed' PROVE Thought(c)'
  <2>1. PICK u \in Turns : c \in thought[u] \/ \E k \in DOMAIN said[u] : c \in said[u][k].body
    BY <1>2, <1>11 DEF Thought
  <2>2. CASE u = t /\ c \in thought[u]
    <3>1. last \in DOMAIN said'[t] /\ c \in said'[t][last].body
      BY <1>1, <2>2 DEF SaidMore
    <3> QED BY <3>1 DEF Thought
  <2>3. CASE u = t /\ c \notin thought[u]
    <3>1. PICK k \in DOMAIN said[t] : c \in said[t][k].body
      BY <2>1, <2>3
    <3>2. k \in DOMAIN said'[t] /\ c \in said'[t][k].body
      BY <1>1, <3>1 DEF SaidMore
    <3> QED BY <3>2 DEF Thought
  <2>4. CASE u # t
    BY <1>1, <2>1, <2>4 DEF SaidMore, Thought
  <2> QED BY <2>2, <2>3, <2>4
<1> QED BY <1>10, <1>11

(* The row the step gets, if it gets one.                                  *)
RowFits(t, shown) ==
  /\ shown \subseteq Own(t)
  /\ t \notin unsure =>
       \/ shown \subseteq thought[t]
       \/ \E k \in DOMAIN said[t] :
            shown \subseteq said[t][k].body /\ ~(said[t][k].body \subseteq streamed)
RowDue(t) == t \notin unsure /\ thought[t] # {} /\ thought[t] \subseteq streamed
RowComes(t, shown, words) ==
  \/ chat' = chat
  \/ /\ chat' = Append(chat, [text |-> words, reasoning |-> shown])
     /\ RowFits(t, shown) /\ (RowDue(t) => shown \cap thought[t] # {})

(* A row that shows what the ended step thought, or what did not stream    *)
(* whole, disturbs no other, and stands for its step.                      *)
LEMMA RowsFollow ==
  ASSUME ShownIInv, IsSeq(chat), NEW t \in Turns, NEW last, NEW words, StepOver(t, last, words),
         NEW shown, RowComes(t, shown, words)
  PROVE  /\ RowsAreOfSteps' /\ OneRowEach' /\ IsSeq(chat')
         /\ \A u \in Turns : \A k \in DOMAIN said[u] : HasRow(u, k) => HasRow(u, k)'
         /\ (chat' = chat => ~RowDue(t)) => HasRow(t, last)'
<1>1. /\ ShownTypes /\ StepsNumbered /\ BuffersFollow /\ (\A c \in streamed : Thought(c))
      /\ RowsAreOfSteps /\ OneRowEach /\ RunningHaveRows
  BY DEF ShownIInv
<1>2. SaidMore(t, last, words) /\ streamed' = streamed /\ unsure \subseteq unsure'
  BY <1>1, SaidIs DEF StepOver
<1>3. PICK n : n = Len(chat) + 1
  OBVIOUS
<1>4. /\ IsSeq(chat') /\ DOMAIN chat \subseteq DOMAIN chat' /\ n \notin DOMAIN chat
      /\ \A i \in DOMAIN chat : chat'[i] = chat[i]
      /\ \/ DOMAIN chat' = DOMAIN chat /\ chat' = chat
         \/ /\ DOMAIN chat' = DOMAIN chat \cup {n}
            /\ chat'[n].text = words /\ chat'[n].reasoning = shown
            /\ RowFits(t, shown) /\ (RowDue(t) => shown \cap thought[t] # {})
  <2>1. CASE chat' = chat
    BY <1>3, <2>1 DEF IsSeq
  <2>2. CASE chat' = Append(chat, [text |-> words, reasoning |-> shown])
    <3>1. /\ IsSeq(chat') /\ Len(chat') = Len(chat) + 1
          /\ chat'[Len(chat) + 1] = [text |-> words, reasoning |-> shown]
          /\ \A i \in 1..Len(chat) : chat'[i] = chat[i]
      BY <2>2, AppendIs
    <3>2. DOMAIN chat = 1..Len(chat) /\ DOMAIN chat' = 1..(Len(chat) + 1) /\ Len(chat) \in Nat
      BY <3>1 DEF IsSeq
    <3>3. CASE chat' = chat
      BY <3>1, <3>2, <3>3
    <3>4. CASE RowFits(t, shown) /\ (RowDue(t) => shown \cap thought[t] # {})
      <4>1. chat'[n].text = words /\ chat'[n].reasoning = shown
        BY <1>3, <3>1
      <4>2. /\ DOMAIN chat' = DOMAIN chat \cup {n} /\ n \notin DOMAIN chat
            /\ \A i \in DOMAIN chat : chat'[i] = chat[i]
        BY <1>3, <3>1, <3>2
      <4> QED BY <3>1, <3>4, <4>1, <4>2
    <3> QED BY <3>3, <3>4 DEF RowComes
  <2> QED BY <2>1, <2>2 DEF RowComes
<1>5. \A u \in Turns : \A k \in DOMAIN said[u] :
        k \in DOMAIN said'[u] /\ said'[u][k] = said[u][k] /\ (Clear(u, k)' => Clear(u, k))
  <2> TAKE u \in Turns
  <2> TAKE k \in DOMAIN said[u]
  <2>1. k \in DOMAIN said'[u] /\ said'[u][k] = said[u][k]
    BY <1>2 DEF SaidMore
  <2> QED BY <1>2, <2>1 DEF Clear
<1>6. \A u \in Turns : \A k \in DOMAIN said'[u] : k \in DOMAIN said[u] \/ (u = t /\ k = last)
  BY <1>2 DEF SaidMore
<1>7. last \in DOMAIN said'[t] /\ said'[t][last].text = words /\ said'[t][last].body = thought[t]
  BY <1>2 DEF SaidMore
<1>8. Clear(t, last)' => RowDue(t)
  BY <1>2, <1>7 DEF Clear, RowDue
<1>9. RowsAreOfSteps'
  <2> SUFFICES ASSUME NEW i \in DOMAIN chat', NEW c \in chat'[i].reasoning
               PROVE  \E u \in Turns : \E k \in DOMAIN said'[u] : c \in said'[u][k].body
    BY DEF RowsAreOfSteps
  <2>1. CASE i \in DOMAIN chat
    BY <1>1, <1>4, <1>5, <2>1 DEF RowsAreOfSteps
  <2>2. CASE i \notin DOMAIN chat
    <3>1. chat'[i].reasoning = shown /\ RowFits(t, shown)
      BY <1>4, <2>2
    <3>2. c \in thought[t] \/ \E k \in DOMAIN said[t] : c \in said[t][k].body
      BY <3>1 DEF RowFits, Own
    <3> QED BY <1>5, <1>7, <3>2
  <2> QED BY <2>1, <2>2
<1>10. ASSUME NEW u \in Turns, NEW k \in DOMAIN said[u], HasRow(u, k) PROVE HasRow(u, k)'
  BY <1>4, <1>5, <1>10 DEF HasRow, Meets
<1>11. ASSUME chat' = chat => ~RowDue(t) PROVE HasRow(t, last)'
  <2> SUFFICES ASSUME RowDue(t)
               PROVE  \E i \in DOMAIN chat' :
                        chat'[i].text = said'[t][last].text /\ chat'[i].reasoning \cap said'[t][last].body # {}
    BY <1>8 DEF HasRow, Meets
  <2> QED BY <1>4, <1>7, <1>11
<1>12. ASSUME NEW i \in DOMAIN chat, NEW u \in Turns, NEW k \in DOMAIN said'[u],
              chat'[i].reasoning \cap said'[u][k].body # {}
       PROVE  k \in DOMAIN said[u] /\ Meets(i, said[u][k].body)
  <2>1. chat'[i] = chat[i]
    BY <1>4
  <2>2. ~(u = t /\ k = last)
    BY <1>1, <1>7, <1>12, <2>1, CurrentUnshown DEF Meets
  <2> QED BY <1>5, <1>6, <1>12, <2>1, <2>2 DEF Meets
<1>13. ASSUME NEW u \in Turns, NEW k \in DOMAIN said'[u], Clear(u, k)', NEW i \in DOMAIN chat,
              chat'[n].reasoning \cap said'[u][k].body # {}, chat'[i].reasoning \cap said'[u][k].body # {},
              n \in DOMAIN chat'
       PROVE  FALSE
  <2>1. k \in DOMAIN said[u] /\ Meets(i, said[u][k].body)
    BY <1>12, <1>13
  <2>2. shown \cap said[u][k].body # {} /\ Clear(u, k) /\ RowFits(t, shown)
    BY <1>4, <1>5, <1>13, <2>1
  <2>3. t = u
    <3>1. PICK c : c \in shown /\ c \in said[u][k].body
      BY <2>2
    <3>2. c[1] = u
      BY <1>1, <2>1, <3>1 DEF StepsNumbered, Of
    <3>3. c[1] = t
      BY <1>1, <2>2, <3>1 DEF RowFits, Own, StepsNumbered, Of
    <3> QED BY <3>2, <3>3
  <2>4. ~(shown \subseteq thought[t])
    BY <1>1, <2>1, <2>2, CurrentIsApart
  <2>5. PICK j \in DOMAIN said[t] : shown \subseteq said[t][j].body /\ ~(said[t][j].body \subseteq streamed)
    BY <2>2, <2>3, <2>4 DEF RowFits, Clear
  <2>6. k = j
    BY <1>1, <2>1, <2>2, <2>5, StepsApart
  <2> QED BY <2>2, <2>3, <2>5, <2>6 DEF Clear
<1>14. OneRowEach'
  <2> SUFFICES ASSUME NEW u \in Turns, NEW k \in DOMAIN said'[u], Clear(u, k)',
                      NEW i \in DOMAIN chat', NEW j \in DOMAIN chat',
                      chat'[i].reasoning \cap said'[u][k].body # {}, chat'[j].reasoning \cap said'[u][k].body # {}
               PROVE  i = j
    BY DEF OneRowEach, Meets
  <2>1. CASE i \in DOMAIN chat /\ j \in DOMAIN chat
    <3>1. k \in DOMAIN said[u] /\ Meets(i, said[u][k].body) /\ Meets(j, said[u][k].body)
      BY <1>12, <2>1
    <3> QED BY <1>1, <1>5, <2>1, <3>1 DEF OneRowEach
  <2>2. CASE i \notin DOMAIN chat \/ j \notin DOMAIN chat
    BY <1>4, <1>13, <2>2
  <2> QED BY <2>1, <2>2
<1> QED BY <1>4, <1>9, <1>10, <1>11, <1>14

(* The three ways a step ends with the gateway listening, and the one it   *)
(* does not hear of.                                                       *)
LEMMA ShownIsDue ==
  ASSUME ShownIInv, NEW t \in Turns, step[t] # 0, NEW shown,
         shown = buffer[t]
  PROVE  RowFits(t, shown) /\ (RowDue(t) => shown = thought[t] /\ shown \cap thought[t] # {})
  BY DEF ShownIInv, BuffersFollow, RowFits, RowDue

(* What final_reasoning chooses is such a row: the live text, or a claim   *)
(* that either belongs to this step or did not stream whole.               *)
LEMMA ClaimFits ==
  ASSUME ShownIInv, NEW t \in Turns, step[t] # 0, NEW claimed \in Claims(t), NEW shown,
         shown = FinalReasoning(buffer[t], claimed, spent[t])
  PROVE  RowFits(t, shown) /\ (RowDue(t) => shown \cap thought[t] # {})
<1>1. /\ StepsNumbered /\ BuffersFollow
      /\ buffer[t] \subseteq Own(t)
      /\ t \notin unsure =>
           /\ buffer[t] = thought[t] \cap streamed
           /\ \A k \in DOMAIN said[t] :
                said[t][k].body # {} /\ said[t][k].body \subseteq streamed => said[t][k].body \in spent[t]
  BY DEF ShownIInv, BuffersFollow
<1>2. \/ claimed = {}
      \/ claimed = thought[t]
      \/ thought[t] = {} /\ \E k \in DOMAIN said[t] : claimed = said[t][k].body
  <2>1. PICK bodies : bodies = Append([i \in DOMAIN said[t] |-> said[t][i].body], thought[t])
    OBVIOUS
  <2>2. PICK old : old = [i \in DOMAIN said[t] |-> said[t][i].body]
    OBVIOUS
  <2>3. IsSeq(said[t]) /\ DOMAIN said[t] = 1..Len(said[t]) /\ Len(said[t]) \in Nat
    BY <1>1 DEF StepsNumbered, IsSeq
  <2>4. IsSeq(old) /\ Len(old) = Len(said[t])
    BY <2>2, <2>3 DEF IsSeq
  <2>5. bodies = Append(old, thought[t])
    BY <2>1, <2>2
  <2>6. /\ IsSeq(bodies) /\ Len(bodies) = Len(old) + 1 /\ bodies[Len(old) + 1] = thought[t]
        /\ \A i \in 1..Len(old) : bodies[i] = old[i]
    BY <2>4, <2>5, AppendIs
  <2>7. DOMAIN bodies = 1..(Len(old) + 1)
    BY <2>6 DEF IsSeq
  <2>8. CASE claimed # {}
    <3>1. PICK j \in DOMAIN bodies : /\ bodies[j] # {} /\ claimed = bodies[j]
                                     /\ \A k \in DOMAIN bodies : bodies[k] # {} => k <= j
      BY <2>1, <2>8 DEF Claims, Nothing
    <3>2. CASE j = Len(old) + 1
      BY <2>6, <3>1, <3>2
    <3>3. CASE j # Len(old) + 1
      <4>1. j \in 1..Len(old) /\ j \in DOMAIN said[t]
        BY <2>3, <2>4, <2>7, <3>1, <3>3
      <4>2. bodies[Len(old) + 1] = {}
        BY <2>4, <2>3, <2>7, <3>1, <4>1
      <4>3. claimed = said[t][j].body
        BY <2>2, <2>6, <3>1, <4>1
      <4> QED BY <2>6, <4>1, <4>2, <4>3
    <3> QED BY <3>2, <3>3
  <2> QED BY <2>8
<1>3. CASE shown = buffer[t]
  BY <1>3, ShownIsDue
<1>4. CASE shown = claimed /\ claimed = thought[t]
  BY <1>4 DEF RowFits, RowDue, Own
<1>5. CASE shown = {} /\ buffer[t] = {}
  BY <1>1, <1>5 DEF RowFits, RowDue
<1>6. ASSUME shown = claimed, claimed # {}, thought[t] = {}, NEW k \in DOMAIN said[t], claimed = said[t][k].body,
             buffer[t] = {} => claimed \notin spent[t]
      PROVE  RowFits(t, shown) /\ (RowDue(t) => shown \cap thought[t] # {})
  <2>1. t \notin unsure => ~(said[t][k].body \subseteq streamed)
    BY <1>1, <1>6
  <2> QED BY <1>6, <2>1 DEF RowFits, RowDue, Own
<1> QED BY <1>2, <1>3, <1>4, <1>5, <1>6 DEF FinalReasoning, Nothing

(* The concatenation of two sequences, by places.                          *)
LEMMA JoinIs ==
  ASSUME NEW a, NEW b, IsSeq(a), IsSeq(b)
  PROVE  /\ IsSeq(a \o b) /\ Len(a \o b) = Len(a) + Len(b)
         /\ \A i \in 1..Len(a) : (a \o b)[i] = a[i]
         /\ \A i \in (Len(a) + 1)..(Len(a) + Len(b)) : (a \o b)[i] = b[i - Len(a)]
<1> DEFINE S == {a[i] : i \in 1..Len(a)} \cup {b[i] : i \in 1..Len(b)}
<1>1. a \in Seq(S) /\ b \in Seq(S)
  <2>1. (\A i \in 1..Len(a) : a[i] \in S) /\ (\A i \in 1..Len(b) : b[i] \in S)
    OBVIOUS
  <2> HIDE DEF S
  <2>2. [i \in 1..Len(a) |-> a[i]] \in Seq(S) /\ [i \in 1..Len(b) |-> b[i]] \in Seq(S)
    BY <2>1 DEF IsSeq
  <2> QED BY <2>2 DEF IsSeq
<1> HIDE DEF S
<1>2. /\ a \o b \in Seq(S) /\ Len(a \o b) = Len(a) + Len(b)
      /\ \A i \in 1..Len(a) : (a \o b)[i] = a[i]
      /\ \A i \in (Len(a) + 1)..(Len(a) + Len(b)) : (a \o b)[i] = b[i - Len(a)]
  BY <1>1
<1>3. \A q \in Seq(S) : IsSeq(q)
  BY DEF IsSeq
<1> QED BY <1>2, <1>3

(* After a step, what the turn spent is what its steps streamed.           *)
LEMMA BuffersAfter ==
  ASSUME ShownIInv, NEW t \in Turns, NEW last, NEW words, StepOver(t, last, words),
         \/ step'[t] = 0 /\ \A u \in Turns \ {t} : buffer'[u] = buffer[u] /\ spent'[u] = spent[u]
         \/ buffer' = [buffer EXCEPT ![t] = {}] /\ spent' = Spending(t)
         \/ buffer' = buffer /\ spent' = spent /\ t \in unsure'
  PROVE  BuffersFollow'
<1>1. ShownTypes /\ StepsNumbered /\ BuffersFollow
  BY DEF ShownIInv
<1>2. /\ SaidMore(t, last, words) /\ streamed' = streamed /\ step[t] # 0
      /\ unsure \subseteq unsure' /\ unsure' \subseteq unsure \cup {t}
  BY <1>1, SaidIs DEF StepOver
<1>3. \A u \in Turns \ {t} : /\ buffer'[u] = buffer[u] /\ spent'[u] = spent[u]
                             /\ said'[u] = said[u] /\ thought'[u] = thought[u] /\ step'[u] = step[u]
  BY <1>1, <1>2 DEF SaidMore, Spending, ShownTypes
<1>4. said'[t] # <<>>
  BY <1>2 DEF SaidMore
<1>5. ASSUME NEW u \in Turns \ {t}
      PROVE  /\ step'[u] # 0 => buffer'[u] \subseteq Own(u)'
             /\ step'[u] = 0 /\ said'[u] = <<>> => buffer'[u] = {}
             /\ step'[u] # 0 /\ u \notin unsure' =>
                  /\ buffer'[u] = thought'[u] \cap streamed'
                  /\ \A k \in DOMAIN said'[u] :
                       said'[u][k].body # {} /\ said'[u][k].body \subseteq streamed'
                         => said'[u][k].body \in spent'[u]
  <2>1. Own(u)' = Own(u)
    BY <1>3 DEF Own
  <2> QED BY <1>1, <1>2, <1>3, <2>1 DEF BuffersFollow
<1>6. CASE step'[t] = 0
  BY <1>4, <1>5, <1>6 DEF BuffersFollow
<1>7. CASE buffer' = [buffer EXCEPT ![t] = {}] /\ spent' = Spending(t)
  <2>1. buffer'[t] = {} /\ thought'[t] = {}
    BY <1>1, <1>2, <1>7 DEF SaidMore, ShownTypes
  <2>2. /\ spent[t] \subseteq spent'[t] /\ (buffer[t] # {} => buffer[t] \in spent'[t])
    BY <1>1, <1>7 DEF Spending, ShownTypes, Nothing
  <2>3. ASSUME t \notin unsure, NEW k \in DOMAIN said'[t],
               said'[t][k].body # {}, said'[t][k].body \subseteq streamed
        PROVE  said'[t][k].body \in spent'[t]
    <3>1. CASE k \in DOMAIN said[t]
      BY <1>1, <1>2, <2>2, <2>3, <3>1 DEF SaidMore, BuffersFollow
    <3>2. CASE k = last
      <4>1. said'[t][k].body = thought[t] /\ buffer[t] = thought[t]
        BY <1>1, <1>2, <2>3, <3>2 DEF SaidMore, BuffersFollow
      <4> QED BY <2>2, <2>3, <4>1
    <3> QED BY <1>2, <3>1, <3>2 DEF SaidMore
  <2> QED BY <1>2, <1>4, <1>5, <2>1, <2>3 DEF BuffersFollow
<1>8. CASE buffer' = buffer /\ t \in unsure'
  <2>1. Own(t) \subseteq Own(t)'
    <3> SUFFICES ASSUME NEW c \in Own(t) PROVE c \in Own(t)'
      OBVIOUS
    <3>1. c \in thought[t] \/ \E k \in DOMAIN said[t] : c \in said[t][k].body
      BY DEF Own
    <3>2. \E k \in DOMAIN said'[t] : c \in said'[t][k].body
      BY <1>2, <3>1 DEF SaidMore
    <3> QED BY <3>2 DEF Own
  <2>2. step'[t] # 0 => buffer'[t] \subseteq Own(t)'
    BY <1>1, <1>2, <1>8, <2>1 DEF BuffersFollow
  <2> QED BY <1>4, <1>5, <1>8, <2>2 DEF BuffersFollow
<1> QED BY <1>6, <1>7, <1>8

(* It survives the end of a step with such a row ...                       *)
LEMMA StepEndKeepsShown ==
  ASSUME ShownIInv, IsSeq(chat), NEW t \in Turns, NEW last, NEW words, StepOver(t, last, words),
         NEW shown, RowComes(t, shown, words),
         \/ step'[t] = 0 /\ \A u \in Turns \ {t} : buffer'[u] = buffer[u] /\ spent'[u] = spent[u]
         \/ buffer' = [buffer EXCEPT ![t] = {}] /\ spent' = Spending(t)
         \/ buffer' = buffer /\ spent' = spent /\ t \in unsure',
         buffer' = [u \in Turns |-> buffer'[u]], spent' = [u \in Turns |-> spent'[u]],
         step'[t] = 0 \/ t \in unsure' \/ (chat' = chat => ~RowDue(t)),
         \/ transcript' = transcript
         \/ /\ transcript' = transcript \o said'[t] /\ step'[t] = 0
            /\ t \in unsure' \/ chat' # chat,
         sync' \in {sync, <<"waiting">>}, load' = load
  PROVE  ShownIInv'
<1>1. /\ ShownTypes /\ StepsNumbered /\ BuffersFollow /\ (\A c \in streamed : Thought(c))
      /\ RowsAreOfSteps /\ OneRowEach /\ RunningHaveRows /\ TranscriptsReported
  BY DEF ShownIInv
<1>2. SaidMore(t, last, words) /\ step[t] # 0
  BY <1>1, SaidIs DEF StepOver
<1>3. ShownTypes'
  BY <1>1 DEF ShownTypes, StepOver, StepEnds
<1>4. StepsNumbered' /\ \A c \in streamed' : Thought(c)'
  BY <1>1, StepEndNumbers
<1>5. BuffersFollow'
  BY BuffersAfter
<1>6. /\ RowsAreOfSteps' /\ OneRowEach'
      /\ \A u \in Turns : \A k \in DOMAIN said[u] : HasRow(u, k) => HasRow(u, k)'
      /\ (chat' = chat => ~RowDue(t)) => HasRow(t, last)'
  BY RowsFollow
<1>7. ASSUME t \in unsure' \/ (chat' = chat => ~RowDue(t)), NEW k \in DOMAIN said'[t] PROVE HasRow(t, k)'
  <2>0. CASE t \in unsure'
    BY <2>0 DEF HasRow, Clear
  <2>1. CASE k = last
    BY <1>6, <1>7, <2>0, <2>1
  <2>2. CASE k \in DOMAIN said[t]
    BY <1>1, <1>2, <1>6, <2>2 DEF RunningHaveRows
  <2> QED BY <1>2, <2>1, <2>2 DEF SaidMore
<1>8. RunningHaveRows'
  <2> SUFFICES ASSUME NEW u \in Turns, step'[u] # 0, NEW k \in DOMAIN said'[u] PROVE HasRow(u, k)'
    BY DEF RunningHaveRows
  <2>1. CASE u = t
    BY <1>7, <2>1
  <2>2. CASE u # t
    BY <1>1, <1>2, <1>6, <2>2 DEF SaidMore, RunningHaveRows
  <2> QED BY <2>1, <2>2
<1>9. ASSUME NEW m, Reported(m) PROVE Reported(m)'
  <2> SUFFICES ASSUME NEW j \in DOMAIN m
               PROVE  \E u \in Turns : step'[u] = 0 /\ \E k \in DOMAIN said'[u] : m[j] = said'[u][k] /\ HasRow(u, k)'
    BY <1>9 DEF Reported
  <2>1. PICK u \in Turns : step[u] = 0 /\ \E k \in DOMAIN said[u] : m[j] = said[u][k] /\ HasRow(u, k)
    BY <1>9 DEF Reported
  <2>2. PICK k \in DOMAIN said[u] : m[j] = said[u][k] /\ HasRow(u, k)
    BY <2>1
  <2>3. step'[u] = 0 /\ k \in DOMAIN said'[u] /\ m[j] = said'[u][k] /\ HasRow(u, k)'
    BY <1>2, <1>6, <2>1, <2>2 DEF SaidMore
  <2> QED BY <2>3
<1>10. Reported(transcript)'
  <2>1. PICK m : m = transcript
    OBVIOUS
  <2>2. Reported(m) /\ Reported(m)'
    BY <1>1, <1>9, <2>1 DEF TranscriptsReported
  <2>3. CASE transcript' = transcript
    BY <2>1, <2>2, <2>3
  <2>4. CASE /\ transcript' = transcript \o said'[t] /\ step'[t] = 0
             /\ t \in unsure' \/ chat' # chat
    <3>1. PICK a : a = said'[t]
      OBVIOUS
    <3>2. PICK n : n = m \o a
      OBVIOUS
    <3>3. IsSeq(m) /\ IsSeq(a) /\ transcript' = n
      BY <1>2, <2>1, <2>2, <2>4, <3>1, <3>2 DEF Reported, SaidMore
    <3>4. /\ IsSeq(n) /\ Len(n) = Len(m) + Len(a)
          /\ \A i \in 1..Len(m) : n[i] = m[i]
          /\ \A i \in (Len(m) + 1)..(Len(m) + Len(a)) : n[i] = a[i - Len(m)]
      BY <3>2, <3>3, JoinIs
    <3>5. /\ DOMAIN n = 1..(Len(m) + Len(a)) /\ DOMAIN m = 1..Len(m) /\ DOMAIN a = 1..Len(a)
          /\ Len(m) \in Nat /\ Len(a) \in Nat
      BY <3>3, <3>4 DEF IsSeq
    <3>6. ASSUME NEW j \in DOMAIN n
          PROVE  \E u \in Turns : step'[u] = 0 /\ \E k \in DOMAIN said'[u] : n[j] = said'[u][k] /\ HasRow(u, k)'
      <4>1. CASE j \in DOMAIN m
        BY <2>2, <3>4, <3>5, <4>1 DEF Reported
      <4>2. CASE j \notin DOMAIN m
        <5>1. j - Len(m) \in DOMAIN a /\ n[j] = a[j - Len(m)]
          BY <3>4, <3>5, <4>2
        <5>2. HasRow(t, j - Len(m))' /\ step'[t] = 0
          BY <1>7, <2>4, <3>1, <5>1
        <5> QED BY <3>1, <5>1, <5>2
      <4> QED BY <4>1, <4>2
    <3>7. Reported(n)'
      BY <3>4, <3>6 DEF Reported
    <3> QED BY <3>3, <3>7
  <2> QED BY <2>3, <2>4
<1>11. TranscriptsReported'
  <2>1. ASSUME NEW r, ReadWas(r) PROVE ReadWas(r)'
    BY <1>9, <2>1 DEF ReadWas
  <2>2. PICK r : r = sync
    OBVIOUS
  <2>3. PICK l : l = load
    OBVIOUS
  <2>4. ReadWas(r)' /\ ReadWas(l)' /\ l # <<"waiting">> /\ ReadWas(<<"waiting">>)'
    BY <1>1, <2>1, <2>2, <2>3 DEF TranscriptsReported, ReadWas
  <2>5. sync' \in {r, <<"waiting">>} /\ load' = l
    BY <2>2, <2>3
  <2>6. ReadWas(sync)' /\ ReadWas(load)' /\ load' # <<"waiting">>
    BY <2>4, <2>5
  <2> QED BY <1>10, <2>6 DEF TranscriptsReported
<1> QED BY <1>3, <1>4, <1>5, <1>6, <1>8, <1>11 DEF ShownIInv

(* ... hence an interim, a tool call, a completion, an end the gateway     *)
(* does not hear of, and an abandoned turn.                                *)
LEMMA EndsKeepShown ==
  ASSUME ReasonIInv, ShownIInv, NEW t \in Turns, NEW ok \in BOOLEAN,
         \/ Abandoned(t) \/ ToolStarted(t, ok)
         \/ \E text \in Texts : Interim(t, text, ok)
         \/ \E text \in Texts, claimed \in Claims(t) : Completed(t, text, claimed, ok)
         \/ \E text \in Texts \cup {NoText}, over \in BOOLEAN : Unheard(t, text, over)
  PROVE  ShownIInv'
<1>1. IsSeq(chat) /\ ShownTypes
  BY DEF ReasonIInv, ReasonTypes, ShownIInv
<1>2. ASSUME NEW row PROVE chat # Append(chat, row)
  <2>1. PICK more : more = Append(chat, row)
    OBVIOUS
  <2>2. Len(more) = Len(chat) + 1 /\ Len(chat) \in Nat
    BY <1>1, <2>1, AppendIs DEF IsSeq
  <2> QED BY <2>1, <2>2
<1>3. CASE Abandoned(t)
  <2>1. /\ step[t] # 0 /\ StepEnds(t, NoText) /\ step' = [step EXCEPT ![t] = 0]
        /\ UNCHANGED <<transcript, buffer, spent, chat, sync, load, streamed, unsure>>
    BY <1>3 DEF Abandoned, StepEnds, memory, tables, readers, notes
  <2>2. StepOver(t, step[t], NoText) /\ step'[t] = 0 /\ RowComes(t, {}, NoText)
    BY <1>1, <2>1 DEF StepOver, ShownTypes, RowComes
  <2>3. /\ \A u \in Turns \ {t} : buffer'[u] = buffer[u] /\ spent'[u] = spent[u]
        /\ buffer' = [u \in Turns |-> buffer'[u]] /\ spent' = [u \in Turns |-> spent'[u]]
    BY <1>1, <2>1 DEF ShownTypes
  <2> QED BY <1>1, <2>1, <2>2, <2>3, StepEndKeepsShown
<1>4. CASE ToolStarted(t, ok) \/ \E text \in Texts : Interim(t, text, ok)
  <2>1. PICK words : \/ ToolStarted(t, ok) /\ words = NoText
                     \/ words \in Texts /\ Interim(t, words, ok)
    BY <1>4
  <2>2. PICK shown : shown = buffer[t]
    OBVIOUS
  <2>3. /\ step[t] # 0 /\ StepEnds(t, words) /\ step' = [step EXCEPT ![t] = @ + 1]
        /\ buffer' = [buffer EXCEPT ![t] = {}] /\ spent' = Spending(t)
        /\ UNCHANGED <<transcript, sync, load, streamed, unsure>>
        /\ \/ chat' = chat /\ shown = {}
           \/ chat' = Append(chat, [text |-> words, reasoning |-> shown])
    BY <2>1, <2>2 DEF ToolStarted, Interim, Spend, readers, Nothing
  <2>4. RowFits(t, shown) /\ (RowDue(t) => shown = thought[t] /\ shown \cap thought[t] # {})
    BY <2>2, <2>3, ShownIsDue
  <2>5. StepOver(t, step[t], words) /\ RowComes(t, shown, words)
    BY <1>1, <2>3, <2>4 DEF StepOver, ShownTypes, RowComes
  <2>6. chat' = chat => ~RowDue(t)
    BY <1>2, <2>3, <2>4
  <2>7. /\ buffer' = [u \in Turns |-> buffer'[u]] /\ spent' = [u \in Turns |-> spent'[u]]
    BY <1>1, <2>3 DEF ShownTypes, Spending
  <2> QED BY <1>1, <2>3, <2>5, <2>6, <2>7, StepEndKeepsShown
<1>5. ASSUME NEW text \in Texts, NEW claimed \in Claims(t), Completed(t, text, claimed, ok)
      PROVE  ShownIInv'
  <2>1. PICK shown : shown = FinalReasoning(buffer[t], claimed, spent[t])
    OBVIOUS
  <2>2. /\ step[t] # 0 /\ StepEnds(t, text) /\ step' = [step EXCEPT ![t] = 0]
        /\ buffer' = [buffer EXCEPT ![t] = {}] /\ spent' = [spent EXCEPT ![t] = {}]
        /\ UNCHANGED <<load, streamed, unsure>> /\ transcript' = transcript \o said'[t]
        /\ chat' = Append(chat, [text |-> text, reasoning |-> shown])
        /\ sync' \in {sync, <<"waiting">>}
    BY <1>5, <2>1 DEF Completed, Spend, Scheduled, Nothing
  <2>3. RowFits(t, shown) /\ (RowDue(t) => shown \cap thought[t] # {})
    BY <2>1, <2>2, ClaimFits
  <2>4. StepOver(t, step[t], text) /\ RowComes(t, shown, text) /\ step'[t] = 0 /\ chat' # chat
    BY <1>1, <1>2, <2>2, <2>3 DEF StepOver, ShownTypes, RowComes
  <2>5. /\ \A u \in Turns \ {t} : buffer'[u] = buffer[u] /\ spent'[u] = spent[u]
        /\ buffer' = [u \in Turns |-> buffer'[u]] /\ spent' = [u \in Turns |-> spent'[u]]
    BY <1>1, <2>2 DEF ShownTypes
  <2> QED BY <1>1, <2>2, <2>4, <2>5, StepEndKeepsShown
<1>6. ASSUME NEW text \in Texts \cup {NoText}, NEW over \in BOOLEAN, Unheard(t, text, over)
      PROVE  ShownIInv'
  <2>1. /\ step[t] # 0 /\ StepEnds(t, text) /\ unsure' = unsure \cup {t}
        /\ UNCHANGED <<buffer, spent, chat, sync, load, streamed>>
        /\ \/ step' = [step EXCEPT ![t] = 0] /\ transcript' = transcript \o said'[t]
           \/ step' = [step EXCEPT ![t] = @ + 1] /\ transcript' = transcript
    BY <1>6 DEF Unheard, memory, tables, readers
  <2>2. /\ StepOver(t, step[t], text) /\ RowComes(t, {}, text) /\ t \in unsure'
        /\ \/ step'[t] = 0 /\ transcript' = transcript \o said'[t]
           \/ transcript' = transcript
    BY <1>1, <2>1 DEF StepOver, ShownTypes, RowComes
  <2>3. buffer' = [u \in Turns |-> buffer'[u]] /\ spent' = [u \in Turns |-> spent'[u]]
    BY <1>1, <2>1 DEF ShownTypes
  <2> QED BY <1>1, <2>1, <2>2, <2>3, StepEndKeepsShown
<1> QED BY <1>3, <1>4, <1>5, <1>6

(* Buffers are dropped, a transcript is read or given up.                  *)
LEMMA QuietKeepsShown ==
  ASSUME ShownIInv,
         UNCHANGED <<step, thought, said, transcript, chat, streamed>>, unsure \subseteq unsure',
         sync' \in {sync, Idle, <<"waiting">>} \/ (sync = <<"waiting">> /\ sync' = <<"read", transcript>>),
         load' \in {load, Idle} \/ load' = <<"read", transcript>>,
         buffer' = [u \in Turns |-> buffer'[u]], spent' = [u \in Turns |-> spent'[u]],
         \A u \in Turns :
           \/ buffer'[u] = buffer[u] /\ spent'[u] = spent[u]
           \/ buffer'[u] = {} /\ (step[u] # 0 => u \in unsure')
  PROVE  ShownIInv'
<1>1. /\ ShownTypes /\ StepsNumbered /\ BuffersFollow /\ (\A c \in streamed : Thought(c))
      /\ RowsAreOfSteps /\ OneRowEach /\ RunningHaveRows /\ TranscriptsReported
  BY DEF ShownIInv
<1>2. RowsAreOfSteps' /\ OneRowEach' /\ RunningHaveRows' /\ \A m : Reported(m) => Reported(m)'
  BY <1>1, RowsUntouched
<1>3. TranscriptsReported'
  BY <1>1, <1>2, ReadsStay
<1>4. ShownTypes'
  BY <1>1 DEF ShownTypes
<1>5. StepsNumbered' /\ \A c \in streamed' : Thought(c)'
  BY <1>1 DEF StepsNumbered, Of, Thought
<1>6. BuffersFollow'
  BY <1>1 DEF BuffersFollow, Own
<1> QED BY <1>2, <1>3, <1>4, <1>5, <1>6 DEF ShownIInv

(* An eviction and a crash make their turns unsure.                        *)
LEMMA DropsKeepShown ==
  ASSUME ShownIInv, Crash \/ \E ok \in BOOLEAN : Evict(ok)
  PROVE  ShownIInv'
<1>1. CASE Crash
  <2>1. /\ UNCHANGED <<step, thought, said, transcript, chat, streamed>>
        /\ unsure' = unsure \cup {t \in Turns : step[t] # 0}
        /\ buffer' = [t \in Turns |-> {}] /\ spent' = [t \in Turns |-> {}]
        /\ sync' = Idle /\ load' = Idle
    BY <1>1 DEF Crash, agent, tables, Nothing
  <2>2. \A u \in Turns : buffer'[u] = {} /\ (step[u] # 0 => u \in unsure')
    BY <2>1
  <2> QED BY <2>1, <2>2, QuietKeepsShown
<1>2. CASE \E ok \in BOOLEAN : Evict(ok)
  <2>1. PICK t : /\ UNCHANGED <<step, thought, said, transcript, chat, streamed, sync, load>>
                 /\ unsure' = unsure \cup {t}
                 /\ buffer' = [buffer EXCEPT ![t] = {}] /\ spent' = [spent EXCEPT ![t] = {}]
    BY <1>2 DEF Evict, agent, readers, Nothing
  <2>2. /\ buffer' = [u \in Turns |-> buffer'[u]] /\ spent' = [u \in Turns |-> spent'[u]]
        /\ \A u \in Turns : \/ buffer'[u] = buffer[u] /\ spent'[u] = spent[u]
                            \/ buffer'[u] = {} /\ (step[u] # 0 => u \in unsure')
    BY <2>1 DEF ShownIInv, ShownTypes
  <2> QED BY <2>1, <2>2, QuietKeepsShown
<1> QED BY <1>1, <1>2

(* Rows are rewritten from a transcript of finished turns: a row with      *)
(* reasoning gets more of its own step's, a row without gets that of a     *)
(* step with its text when it alone has that text.                         *)
Alone(i) == HowMany(chat, chat[i].text) = 1
Upgrades(i, m) ==
  /\ i \in DOMAIN chat' /\ chat'[i].text = chat[i].text
  /\ \/ chat'[i].reasoning = chat[i].reasoning
     \/ \E j \in DOMAIN m :
          /\ m[j].text = chat[i].text /\ chat'[i].reasoning = m[j].body
          /\ chat[i].reasoning \subseteq m[j].body
          /\ chat[i].reasoning # {} \/ Alone(i)

(* _match and _upgrade do no more than that.                               *)
LEMMA UpgradeIs ==
  ASSUME IsSeq(chat), NEW m, IsSeq(m), Reconcile(m)
  PROVE  DOMAIN chat' = DOMAIN chat /\ \A i \in DOMAIN chat : Upgrades(i, m)
<1>1. PICK u : chat' =
        [i \in 1..Len(chat) |->
          IF \E k \in First(Matches(chat[i], m, u[i - 1])) :
               Cardinality(m[k].body) > Cardinality(chat[i].reasoning)
          THEN [text |-> chat[i].text,
                reasoning |-> UNION {m[k].body : k \in First(Matches(chat[i], m, u[i - 1]))}]
          ELSE chat[i]]
  BY DEF Reconcile, Upgraded
<1>2. DOMAIN chat' = DOMAIN chat /\ DOMAIN chat = 1..Len(chat)
  BY <1>1 DEF IsSeq
<1>3. ASSUME NEW i \in DOMAIN chat PROVE Upgrades(i, m)
  <2> DEFINE match == First(Matches(chat[i], m, u[i - 1]))
  <2>1. \A k \in match : /\ k \in DOMAIN m /\ m[k].text = chat[i].text /\ chat[i].reasoning \subseteq m[k].body
                         /\ chat[i].reasoning # {} \/ Alone(i)
    <3>1. \A k \in match : k \in Matches(chat[i], m, u[i - 1])
      BY DEF First
    <3>2. ASSUME NEW k \in Matches(chat[i], m, u[i - 1])
          PROVE  /\ k \in DOMAIN m /\ m[k].text = chat[i].text /\ chat[i].reasoning \subseteq m[k].body
                 /\ chat[i].reasoning # {} \/ Alone(i)
      <4>1. k \in DOMAIN m /\ m[k].text = chat[i].text /\ chat[i].reasoning \subseteq m[k].body
        BY DEF Matches, Found, Within
      <4>2. chat[i].reasoning # {} \/ HowMany(chat, chat[i].text) = 1 \/ Cardinality(chat[i].reasoning) >= Anchor
        BY DEF Matches, Nothing
      <4>3. Cardinality({}) = 0 /\ ~(0 >= Anchor)
        BY FS_EmptySet, ReasoningBounds
      <4> QED BY <4>1, <4>2, <4>3 DEF Alone
    <3> QED BY <3>1, <3>2
  <2>2. \A k, l \in match : k = l
    <3>1. \A k \in match : k \in Nat
      BY <2>1 DEF IsSeq
    <3>2. \A k, l \in match : k <= l
      BY DEF First
    <3> QED BY <3>1, <3>2
  <2>3. \/ chat'[i] = chat[i]
        \/ /\ \E k \in match : TRUE
           /\ chat'[i] = [text |-> chat[i].text, reasoning |-> UNION {m[k].body : k \in match}]
    BY <1>1, <1>2
  <2> HIDE DEF match
  <2>4. CASE chat'[i] = chat[i]
    BY <1>2, <2>4 DEF Upgrades
  <2>5. CASE chat'[i] # chat[i]
    <3>1. PICK all : all = UNION {m[k].body : k \in match}
      OBVIOUS
    <3>2. (\E k \in match : TRUE) /\ chat'[i] = [text |-> chat[i].text, reasoning |-> all]
      BY <2>3, <2>5, <3>1
    <3>3. PICK k \in match : TRUE
      BY <3>2
    <3>4. all = m[k].body
      BY <2>2, <3>1, <3>3
    <3>5. chat'[i].text = chat[i].text /\ chat'[i].reasoning = m[k].body
      BY <3>2, <3>4
    <3> QED BY <1>2, <2>1, <3>3, <3>5 DEF Upgrades
  <2> QED BY <2>4, <2>5
<1> QED BY <1>2, <1>3

(* Rows are finitely many.                                                 *)
LEMMA RowsAreFinite ==
  ASSUME IsSeq(chat), NEW S, S \subseteq DOMAIN chat
  PROVE  IsFiniteSet(S)
<1>1. DOMAIN chat = 1..Len(chat) /\ Len(chat) \in Nat
  BY DEF IsSeq
<1>2. IsFiniteSet(1..Len(chat))
  BY <1>1, FS_Interval
<1> QED BY <1>1, <1>2, FS_Subset

(* A text that occurs once is of one row.                                  *)
LEMMA AloneIsOnly ==
  ASSUME IsSeq(chat), NEW i \in DOMAIN chat, NEW j \in DOMAIN chat, Alone(i), chat[j].text = chat[i].text
  PROVE  i = j
<1>1. PICK S : S = {k \in DOMAIN chat : chat[k].text = chat[i].text}
  OBVIOUS
<1>2. IsFiniteSet(S) /\ i \in S /\ j \in S
  BY <1>1, RowsAreFinite
<1>3. Cardinality(S) = 1
  BY <1>1 DEF Alone, HowMany
<1>4. PICK x : S = {x}
  BY <1>2, <1>3, FS_Singleton
<1> QED BY <1>2, <1>4

(* Such an upgrade keeps every step on its one row: a row without          *)
(* reasoning that alone has a step's text has no rival that shows the      *)
(* step, since the step has a row with its text.                           *)
LEMMA UpgradeKeepsShown ==
  ASSUME ShownIInv, IsSeq(chat), NEW m, Reported(m),
         DOMAIN chat' = DOMAIN chat, \A i \in DOMAIN chat : Upgrades(i, m),
         UNCHANGED <<step, thought, said, transcript, buffer, spent, streamed, unsure>>,
         sync' \in {sync, Idle}, load' \in {load, Idle}
  PROVE  ShownIInv'
<1>1. /\ ShownTypes /\ StepsNumbered /\ BuffersFollow /\ (\A c \in streamed : Thought(c))
      /\ RowsAreOfSteps /\ OneRowEach /\ RunningHaveRows /\ TranscriptsReported
  BY DEF ShownIInv
<1>2. \A i \in DOMAIN chat : /\ chat'[i].text = chat[i].text
                             /\ chat[i].reasoning \subseteq chat'[i].reasoning
  BY DEF Upgrades
<1>3. ASSUME NEW i \in DOMAIN chat, NEW t \in Turns, NEW k \in DOMAIN said[t], Clear(t, k),
             chat'[i].reasoning \cap said[t][k].body # {}
      PROVE  Meets(i, said[t][k].body)
  <2>1. CASE chat'[i].reasoning = chat[i].reasoning
    BY <1>3, <2>1 DEF Meets
  <2>2. CASE chat'[i].reasoning # chat[i].reasoning
    <3>1. PICK j \in DOMAIN m : /\ m[j].text = chat[i].text /\ chat'[i].reasoning = m[j].body
                                /\ chat[i].reasoning \subseteq m[j].body
                                /\ chat[i].reasoning # {} \/ Alone(i)
      BY <2>2 DEF Upgrades
    <3>2. PICK u \in Turns : \E l \in DOMAIN said[u] : m[j] = said[u][l] /\ HasRow(u, l)
      BY DEF Reported
    <3>3. PICK l \in DOMAIN said[u] : m[j] = said[u][l] /\ HasRow(u, l)
      BY <3>2
    <3>4. t = u /\ k = l
      BY <1>1, <1>3, <3>1, <3>3, StepsApart
    <3>5. m[j] = said[t][k] /\ HasRow(t, k)
      BY <3>3, <3>4
    <3>6. CASE chat[i].reasoning # {}
      BY <3>1, <3>5, <3>6 DEF Meets
    <3>7. CASE Alone(i)
      <4>1. PICK only \in DOMAIN chat : chat[only].text = chat[i].text /\ Meets(only, said[t][k].body)
        BY <1>3, <3>1, <3>5 DEF HasRow
      <4>2. only = i
        BY <3>7, <4>1, AloneIsOnly
      <4> QED BY <4>1, <4>2
    <3> QED BY <3>1, <3>6, <3>7
  <2> QED BY <2>1, <2>2
<1>4. \A t \in Turns : \A k \in DOMAIN said[t] : /\ Clear(t, k)' <=> Clear(t, k)
                                                 /\ HasRow(t, k) => HasRow(t, k)'
  BY <1>2 DEF Clear, HasRow, Meets
<1>5. RowsAreOfSteps'
  <2> SUFFICES ASSUME NEW i \in DOMAIN chat, NEW c \in chat'[i].reasoning
               PROVE  \E t \in Turns : \E k \in DOMAIN said[t] : c \in said[t][k].body
    BY DEF RowsAreOfSteps
  <2>1. CASE chat'[i].reasoning = chat[i].reasoning
    BY <1>1, <2>1 DEF RowsAreOfSteps
  <2>2. CASE chat'[i].reasoning # chat[i].reasoning
    <3>1. PICK j \in DOMAIN m : chat'[i].reasoning = m[j].body
      BY <2>2 DEF Upgrades
    <3> QED BY <3>1 DEF Reported
  <2> QED BY <2>1, <2>2
<1>6. OneRowEach'
  <2> SUFFICES ASSUME NEW t \in Turns, NEW k \in DOMAIN said[t], Clear(t, k),
                      NEW i \in DOMAIN chat, NEW j \in DOMAIN chat,
                      chat'[i].reasoning \cap said[t][k].body # {}, chat'[j].reasoning \cap said[t][k].body # {}
               PROVE  i = j
    BY <1>4 DEF OneRowEach, Meets
  <2>1. Meets(i, said[t][k].body) /\ Meets(j, said[t][k].body)
    BY <1>3
  <2> QED BY <1>1, <2>1 DEF OneRowEach
<1>7. RunningHaveRows'
  BY <1>1, <1>4 DEF RunningHaveRows
<1>8. ASSUME NEW n, Reported(n) PROVE Reported(n)'
  <2> SUFFICES ASSUME NEW j \in DOMAIN n
               PROVE  \E t \in Turns : step'[t] = 0 /\ \E k \in DOMAIN said'[t] : n[j] = said'[t][k] /\ HasRow(t, k)'
    BY <1>8 DEF Reported
  <2>1. PICK t \in Turns : step[t] = 0 /\ \E k \in DOMAIN said[t] : n[j] = said[t][k] /\ HasRow(t, k)
    BY <1>8 DEF Reported
  <2>2. PICK k \in DOMAIN said[t] : n[j] = said[t][k] /\ HasRow(t, k)
    BY <2>1
  <2>3. step'[t] = 0 /\ k \in DOMAIN said'[t] /\ n[j] = said'[t][k] /\ HasRow(t, k)'
    BY <1>4, <2>1, <2>2
  <2> QED BY <2>3
<1>9. TranscriptsReported'
  BY <1>1, <1>8, ReadsStay
<1>10. ShownTypes'
  BY <1>1 DEF ShownTypes
<1>11. StepsNumbered' /\ \A c \in streamed' : Thought(c)'
  BY <1>1 DEF StepsNumbered, Of, Thought
<1>12. BuffersFollow'
  BY <1>1 DEF BuffersFollow, Own
<1> QED BY <1>5, <1>6, <1>7, <1>9, <1>10, <1>11, <1>12 DEF ShownIInv

(* It survives both reconciliations.                                       *)
LEMMA ReconcileKeepsShown ==
  ASSUME ReasonIInv, ShownIInv, SyncReconciles \/ LoadReconciles
  PROVE  ShownIInv'
<1>1. IsSeq(chat) /\ TranscriptsReported
  BY DEF ReasonIInv, ReasonTypes, ShownIInv
<1>2. PICK m : /\ Reconcile(m) /\ Reported(m)
               /\ UNCHANGED <<step, thought, said, transcript, buffer, spent, streamed, unsure>>
               /\ sync' \in {sync, Idle} /\ load' \in {load, Idle}
  <2>1. CASE SyncReconciles
    <3>1. sync # Idle /\ sync # <<"waiting">>
      BY <2>1 DEF SyncReconciles, Idle
    <3>2. Reported(sync[2])
      BY <1>1, <3>1 DEF TranscriptsReported, ReadWas
    <3> QED BY <2>1, <3>2 DEF SyncReconciles, agent, memory, notes
  <2>2. CASE LoadReconciles
    <3>1. Reported(load[2])
      BY <1>1, <2>2 DEF TranscriptsReported, ReadWas, LoadReconciles
    <3> QED BY <2>2, <3>1 DEF LoadReconciles, agent, memory, notes
  <2> QED BY <2>1, <2>2
<1>3. DOMAIN chat' = DOMAIN chat /\ \A i \in DOMAIN chat : Upgrades(i, m)
  BY <1>1, <1>2, UpgradeIs DEF Reported
<1> QED BY <1>1, <1>2, <1>3, UpgradeKeepsShown

(* Every step keeps it.                                                    *)
LEMMA ShownStepKeeps ==
  ASSUME ReasonIInv, ShownIInv, [ReasoningNext]_reasoningVars
  PROVE  ShownIInv'
<1>1. CASE SyncReads \/ SyncFails \/ LoadReads \/ UNCHANGED reasoningVars
  <2>1. /\ UNCHANGED <<step, thought, said, transcript, chat, streamed, unsure, buffer, spent>>
        /\ sync' \in {sync, Idle, <<"waiting">>} \/ (sync = <<"waiting">> /\ sync' = <<"read", transcript>>)
        /\ load' \in {load, Idle} \/ load' = <<"read", transcript>>
    BY <1>1 DEF SyncReads, SyncFails, LoadReads, reasoningVars, agent, memory, tables, notes, readers
  <2>2. /\ buffer' = [u \in Turns |-> buffer'[u]] /\ spent' = [u \in Turns |-> spent'[u]]
        /\ \A u \in Turns : buffer'[u] = buffer[u] /\ spent'[u] = spent[u]
    BY <2>1 DEF ShownIInv, ShownTypes
  <2> QED BY <2>1, <2>2, QuietKeepsShown
<1>2. ASSUME NEW t \in Turns, StepsBegin(t) \/ ThinksSilently(t) \/ Abandoned(t) PROVE ShownIInv'
  BY <1>2, BeginKeepsShown, ThoughtKeepsShown, EndsKeepShown
<1>3. ASSUME NEW t \in Turns, NEW how \in {"written", "later", "failed"}, Delta(t, how) PROVE ShownIInv'
  BY <1>3, ThoughtKeepsShown
<1>4. ASSUME NEW t \in Turns, NEW ok \in BOOLEAN,
             \/ ToolStarted(t, ok)
             \/ \E text \in Texts : Interim(t, text, ok)
             \/ \E text \in Texts, claimed \in Claims(t) : Completed(t, text, claimed, ok)
      PROVE  ShownIInv'
  BY <1>4, EndsKeepShown
<1>5. CASE Crash \/ \E ok \in BOOLEAN : Evict(ok)
  BY <1>5, DropsKeepShown
<1>6. CASE SyncReconciles \/ LoadReconciles
  BY <1>6, ReconcileKeepsShown
<1>7. ASSUME NEW t \in Turns, NEW text \in Texts \cup {NoText}, NEW over \in BOOLEAN, Unheard(t, text, over)
      PROVE  ShownIInv'
  BY <1>7, EndsKeepShown
<1> QED BY <1>1, <1>2, <1>3, <1>4, <1>5, <1>6, <1>7 DEF ReasoningNext

(* It implies the property: a chunk is of one step, and a step that        *)
(* streamed whole is on one row.                                           *)
LEMMA ShownImplied == ReasonIInv /\ ShownIInv => ShownOnce
<1> SUFFICES ASSUME ReasonIInv, ShownIInv, NEW c \in streamed, c[1] \notin unsure, StreamedWhole(c)
             PROVE  Cardinality({i \in DOMAIN chat : c \in chat[i].reasoning}) <= 1
  BY DEF ShownOnce
<1>1. StepsNumbered /\ RowsAreOfSteps /\ OneRowEach /\ Thought(c) /\ IsSeq(chat)
  BY DEF ShownIInv, ReasonIInv, ReasonTypes
<1>2. PICK S : S = {i \in DOMAIN chat : c \in chat[i].reasoning}
  OBVIOUS
<1>3. IsFiniteSet(S)
  BY <1>1, <1>2, RowsAreFinite
<1>4. ASSUME NEW i \in S, NEW j \in S PROVE i = j
  <2>1. i \in DOMAIN chat /\ j \in DOMAIN chat /\ c \in chat[i].reasoning /\ c \in chat[j].reasoning
    BY <1>2
  <2>2. PICK t \in Turns : c \in thought[t] \/ \E k \in DOMAIN said[t] : c \in said[t][k].body
    BY <1>1 DEF Thought
  <2>3. c \notin thought[t]
    BY <1>1, <2>1, CurrentUnshown DEF Meets
  <2>4. PICK k \in DOMAIN said[t] : c \in said[t][k].body
    BY <2>2, <2>3
  <2>5. Clear(t, k)
    BY <1>1, <2>4 DEF Clear, StepsNumbered, Of, StreamedWhole
  <2> QED BY <1>1, <2>1, <2>4, <2>5 DEF OneRowEach, Meets
<1>5. CASE S = {}
  BY <1>2, <1>5, FS_EmptySet
<1>6. CASE S # {}
  <2>1. PICK x : S = {x}
    BY <1>4, <1>6
  <2>2. Cardinality(S) = 1
    BY <2>1, FS_Singleton
  <2> QED BY <1>2, <2>2
<1> QED BY <1>5, <1>6

(* A chunk of a step that streamed whole is on one row at most, for every  *)
(* number of turns, steps and texts, unless the turn lost a buffer or the  *)
(* end of a step: the row of the step, what message.completed claims again *)
(* and what a transcript of Hermes completes are one and the same place    *)
(* (final_reasoning, _match).  Steps a reconnect took a part of are among  *)
(* the others: the theorem says that they do not disturb the whole ones.   *)
THEOREM StreamedIsShownOnce == ReasoningSpec => []ShownOnce
<1>1. ReasoningInit => ReasonIInv /\ ShownIInv
  BY ReasonInitIInv, ShownStarts
<1>2. ReasonIInv /\ ShownIInv /\ [ReasoningNext]_reasoningVars => ReasonIInv' /\ ShownIInv'
  BY ReasonStepKeeps, ShownStepKeeps
<1>3. ReasonIInv /\ ShownIInv => ShownOnce
  BY ShownImplied
<1> QED BY <1>1, <1>2, <1>3, PTL DEF ReasoningSpec
=============================================================================
