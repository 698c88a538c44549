------------------------ MODULE BackgroundLedgerProofs ------------------------
(***************************************************************************)
(* Theorems about BackgroundLedger and HookCapture, the two records of     *)
(* what goes on outside of any run, for any tasks, sessions, queues and    *)
(* bounds.                                                                 *)
(***************************************************************************)
EXTENDS BackgroundLedger, HookCapture, FiniteSetTheorems, TLAPS

-----------------------------------------------------------------------------
(* BackgroundLedger. A result is the number of the attempt that produced   *)
(* it, so that it is no earlier than its row's submission rests on what    *)
(* the connection tells apart: a completion of the present connection is   *)
(* of the last attempt under its id, since an id is free again only after  *)
(* the connection is gone.                                                 *)

Row == [state : {"none", "running", "finished", "orphaned"},
        session : Sessions \cup {NoSession},
        submit : Nat, result : Nat, generation : Nat]

LedgerFrame == [task : Tasks, generation : Nat, session : Sessions \cup {NoSession},
          result : Nat, attempt : Nat]

Work == [state : {"idle", "working", "done"}, attempt : Nat,
         session : Sessions \cup {NoSession}]

Types ==
  /\ ledger \in [Tasks -> Row]
  /\ submits \in [Tasks -> Row]
  /\ generation \in Nat
  /\ up \in BOOLEAN
  /\ seen \in Nat
  /\ wire \subseteq LedgerFrame
  /\ work \in [Tasks -> Work]
  /\ failures \in Nat

(* What is written of a submission is no later than the last one.          *)
Submissions ==
  \A t \in Tasks : /\ ledger[t].submit <= work[t].attempt
                   /\ submits[t].submit <= work[t].attempt

(* A completion of the present connection is of its id's last attempt,     *)
(* and as long as the connection lives the id is not free.                 *)
Completions ==
  \A f \in wire :
    /\ f.result # NoResult => f.result = f.attempt
    /\ f.generation <= generation
    /\ f.generation = generation =>
         /\ f.attempt = work[f.task].attempt
         /\ up => work[f.task].state = "done"

IInv == /\ Types /\ Submissions /\ Completions /\ NoEarlierResult
        /\ seen <= generation /\ RunningIsOfThisConnection

-----------------------------------------------------------------------------
(* Failures are counted, so that none happened while the count is zero.    *)
LEMMA CountsOne ==
  ASSUME failures \in Nat, NEW a \in BOOLEAN, Fails(<<a>>)
  PROVE  failures' \in Nat /\ (failures' = 0 => failures = 0 /\ ~a)
<1> DEFINE S == {x \in DOMAIN <<a>> : <<a>>[x]}
<1>1. S \subseteq 1..1
  OBVIOUS
<1>2. IsFiniteSet(S)
  BY <1>1, FS_Interval, FS_Subset
<1>3. Cardinality(S) \in Nat /\ (Cardinality(S) = 0 <=> S = {})
  BY <1>2, FS_CardinalityType, FS_EmptySet
<1>4. a => 1 \in S
  <2>1. 1 \in DOMAIN <<a>> /\ <<a>>[1] = a
    OBVIOUS
  <2>2. QED  BY <2>1
<1>5. failures' = failures + Cardinality(S)
  BY DEF Fails
<1> HIDE DEF S
<1>6. QED  BY <1>3, <1>4, <1>5

(* The failures among two writes are counted.                              *)
LEMMA CountsTwo ==
  ASSUME failures \in Nat, NEW a \in BOOLEAN, NEW b \in BOOLEAN, Fails(<<a, b>>)
  PROVE  failures' \in Nat /\ (failures' = 0 => failures = 0 /\ ~a /\ ~b)
<1> DEFINE S == {x \in DOMAIN <<a, b>> : <<a, b>>[x]}
<1>1. S \subseteq 1..2
  OBVIOUS
<1>2. IsFiniteSet(S)
  BY <1>1, FS_Interval, FS_Subset
<1>3. Cardinality(S) \in Nat /\ (Cardinality(S) = 0 <=> S = {})
  BY <1>2, FS_CardinalityType, FS_EmptySet
<1>4. (a => 1 \in S) /\ (b => 2 \in S)
  <2>1. /\ 1 \in DOMAIN <<a, b>> /\ <<a, b>>[1] = a
        /\ 2 \in DOMAIN <<a, b>> /\ <<a, b>>[2] = b
    OBVIOUS
  <2>2. QED  BY <2>1
<1>5. failures' = failures + Cardinality(S)
  BY DEF Fails
<1> HIDE DEF S
<1>6. QED  BY <1>3, <1>4, <1>5

-----------------------------------------------------------------------------
(* What a table may be turned into by a sweep: rows keep what was said of  *)
(* their submission and result.                                            *)
LEMMA SweepsOnlyOrphan ==
  ASSUME NEW table \in [Tasks -> Row]
  PROVE  /\ Orphaned(table) \in [Tasks -> Row]
         /\ \A t \in Tasks : /\ Orphaned(table)[t].submit = table[t].submit
                             /\ Orphaned(table)[t].result = table[t].result
                             /\ Orphaned(table)[t].state # "running"
<1> SUFFICES ASSUME NEW t \in Tasks
             PROVE  /\ Orphaned(table)[t] \in Row
                    /\ Orphaned(table)[t].submit = table[t].submit
                    /\ Orphaned(table)[t].result = table[t].result
                    /\ Orphaned(table)[t].state # "running"
  BY DEF Orphaned
<1>1. table[t] \in Row
  OBVIOUS
<1>2. CASE table[t].state = "running"
  BY <1>1, <1>2 DEF Orphaned, Row
<1>3. CASE table[t].state # "running"
  BY <1>1, <1>3 DEF Orphaned, Row
<1>4. QED  BY <1>2, <1>3

(* What a note of the generation leaves: the table as it was, or swept.    *)
LEMMA NotedRows ==
  ASSUME IInv, NEW missed \in BOOLEAN, missed => Moved
  PROVE  /\ Noted(missed) \in [Tasks -> Row]
         /\ \A t \in Tasks : /\ Noted(missed)[t].submit = ledger[t].submit
                             /\ Noted(missed)[t].result = ledger[t].result
                             /\ failures = 0 /\ ~missed /\ Noted(missed)[t].state = "running"
                                  => Noted(missed)[t].generation = generation
<1>1. ledger \in [Tasks -> Row]
  BY DEF IInv, Types
<1>2. CASE Moved /\ ~missed
  BY <1>1, <1>2, SweepsOnlyOrphan DEF Noted
<1>3. CASE ~(Moved /\ ~missed)
  <2>1. Noted(missed) = ledger
    BY <1>3 DEF Noted
  <2>2. ~missed => seen = generation
    BY <1>3 DEF Moved
  <2>3. QED  BY <1>1, <2>1, <2>2 DEF IInv, RunningIsOfThisConnection
<1>4. QED  BY <1>2, <1>3

(* A completion keeps the row's submission; it sets a result only where    *)
(* the row has none that is final.                                         *)
LEMMA CompletedRow ==
  ASSUME NEW row \in Row, NEW result \in Nat, NEW hint \in Sessions \cup {NoSession}
  PROVE  /\ Completed(row, result, hint) \in Row
         /\ Completed(row, result, hint).submit = row.submit
         /\ Completed(row, result, hint).result \in {row.result, result}
         /\ Completed(row, result, hint).state # "running"
<1>1. CASE row = NoRow
  BY <1>1 DEF Completed, NoRow, NoResult, NoSession, Row
<1>2. CASE row # NoRow /\ row.state = "finished"
  BY <1>2 DEF Completed
<1>3. CASE row # NoRow /\ row.state # "finished"
  BY <1>3 DEF Completed, Row
<1>4. QED  BY <1>1, <1>2, <1>3

-----------------------------------------------------------------------------
(* It holds at the start.                                                  *)
LEMMA InitHolds == Init => IInv
<1> SUFFICES ASSUME Init PROVE IInv
  OBVIOUS
<1>1. NoRow \in Row
  BY DEF NoRow, Row, NoResult, NoSession
<1>2. Types
  BY <1>1 DEF Init, Types, Work, LedgerFrame, NoSession
<1>3. Submissions /\ Completions /\ NoEarlierResult /\ seen <= generation
  BY DEF Init, Submissions, Completions, NoEarlierResult, NoRow, NoResult
<1>4. RunningIsOfThisConnection
  BY DEF Init, RunningIsOfThisConnection, NoRow
<1>5. QED  BY <1>2, <1>3, <1>4 DEF IInv

(* The connection and Hermes: the ledger is left alone.                    *)
LEMMA OutsideKeeps ==
  ASSUME IInv,
         \/ Connect \/ Disconnect \/ HermesRestart
         \/ \E s \in Sessions : Attach(s)
  PROVE  IInv'
<1>1. UNCHANGED <<ledger, submits, seen, wire, failures>>
  BY DEF Connect, Disconnect, HermesRestart, Attach, gatewayVars
<1>2. CASE Connect
  <2>1. generation' = generation + 1 /\ up' = TRUE /\ work' = work
    BY <1>2 DEF Connect
  <2>2. Types'
    BY <1>1, <2>1 DEF IInv, Types
  <2>3. Submissions' /\ NoEarlierResult'
    BY <1>1, <2>1 DEF IInv, Submissions, NoEarlierResult
  <2>4. seen' < generation'
    BY <1>1, <2>1 DEF IInv, Types
  <2>5. RunningIsOfThisConnection'
    BY <2>2, <2>4 DEF RunningIsOfThisConnection, Types
  <2>6. ASSUME NEW f \in wire PROVE f.generation < generation'
    BY <2>1, <2>6 DEF IInv, Types, Completions, LedgerFrame
  <2>7. Completions'
    <3> SUFFICES ASSUME NEW f \in wire
                 PROVE  /\ f.result # NoResult => f.result = f.attempt
                        /\ f.generation <= generation'
                        /\ f.generation # generation'
      BY <1>1 DEF Completions
    <3>1. f.generation \in Nat /\ generation' \in Nat
      BY <2>2 DEF IInv, Types, LedgerFrame
    <3>2. QED  BY <2>6, <3>1 DEF IInv, Completions
  <2>8. seen' <= generation'
    BY <2>2, <2>4 DEF Types
  <2>9. QED  BY <2>2, <2>3, <2>5, <2>7, <2>8 DEF IInv
<1>3. CASE Disconnect \/ HermesRestart
  <2>1. generation' = generation /\ up' = FALSE
    BY <1>3 DEF Disconnect, HermesRestart
  <2>2. /\ work' \in [Tasks -> Work]
        /\ \A t \in Tasks : work'[t].attempt = work[t].attempt
    <3>1. CASE Disconnect
      BY <3>1 DEF Disconnect, IInv, Types
    <3>2. CASE HermesRestart
      BY <3>2 DEF HermesRestart, IInv, Types, Work
    <3>3. QED  BY <1>3, <3>1, <3>2
  <2>3. Types'
    BY <1>1, <2>1, <2>2 DEF IInv, Types
  <2>4. Submissions' /\ NoEarlierResult'
    BY <1>1, <2>2 DEF IInv, Submissions, NoEarlierResult
  <2>5. Completions'
    BY <1>1, <2>1, <2>2 DEF IInv, Types, Completions, LedgerFrame
  <2>6. seen' <= generation' /\ RunningIsOfThisConnection'
    BY <1>1, <2>1 DEF IInv, RunningIsOfThisConnection
  <2>7. QED  BY <2>3, <2>4, <2>5, <2>6 DEF IInv
<1>4. CASE \E s \in Sessions : Attach(s)
  <2>1. UNCHANGED <<generation, up, work>>
    BY <1>4 DEF Attach
  <2>2. QED
    BY <1>1, <2>1
    DEF IInv, Types, Submissions, Completions, NoEarlierResult, RunningIsOfThisConnection
<1>5. QED  BY <1>2, <1>3, <1>4

(* A new attempt under an id: no completion of the present connection is   *)
(* of this id, since it was free and the connection is up.                 *)
LEMMA SubmitKeeps ==
  ASSUME IInv, NEW t \in Tasks, NEW s \in Sessions, NEW answered \in BOOLEAN,
         Submit(t, s, answered)
  PROVE  IInv'
<1>1. UNCHANGED <<ledger, seen, generation, up, wire, failures>>
  BY DEF Submit
<1>2. work[t] \in Work /\ work[t].attempt \in Nat /\ up /\ work[t].state = "idle"
  BY DEF Submit, IInv, Types, Work
<1>3. /\ work' \in [Tasks -> Work]
      /\ work'[t].attempt = work[t].attempt + 1
      /\ \A x \in Tasks : /\ work[x].attempt <= work'[x].attempt
                          /\ x # t => work'[x] = work[x]
  BY <1>2 DEF Submit, IInv, Types, Work
<1>4. /\ submits' \in [Tasks -> Row]
      /\ \A x \in Tasks : \/ submits'[x].submit = submits[x].submit
                          \/ x = t /\ submits'[x].submit = work'[x].attempt
  <2>1. CASE answered
    <3>1. PICK n \in Nat : n = work[t].attempt + 1
      BY <1>2
    <3> DEFINE row == [NoRow EXCEPT !.session = s, !.submit = n]
    <3>2. NoRow \in Row
      BY DEF NoRow, Row, NoResult, NoSession
    <3>3. row \in Row /\ row.submit = n
      BY <3>2 DEF Row
    <3>4. submits' = [submits EXCEPT ![t] = row]
      BY <2>1, <3>1 DEF Submit
    <3> HIDE DEF row
    <3>5. QED  BY <1>3, <3>1, <3>3, <3>4 DEF IInv, Types
  <2>2. CASE ~answered
    BY <2>2 DEF Submit, IInv, Types
  <2>3. QED  BY <2>1, <2>2
<1>5. Types'
  BY <1>1, <1>3, <1>4 DEF IInv, Types
<1>6. Submissions'
  <2> SUFFICES ASSUME NEW x \in Tasks
               PROVE  ledger[x].submit <= work'[x].attempt /\ submits'[x].submit <= work'[x].attempt
    BY <1>1 DEF Submissions
  <2>1. /\ ledger[x].submit \in Nat /\ submits[x].submit \in Nat
        /\ work[x].attempt \in Nat /\ work'[x].attempt \in Nat
    BY <1>3 DEF IInv, Types, Row, Work
  <2>2. ledger[x].submit <= work[x].attempt /\ submits[x].submit <= work[x].attempt
    BY DEF IInv, Submissions
  <2>3. QED  BY <1>3, <1>4, <2>1, <2>2
<1>7. Completions'
  <2> SUFFICES ASSUME NEW f \in wire, f.generation = generation
               PROVE  f.attempt = work'[f.task].attempt /\ work'[f.task].state = "done"
    BY <1>1 DEF Completions, IInv
  <2>1. f.task \in Tasks
    BY DEF IInv, Types, LedgerFrame
  <2>2. f.attempt = work[f.task].attempt /\ work[f.task].state = "done"
    BY <1>2 DEF IInv, Completions
  <2>3. f.task # t
    BY <1>2, <2>2
  <2>4. QED  BY <1>3, <2>1, <2>2, <2>3
<1>8. NoEarlierResult' /\ seen' <= generation' /\ RunningIsOfThisConnection'
  BY <1>1 DEF IInv, NoEarlierResult, RunningIsOfThisConnection
<1>9. QED  BY <1>5, <1>6, <1>7, <1>8 DEF IInv

(* The row of a submission is written under the present connection.        *)
LEMMA RecordSubmittedKeeps ==
  ASSUME IInv, NEW t \in Tasks, NEW failed \in BOOLEAN, RecordSubmitted(t, failed)
  PROVE  IInv'
<1>1. UNCHANGED <<seen, generation, up, wire, work>>
  BY DEF RecordSubmitted, connectionVars
<1>2. failures' \in Nat /\ (failures' = 0 => failures = 0)
  BY CountsOne DEF RecordSubmitted, IInv, Types
<1> DEFINE r == Submitted(submits[t].session, submits[t].submit)
<1>3. /\ r \in Row /\ r.submit = submits[t].submit
      /\ r.result = 0 /\ r.generation = generation
  BY DEF IInv, Types, Submitted, Row, NoResult
<1>4. NoRow \in Row /\ NoRow.submit = 0
  BY DEF NoRow, Row, NoResult, NoSession
<1>5. submits' = [submits EXCEPT ![t] = NoRow]
  BY DEF RecordSubmitted
<1>6. ledger' = ledger \/ ledger' = [ledger EXCEPT ![t] = r]
  BY DEF RecordSubmitted
<1> HIDE DEF r
<1>7. Types'
  BY <1>1, <1>2, <1>3, <1>4, <1>5, <1>6 DEF IInv, Types
<1>8. Submissions'
  <2> SUFFICES ASSUME NEW x \in Tasks
               PROVE  ledger'[x].submit <= work[x].attempt /\ submits'[x].submit <= work[x].attempt
    BY <1>1 DEF Submissions
  <2>1. ledger'[x].submit \in {ledger[x].submit, submits[x].submit}
    BY <1>3, <1>6 DEF IInv, Types
  <2>2. submits'[x].submit \in {submits[x].submit, 0}
    BY <1>4, <1>5 DEF IInv, Types
  <2>3. work[x].attempt \in Nat
    BY DEF IInv, Types, Work
  <2>4. QED  BY <2>1, <2>2, <2>3 DEF IInv, Submissions
<1>9. Completions' /\ seen' <= generation'
  BY <1>1 DEF IInv, Completions
<1>10. NoEarlierResult'
  BY <1>3, <1>6 DEF IInv, Types, NoEarlierResult, NoResult
<1>11. RunningIsOfThisConnection'
  BY <1>1, <1>2, <1>3, <1>6 DEF IInv, Types, RunningIsOfThisConnection
<1>12. QED  BY <1>7, <1>8, <1>9, <1>10, <1>11 DEF IInv

(* Hermes ends the last attempt under an id.                               *)
LEMMA FinishKeeps ==
  ASSUME IInv, NEW t \in Tasks, NEW text \in BOOLEAN, Finish(t, text)
  PROVE  IInv'
<1>1. UNCHANGED <<ledger, submits, seen, generation, up, failures>>
  BY DEF Finish, gatewayVars, connectionVars
<1>2. work[t] \in Work
  BY DEF IInv, Types
<1>3. /\ work' \in [Tasks -> Work]
      /\ work'[t].state = "done"
      /\ \A x \in Tasks : /\ work'[x].attempt = work[x].attempt
                          /\ x # t => work'[x] = work[x]
  BY <1>2 DEF Finish, IInv, Types, Work
<1> DEFINE f0 == [task |-> t, generation |-> generation, session |-> work[t].session,
                  result |-> IF text THEN work[t].attempt ELSE NoResult,
                  attempt |-> work[t].attempt]
<1>4. /\ f0 \in LedgerFrame /\ f0.task = t /\ f0.generation = generation
      /\ f0.attempt = work[t].attempt /\ f0.result \in {NoResult, f0.attempt}
  BY <1>2 DEF IInv, Types, LedgerFrame, Work, NoResult
<1>5. wire' = wire \/ wire' = wire \cup {f0}
  BY DEF Finish
<1> HIDE DEF f0
<1>6. Types'
  BY <1>1, <1>3, <1>4, <1>5 DEF IInv, Types
<1>7. Submissions' /\ NoEarlierResult' /\ seen' <= generation' /\ RunningIsOfThisConnection'
  BY <1>1, <1>3 DEF IInv, Submissions, NoEarlierResult, RunningIsOfThisConnection
<1>8. Completions'
  <2> SUFFICES ASSUME NEW f \in wire'
               PROVE  /\ f.result # NoResult => f.result = f.attempt
                      /\ f.generation <= generation
                      /\ f.generation = generation =>
                           /\ f.attempt = work'[f.task].attempt
                           /\ up => work'[f.task].state = "done"
    BY <1>1 DEF Completions
  <2>1. CASE f = f0
    BY <1>3, <1>4, <2>1 DEF IInv, Types
  <2>2. CASE f \in wire
    <3>1. f.task \in Tasks
      BY <2>2 DEF IInv, Types, LedgerFrame
    <3>2. QED  BY <1>3, <2>2, <3>1 DEF IInv, Completions
  <2>3. QED  BY <1>5, <2>1, <2>2
<1>9. QED  BY <1>6, <1>7, <1>8 DEF IInv

(* A frame is gone, and the table says no less than before.                *)
LEMMA FewerFramesKeep ==
  ASSUME IInv, wire' \subseteq wire, UNCHANGED <<generation, up, work>>
  PROVE  Completions' /\ wire' \subseteq LedgerFrame
  BY DEF IInv, Types, Completions

(* A completion is applied only if it is of the present connection, hence  *)
(* of the last attempt.                                                    *)
LEMMA DeliverKeeps ==
  ASSUME IInv, NEW f \in wire, NEW named \in BOOLEAN, NEW unnoted \in BOOLEAN,
         NEW failed \in BOOLEAN, Deliver(f, named, unnoted, failed)
  PROVE  IInv'
<1>1. UNCHANGED <<submits, generation, up, work>>
  BY DEF Deliver, connectionVars
<1>2. failures' \in Nat /\ (failures' = 0 => failures = 0 /\ ~unnoted)
  BY CountsTwo DEF Deliver, IInv, Types
<1>3. seen' = generation
  BY DEF Deliver, Note
<1> DEFINE hint == IF named THEN f.session ELSE NoSession
           noted == Noted(unnoted)
           done == Completed(noted[f.task], f.result, hint)
<1>4. /\ noted \in [Tasks -> Row]
      /\ \A t \in Tasks : /\ noted[t].submit = ledger[t].submit
                          /\ noted[t].result = ledger[t].result
                          /\ failures = 0 /\ ~unnoted /\ noted[t].state = "running"
                               => noted[t].generation = generation
  BY NotedRows DEF Deliver
<1>5. f \in LedgerFrame /\ f.task \in Tasks
  BY DEF IInv, Types, LedgerFrame
<1>6. /\ done \in Row /\ done.submit = noted[f.task].submit
      /\ done.result \in {noted[f.task].result, f.result} /\ done.state # "running"
  <2>1. noted[f.task] \in Row /\ f.result \in Nat /\ hint \in Sessions \cup {NoSession}
    BY <1>4, <1>5 DEF LedgerFrame
  <2> HIDE DEF hint, noted
  <2>2. QED  BY <2>1, CompletedRow
<1>7. ledger' = noted \/ (Accepts(f) /\ ledger' = [noted EXCEPT ![f.task] = done])
  BY DEF Deliver
<1>8. wire' \subseteq wire
  BY DEF Deliver
<1> HIDE DEF hint, noted, done
<1>9. ledger' \in [Tasks -> Row] /\ \A t \in Tasks : ledger'[t].submit = ledger[t].submit
  BY <1>4, <1>5, <1>6, <1>7
<1>10. Completions' /\ wire' \subseteq LedgerFrame
  BY <1>1, <1>8, FewerFramesKeep
<1>11. Types'
  BY <1>1, <1>2, <1>3, <1>9, <1>10 DEF IInv, Types
<1>12. Submissions' /\ seen' <= generation'
  BY <1>1, <1>3, <1>9 DEF IInv, Types, Submissions
<1>13. NoEarlierResult'
  <2> SUFFICES ASSUME NEW t \in Tasks, ledger'[t].result # NoResult
               PROVE  ledger'[t].result >= ledger'[t].submit
    BY DEF NoEarlierResult
  <2>1. CASE ledger'[t].result = ledger[t].result
    BY <1>9, <2>1 DEF IInv, NoEarlierResult
  <2>2. CASE ledger'[t].result # ledger[t].result
    <3>1. Accepts(f) /\ t = f.task /\ ledger'[t].result = f.result
      BY <1>4, <1>6, <1>7, <2>2
    <3>2. f.result = f.attempt /\ f.attempt = work[t].attempt
      BY <3>1 DEF IInv, Completions, Accepts
    <3>3. ledger[t].submit <= work[t].attempt /\ ledger[t].submit \in Nat
      BY DEF IInv, Submissions, Types, Row
    <3>4. work[t].attempt \in Nat
      BY DEF IInv, Types, Work
    <3>5. QED  BY <1>9, <3>1, <3>2, <3>3, <3>4
  <2>3. QED  BY <2>1, <2>2
<1>14. RunningIsOfThisConnection'
  <2> SUFFICES ASSUME NEW t \in Tasks, ledger'[t].state = "running", failures' = 0
               PROVE  ledger'[t].generation = generation
    BY <1>1 DEF RunningIsOfThisConnection
  <2>1. ledger'[t] = noted[t]
    BY <1>4, <1>6, <1>7
  <2>2. QED  BY <1>2, <1>4, <2>1
<1>15. QED  BY <1>10, <1>11, <1>12, <1>13, <1>14 DEF IInv

(* The watcher's note, and the startup of the next process.                *)
LEMMA SweepsKeep ==
  ASSUME IInv, NEW failed \in BOOLEAN, NoteGeneration(failed) \/ Restart(failed)
  PROVE  IInv'
<1>1. failures' \in Nat /\ (failures' = 0 => failures = 0 /\ ~failed)
  BY CountsOne DEF NoteGeneration, Restart, IInv, Types
<1>2. work' = work
  BY DEF NoteGeneration, Restart
<1>3. CASE NoteGeneration(failed)
  <2>1. UNCHANGED <<submits, generation, up, wire>> /\ seen' = generation
    BY <1>3 DEF NoteGeneration, Note, connectionVars
  <2>2. /\ ledger' \in [Tasks -> Row]
        /\ \A t \in Tasks : /\ ledger'[t].submit = ledger[t].submit
                            /\ ledger'[t].result = ledger[t].result
                            /\ failures = 0 /\ ~failed /\ ledger'[t].state = "running"
                                 => ledger'[t].generation = generation
    BY <1>3, NotedRows DEF NoteGeneration
  <2>3. Completions' /\ wire' \subseteq LedgerFrame
    BY <1>2, <2>1, FewerFramesKeep
  <2>4. Types'
    BY <1>1, <1>2, <2>1, <2>2, <2>3 DEF IInv, Types
  <2>5. Submissions' /\ NoEarlierResult' /\ seen' <= generation'
    BY <1>2, <2>1, <2>2 DEF IInv, Types, Submissions, NoEarlierResult
  <2>6. RunningIsOfThisConnection'
    BY <1>1, <2>1, <2>2 DEF RunningIsOfThisConnection
  <2>7. QED  BY <2>3, <2>4, <2>5, <2>6 DEF IInv
<1>4. CASE Restart(failed)
  <2>1. /\ submits' = [t \in Tasks |-> NoRow] /\ generation' = 0 /\ up' = FALSE
        /\ seen' = 0 /\ wire' = {}
    BY <1>4 DEF Restart
  <2>2. /\ ledger' \in [Tasks -> Row]
        /\ \A t \in Tasks : /\ ledger'[t].submit = ledger[t].submit
                            /\ ledger'[t].result = ledger[t].result
                            /\ ~failed => ledger'[t].state # "running"
    BY <1>4, SweepsOnlyOrphan DEF Restart, IInv, Types
  <2>3. NoRow \in Row /\ NoRow.submit = 0
    BY DEF NoRow, Row, NoResult, NoSession
  <2>4. Types'
    BY <1>1, <1>2, <2>1, <2>2, <2>3 DEF IInv, Types
  <2>5. Submissions' /\ NoEarlierResult' /\ Completions' /\ seen' <= generation'
    BY <1>2, <2>1, <2>2, <2>3
    DEF IInv, Types, Work, Submissions, NoEarlierResult, Completions
  <2>6. RunningIsOfThisConnection'
    BY <1>1, <2>2 DEF RunningIsOfThisConnection
  <2>7. QED  BY <2>4, <2>5, <2>6 DEF IInv
<1>5. QED  BY <1>3, <1>4

(* A frame that is lost, and the rescues: the ledger is left alone.        *)
LEMMA RescuesKeep ==
  ASSUME IInv,
         \/ \E f \in wire : LoseFrame(f)
         \/ \E failed \in BOOLEAN : StartRescue(failed)
         \/ \E failed \in BOOLEAN, s \in Sessions : RescueSession(s, failed)
  PROVE  IInv'
<1>1. UNCHANGED <<ledger, submits, seen, generation, up, work>> /\ wire' \subseteq wire
  BY DEF LoseFrame, StartRescue, RescueSession, gatewayVars, connectionVars
<1>2. failures' \in Nat /\ (failures' = 0 => failures = 0)
  BY CountsOne DEF LoseFrame, StartRescue, RescueSession, IInv, Types
<1>3. Completions' /\ wire' \subseteq LedgerFrame
  BY <1>1, FewerFramesKeep
<1>4. Types'
  BY <1>1, <1>2, <1>3 DEF IInv, Types
<1>5. Submissions' /\ NoEarlierResult' /\ seen' <= generation' /\ RunningIsOfThisConnection'
  BY <1>1, <1>2 DEF IInv, Submissions, NoEarlierResult, RunningIsOfThisConnection
<1>6. QED  BY <1>3, <1>4, <1>5 DEF IInv

-----------------------------------------------------------------------------
(* It holds in every reachable state.                                      *)
LEMMA InvHolds == Spec => []IInv
<1>1. IInv /\ [Next]_vars => IInv'
  <2> SUFFICES ASSUME IInv, [Next]_vars PROVE IInv'
    OBVIOUS
  <2>1. CASE \/ Connect \/ Disconnect \/ HermesRestart
             \/ \E s \in Sessions : Attach(s)
    BY <2>1, OutsideKeeps
  <2>2. CASE \E t \in Tasks, s \in Sessions, answered \in BOOLEAN : Submit(t, s, answered)
    BY <2>2, SubmitKeeps
  <2>3. CASE \E t \in Tasks, failed \in BOOLEAN : RecordSubmitted(t, failed)
    BY <2>3, RecordSubmittedKeeps
  <2>4. CASE \E t \in Tasks, text \in BOOLEAN : Finish(t, text)
    BY <2>4, FinishKeeps
  <2>5. CASE \E f \in wire : \E named, unnoted, failed \in BOOLEAN :
               Deliver(f, named, unnoted, failed)
    BY <2>5, DeliverKeeps
  <2>6. CASE \E failed \in BOOLEAN : NoteGeneration(failed) \/ Restart(failed)
    BY <2>6, SweepsKeep
  <2>7. CASE \/ \E f \in wire : LoseFrame(f)
             \/ \E failed \in BOOLEAN : StartRescue(failed)
             \/ \E failed \in BOOLEAN, s \in Sessions : RescueSession(s, failed)
    BY <2>7, RescuesKeep
  <2>8. CASE UNCHANGED vars
    <3>1. /\ UNCHANGED <<ledger, submits, seen, wire, failures>>
          /\ UNCHANGED <<generation, up, work>>
      BY <2>8 DEF vars, gatewayVars, connectionVars
    <3>2. QED
      BY <3>1 DEF IInv, Types, Submissions, Completions, NoEarlierResult, RunningIsOfThisConnection
  <2>9. QED
    BY <2>1, <2>2, <2>3, <2>4, <2>5, <2>6, <2>7, <2>8 DEF Next
<1>2. QED  BY <1>1, InitHolds, PTL DEF Spec

(* A prompt is never answered by an earlier task's result: a completion    *)
(* that is accepted is of the last attempt under its id                    *)
(* (background_ledger.py, record_submitted and record_completed).          *)
THEOREM ResultsAreNotMixedUp == Spec => []NoEarlierResult
<1>1. IInv => NoEarlierResult
  BY DEF IInv
<1>2. QED  BY <1>1, InvHolds, PTL

(* As long as no write failed, a running row was written under the         *)
(* connection the stream has seen: a replaced one, or an earlier process,  *)
(* leaves none behind (orphan_all_running).                                *)
THEOREM RunningMeansNow == Spec => []RunningIsOfThisConnection
<1>1. IInv => RunningIsOfThisConnection
  BY DEF IInv
<1>2. QED  BY <1>1, InvHolds, PTL

-----------------------------------------------------------------------------
(* HookCapture: the audit rows, from the queue of the hooks to the store.  *)

(* Rows in the order of their tool calls.                                  *)
Rising(s) == \A i, j \in DOMAIN s : i < j => s[i] < s[j]
Below(s, t) == \A i \in DOMAIN s, j \in DOMAIN t : s[i] < t[j]
UpTo(s, n) == \A i \in DOMAIN s : s[i] <= n
Holds(s, n) == \E i \in DOMAIN s : s[i] = n

AuditTypes ==
  /\ audited \in Nat
  /\ shipped \in Seq(Nat) /\ batch \in Seq(Nat) /\ pending \in Seq(Nat)
  /\ UpTo(shipped, audited) /\ UpTo(batch, audited) /\ UpTo(pending, audited)
  /\ Len(pending) <= MaxAudited

RowsRise ==
  /\ Rising(shipped) /\ Rising(batch) /\ Rising(pending)
  /\ Below(shipped, batch) /\ Below(shipped, pending) /\ Below(batch, pending)

LossShows ==
  counted \cap {"dropped", "errors"} = {} =>
    \A n \in 1..audited : Holds(shipped, n) \/ Holds(batch, n) \/ Holds(pending, n)

AuditIInv == AuditTypes /\ RowsRise /\ LossShows

(* The concatenation of two sequences, by places.                          *)
LEMMA JoinedRows ==
  ASSUME NEW S, NEW s \in Seq(S), NEW t \in Seq(S)
  PROVE  /\ s \o t \in Seq(S) /\ Len(s \o t) = Len(s) + Len(t)
         /\ \A i \in 1..Len(s) : (s \o t)[i] = s[i]
         /\ \A i \in (Len(s) + 1)..(Len(s) + Len(t)) : (s \o t)[i] = t[i - Len(s)]
         /\ \A i \in 1..Len(t) : (s \o t)[Len(s) + i] = t[i]
  OBVIOUS

(* One after the other, two rising sequences rise.                         *)
LEMMA JoinedRise ==
  ASSUME NEW s \in Seq(Nat), NEW t \in Seq(Nat), Rising(s), Rising(t), Below(s, t)
  PROVE  /\ Rising(s \o t)
         /\ \A u \in Seq(Nat) : Below(s, u) /\ Below(t, u) => Below(s \o t, u)
         /\ \A n : Holds(s \o t, n) <=> Holds(s, n) \/ Holds(t, n)
         /\ \A n : UpTo(s, n) /\ UpTo(t, n) => UpTo(s \o t, n)
<1>0. PICK r : r = s \o t
  OBVIOUS
<1>1. /\ r \in Seq(Nat) /\ Len(r) = Len(s) + Len(t)
      /\ \A i \in 1..Len(s) : r[i] = s[i]
      /\ \A i \in (Len(s) + 1)..(Len(s) + Len(t)) : r[i] = t[i - Len(s)]
      /\ \A i \in 1..Len(t) : r[Len(s) + i] = t[i]
  BY <1>0, JoinedRows
<1>2. DOMAIN s = 1..Len(s) /\ DOMAIN t = 1..Len(t) /\ DOMAIN r = 1..Len(r) /\ Len(s) \in Nat /\ Len(t) \in Nat
  BY <1>1
<1>3. \A i \in DOMAIN r : \/ i \in DOMAIN s /\ r[i] = s[i]
                          \/ i - Len(s) \in DOMAIN t /\ i > Len(s) /\ r[i] = t[i - Len(s)]
  BY <1>1, <1>2
<1>4. Rising(r)
  <2>1. SUFFICES ASSUME NEW i \in DOMAIN r, NEW j \in DOMAIN r, i < j PROVE r[i] < r[j]
    BY DEF Rising
  <2>2. CASE j \in DOMAIN s /\ r[j] = s[j]
    <3>1. i \in 1..Len(s) /\ r[i] = s[i]
      BY <1>1, <1>2, <2>1, <2>2
    <3> QED BY <1>2, <2>1, <2>2, <3>1 DEF Rising
  <2>3. CASE j - Len(s) \in DOMAIN t /\ j > Len(s) /\ r[j] = t[j - Len(s)]
    <3>1. CASE i \in DOMAIN s /\ r[i] = s[i]
      BY <2>3, <3>1 DEF Below
    <3>2. CASE i - Len(s) \in DOMAIN t /\ r[i] = t[i - Len(s)]
      BY <1>2, <2>1, <2>3, <3>2 DEF Rising
    <3> QED BY <1>3, <3>1, <3>2
  <2> QED BY <1>3, <2>2, <2>3
<1>5. \A u \in Seq(Nat) : Below(s, u) /\ Below(t, u) => Below(r, u)
  BY <1>3 DEF Below
<1>6. \A n : Holds(r, n) <=> Holds(s, n) \/ Holds(t, n)
  <2>1. ASSUME NEW n, NEW i \in DOMAIN s, s[i] = n PROVE Holds(r, n)
    BY <1>1, <1>2, <2>1 DEF Holds
  <2>2. ASSUME NEW n, NEW i \in DOMAIN t, t[i] = n PROVE Holds(r, n)
    <3>1. Len(s) + i \in DOMAIN r /\ r[Len(s) + i] = n
      BY <1>1, <1>2, <2>2
    <3> QED BY <3>1 DEF Holds
  <2>3. ASSUME NEW n, NEW i \in DOMAIN r, r[i] = n PROVE Holds(s, n) \/ Holds(t, n)
    BY <1>3, <2>3 DEF Holds
  <2> QED BY <2>1, <2>2, <2>3 DEF Holds
<1>7. \A n : UpTo(s, n) /\ UpTo(t, n) => UpTo(r, n)
  BY <1>3 DEF UpTo
<1> QED BY <1>0, <1>4, <1>5, <1>6, <1>7

(* A sequence with one more, by places.                                    *)
LEMMA AppendedRow ==
  ASSUME NEW S, NEW s \in Seq(S), NEW e \in S
  PROVE  /\ Append(s, e) \in Seq(S) /\ Len(Append(s, e)) = Len(s) + 1
         /\ Append(s, e)[Len(s) + 1] = e
         /\ \A i \in 1..Len(s) : Append(s, e)[i] = s[i]
  OBVIOUS

(* It holds at the start.                                                  *)
LEMMA AuditInitIInv == HookInit => AuditIInv
  BY HookBounds DEF HookInit, AuditIInv, AuditTypes, RowsRise, LossShows, Rising, Below,
                   UpTo

(* A row joins the queue, whose oldest row may go.                         *)
LEMMA UsesToolKeeps ==
  ASSUME AuditIInv, NEW c \in Chats, UsesTool(c)
  PROVE  AuditIInv'
<1> DEFINE n == audited + 1
           longer == Append(pending, n)
<1>1. /\ audited' = n /\ batch' = batch /\ shipped' = shipped
      /\ pending' = IF Len(longer) > MaxAudited THEN Tail(longer) ELSE longer
      /\ counted' = IF Len(pending) = MaxAudited THEN counted \cup {"dropped"} ELSE counted
  BY DEF UsesTool, Full
<1>2. AuditTypes /\ RowsRise /\ LossShows /\ n \in Nat
  BY DEF AuditIInv, AuditTypes
<1>3. /\ longer \in Seq(Nat) /\ Len(longer) = Len(pending) + 1 /\ longer[Len(pending) + 1] = n
      /\ \A i \in 1..Len(pending) : longer[i] = pending[i]
  BY <1>2, AppendedRow DEF AuditTypes
<1>4. /\ Len(pending) \in Nat /\ DOMAIN pending = 1..Len(pending)
      /\ DOMAIN longer = 1..(Len(pending) + 1)
  BY <1>2, <1>3 DEF AuditTypes
<1>5. /\ \A i \in DOMAIN shipped : shipped[i] \in Nat /\ shipped[i] <= audited
      /\ \A i \in DOMAIN batch : batch[i] \in Nat /\ batch[i] <= audited
      /\ \A i \in DOMAIN pending : pending[i] \in Nat /\ pending[i] <= audited
      /\ UpTo(shipped, n) /\ UpTo(batch, n)
  BY <1>2 DEF AuditTypes, UpTo
<1> HIDE DEF longer
<1>6. UpTo(longer, n) /\ Rising(longer) /\ Below(shipped, longer) /\ Below(batch, longer)
  <2>1. \A i \in DOMAIN longer : \/ i \in DOMAIN pending /\ longer[i] = pending[i] /\ i <= Len(pending)
                                 \/ i = Len(pending) + 1 /\ longer[i] = n
    BY <1>3, <1>4
  <2>a. UpTo(longer, n)
    BY <1>2, <1>5, <2>1 DEF UpTo, AuditTypes
  <2>2. Rising(longer)
    <3>1. SUFFICES ASSUME NEW i \in DOMAIN longer, NEW j \in DOMAIN longer, i < j
                   PROVE  longer[i] < longer[j]
      BY DEF Rising
    <3>2. i \in 1..Len(pending) /\ longer[i] = pending[i] /\ pending[i] \in Nat /\ pending[i] <= audited
      BY <1>3, <1>4, <1>5, <3>1
    <3>3. CASE j \in 1..Len(pending)
      BY <1>2, <1>3, <1>4, <3>1, <3>2, <3>3 DEF Rising, RowsRise
    <3>4. CASE j = Len(pending) + 1
      BY <1>2, <1>3, <3>2, <3>4 DEF AuditTypes
    <3> QED BY <1>4, <3>1, <3>3, <3>4
  <2>3. ASSUME NEW i \in DOMAIN shipped, NEW j \in DOMAIN longer PROVE shipped[i] < longer[j]
    <3>1. shipped[i] \in Nat /\ shipped[i] <= audited /\ audited \in Nat
      BY <1>2, <1>5 DEF AuditTypes
    <3>2. CASE j \in DOMAIN pending /\ longer[j] = pending[j]
      BY <1>2, <3>2 DEF RowsRise, Below
    <3> QED BY <2>1, <3>1, <3>2
  <2>4. ASSUME NEW i \in DOMAIN batch, NEW j \in DOMAIN longer PROVE batch[i] < longer[j]
    <3>1. batch[i] \in Nat /\ batch[i] <= audited /\ audited \in Nat
      BY <1>2, <1>5 DEF AuditTypes
    <3>2. CASE j \in DOMAIN pending /\ longer[j] = pending[j]
      BY <1>2, <3>2 DEF RowsRise, Below
    <3> QED BY <2>1, <3>1, <3>2
  <2> QED BY <2>a, <2>2, <2>3, <2>4 DEF Below
<1>7. CASE Len(longer) > MaxAudited
  <2>1. /\ pending' \in Seq(Nat) /\ Len(pending') = Len(pending)
        /\ \A i \in 1..Len(pending) : pending'[i] = longer[i + 1]
    BY <1>1, <1>3, <1>4, <1>7
  <2>2. DOMAIN pending' = 1..Len(pending)
    BY <2>1
  <2>3. UpTo(pending', n) /\ Rising(pending') /\ Below(shipped, pending') /\ Below(batch, pending')
    <3>1. \A i \in DOMAIN pending' : i + 1 \in DOMAIN longer /\ i \in Int /\ pending'[i] = longer[i + 1]
      BY <1>4, <2>1, <2>2
    <3>2. Rising(pending') /\ UpTo(pending', n)
      BY <1>6, <3>1 DEF Rising, UpTo
    <3>3. Below(shipped, pending') /\ Below(batch, pending')
      BY <1>6, <3>1 DEF Below
    <3> QED BY <3>2, <3>3
  <2>4. "dropped" \in counted'
    <3>1. Len(pending) = MaxAudited
      <4>1. Len(pending) <= MaxAudited /\ MaxAudited \in Nat
        BY <1>2, HookBounds DEF AuditTypes
      <4>2. Len(longer) = Len(pending) + 1 /\ Len(pending) \in Nat
        BY <1>3, <1>4
      <4> QED BY <1>7, <4>1, <4>2
    <3> QED BY <1>1, <3>1
  <2> QED BY <1>1, <1>2, <1>4, <1>5, <2>1, <2>3, <2>4 DEF AuditIInv, AuditTypes, RowsRise, LossShows
<1>8. CASE ~(Len(longer) > MaxAudited)
  <2>1. pending' = longer /\ Len(pending') <= MaxAudited
    <3>1. Len(longer) <= MaxAudited
      BY <1>3, <1>4, <1>8, HookBounds
    <3> QED BY <1>1, <1>8, <3>1
  <2>2. \A m \in 1..n : m = n \/ m \in 1..audited
    BY <1>2 DEF AuditTypes
  <2>3. \A m : Holds(pending, m) => Holds(longer, m)
    BY <1>3, <1>4 DEF Holds
  <2>4. Holds(longer, n)
    BY <1>3, <1>4 DEF Holds
  <2>5. counted \subseteq counted'
    BY <1>1
  <2>6. LossShows'
    BY <1>1, <1>2, <2>1, <2>2, <2>3, <2>4, <2>5 DEF LossShows
  <2> QED BY <1>1, <1>2, <1>3, <1>5, <1>6, <2>1, <2>6 DEF AuditIInv, AuditTypes, RowsRise
<1> QED BY <1>7, <1>8

(* It survives taking a batch off the queue ...                            *)
LEMMA DrainBatchKeeps ==
  ASSUME AuditIInv, DrainBatch
  PROVE  AuditIInv'
<1>1. /\ batch = <<>> /\ batch' = pending /\ pending' = <<>>
      /\ UNCHANGED <<shipped, audited, counted>>
  BY DEF DrainBatch
<1>2. \A n : ~Holds(batch, n)
  BY <1>1 DEF Holds
<1>3. RowsRise'
  BY <1>1 DEF AuditIInv, RowsRise, Rising, Below
<1>4. LossShows'
  BY <1>1, <1>2 DEF AuditIInv, LossShows
<1> QED BY <1>1, <1>3, <1>4, HookBounds DEF AuditIInv, AuditTypes, UpTo

(* ... and what becomes of the batch.                                      *)
LEMMA PostedKeeps ==
  ASSUME AuditIInv, NEW outcome \in {"sent", "unreachable", "strange"}, NEW arrived \in BOOLEAN,
         Posted(outcome, arrived)
  PROVE  AuditIInv'
<1>1. /\ outcome = "sent" => arrived
      /\ batch' = <<>> /\ UNCHANGED <<pending, audited>>
      /\ shipped' = IF arrived THEN shipped \o batch ELSE shipped
  BY DEF Posted
<1>2. counted \subseteq counted' /\ (outcome # "sent" => "errors" \in counted')
  BY DEF Posted
<1>3. AuditTypes /\ RowsRise /\ LossShows
  BY DEF AuditIInv
<1>4. shipped \in Seq(Nat) /\ batch \in Seq(Nat) /\ pending \in Seq(Nat)
  BY <1>3 DEF AuditTypes
<1>5. AuditTypes'
  <2>1. shipped \o batch \in Seq(Nat) /\ UpTo(shipped \o batch, audited)
    BY <1>3, <1>4, JoinedRows, JoinedRise DEF AuditTypes, RowsRise
  <2> QED BY <1>1, <1>3, <2>1 DEF AuditTypes, UpTo
<1>6. /\ Rising(shipped \o batch) /\ Below(shipped \o batch, pending)
      /\ \A n : Holds(shipped, n) \/ Holds(batch, n) => Holds(shipped \o batch, n)
  BY <1>3, <1>4, JoinedRise DEF RowsRise
<1>7. RowsRise'
  BY <1>1, <1>3, <1>6 DEF RowsRise, Rising, Below
<1>8. LossShows'
  BY <1>1, <1>2, <1>3, <1>6 DEF LossShows
<1> QED BY <1>5, <1>7, <1>8 DEF AuditIInv

(* Every step keeps it.                                                    *)
LEMMA AuditStepKeeps ==
  ASSUME AuditIInv, [HookNext]_hookVars
  PROVE  AuditIInv'
<1>1. ASSUME UNCHANGED auditVars PROVE AuditIInv'
  BY <1>1 DEF auditVars, AuditIInv, AuditTypes, RowsRise, LossShows
<1>2. ASSUME NEW c \in Chats, BeginTurn(c) \/ CallsModel(c) \/ PromptSource(c) PROVE AuditIInv'
  BY <1>1, <1>2 DEF BeginTurn, CallsModel, PromptSource
<1>3. ASSUME NEW c \in Chats, NEW again \in BOOLEAN, EndTurn(c, again) PROVE AuditIInv'
  BY <1>1, <1>3 DEF EndTurn
<1>4. CASE FrameArrives \/ FrameLost
  BY <1>1, <1>4 DEF FrameArrives, FrameLost
<1>5. CASE DrainStep
  <2>1. CASE OnPreLlmCall \/ OnOther
    BY <1>1, <2>1 DEF OnPreLlmCall, OnOther
  <2>2. CASE OnPostApiRequest
    <3>1. /\ counted' = counted \/ counted' = counted \cup {"no session"}
          /\ UNCHANGED <<pending, batch, shipped, audited>>
      BY <2>2 DEF OnPostApiRequest
    <3> QED BY <3>1 DEF AuditIInv, AuditTypes, RowsRise, LossShows
  <2>3. ASSUME NEW written \in BOOLEAN, OnSessionEnd(written) PROVE AuditIInv'
    BY <1>1, <2>3 DEF OnSessionEnd
  <2> QED BY <1>5, <2>1, <2>2, <2>3 DEF DrainStep
<1>6. CASE UNCHANGED hookVars
  BY <1>1, <1>6 DEF hookVars
<1> QED BY <1>2, <1>3, <1>4, <1>5, <1>6, UsesToolKeeps, DrainBatchKeeps, PostedKeeps DEF HookNext

(* It says what the operator relies on.                                    *)
LEMMA AuditIsVisible == AuditIInv => AuditLossIsVisible
<1> SUFFICES ASSUME AuditIInv PROVE AuditLossIsVisible
  OBVIOUS
<1> DEFINE sent == shipped \o batch
           rows == sent \o pending
<1>1. AuditTypes /\ RowsRise /\ LossShows
  BY DEF AuditIInv
<1>2. shipped \in Seq(Nat) /\ batch \in Seq(Nat) /\ pending \in Seq(Nat) /\ sent \in Seq(Nat)
  BY <1>1, JoinedRows DEF AuditTypes
<1>3. /\ Rising(sent) /\ Below(sent, pending)
      /\ \A n : Holds(shipped, n) \/ Holds(batch, n) => Holds(sent, n)
  BY <1>1, <1>2, JoinedRise DEF RowsRise
<1> HIDE DEF sent
<1>4. /\ rows \in Seq(Nat) /\ Rising(rows)
      /\ \A n : Holds(sent, n) \/ Holds(pending, n) => Holds(rows, n)
  BY <1>1, <1>2, <1>3, JoinedRows, JoinedRise DEF RowsRise
<1> HIDE DEF rows
<1>5. \A n : Holds(rows, n) => Contains(rows, n)
  BY <1>4 DEF Holds, Contains
<1>6. /\ counted \cap {"dropped", "errors"} = {} => \A i \in 1..audited : Contains(rows, i)
      /\ \A i, j \in DOMAIN rows : i < j => rows[i] < rows[j]
  BY <1>1, <1>3, <1>4, <1>5 DEF LossShows, Rising
<1> QED BY <1>6 DEF AuditLossIsVisible, sent, rows

(* An audit row that never gets to the store shows in a counter, and the   *)
(* store gets the rows in the order of the tool calls, none twice, for     *)
(* every size of the queues (src/audit_forwarder.py).                      *)
THEOREM LossesAreCounted == HookSpec => []AuditLossIsVisible
<1>1. HookInit => AuditIInv
  BY AuditInitIInv
<1>2. AuditIInv /\ [HookNext]_hookVars => AuditIInv'
  BY AuditStepKeeps
<1>3. AuditIInv => AuditLossIsVisible
  BY AuditIsVisible
<1> QED BY <1>1, <1>2, <1>3, PTL DEF HookSpec
=============================================================================
