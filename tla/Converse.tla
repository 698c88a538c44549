-------------------------------- MODULE Converse --------------------------------
(***************************************************************************)
(* Answering a spoken question from the gateway's own records: assembling  *)
(* the candidates (gateway/domain/converse_context.py), choosing the       *)
(* window (domain/converse.py), asking the model and citing the answer     *)
(* (api/converse.py).                                                      *)
(*                                                                         *)
(* A record is what kind it is, when it was made (its place in `records`), *)
(* how well it matches the question, and how long its condensed text is,   *)
(* in units of the window's budget.  Rows that carry no text, no id or no  *)
(* spoken role are not records.  New ones arrive between the query and the *)
(* transcript's answer.                                                    *)
(***************************************************************************)
EXTENDS Naturals, Sequences, FiniteSets

CONSTANTS
  Shapes,          (* the records there are: [kind, score, len]            *)
  Scopes,          (* of "session", "project" and "document"               *)
  Replies,         (* of the model: [leads, sources]                       *)
  RunCap,          (* MAX_RUN_CANDIDATES                                   *)
  RowCap,          (* MAX_TRANSCRIPT_ROWS                                  *)
  EventCap,        (* MAX_EVENT_CANDIDATES                                 *)
  ArtifactCap,     (* MAX_ARTIFACT_CANDIDATES                              *)
  AnchorUnits, PerUnit, Budget,
  MaxRecords                                               (* bound        *)

ASSUME ScopesAssumption == Scopes \subseteq {"session", "project", "document"}
ASSUME BudgetAssumption ==
  /\ {RunCap, RowCap, EventCap, ArtifactCap, AnchorUnits, PerUnit, Budget} \subseteq Nat
  /\ \A s \in Shapes : s.score \in Nat /\ s.len \in 1 .. PerUnit

VARIABLES
  records,   \* everything recorded, oldest first
  ask        \* the question being answered
converseVars == <<records, ask>>
NoQuestion == [at |-> "none"]

ConverseInit == records = <<>> /\ ask = NoQuestion

Of(kind) == {i \in DOMAIN records : records[i].kind = kind}
InOrder(S) ==
  [n \in 1 .. Cardinality(S) |-> CHOOSE i \in S : Cardinality({j \in S : j < i}) = n - 1]
Latest(S, n) == {i \in S : Cardinality({j \in S : j > i}) < n}
Oldest(S, n) == {i \in S : Cardinality({j \in S : j < i}) < n}

-----------------------------------------------------------------------------
(* The candidates, in the order that numbers them.                         *)

(* The run a record was made in: the one before it.                        *)
MadeIn(i) == {r \in Of("run") : r < i /\ \A q \in Of("run") : q < i => q <= r}
(* Narrative events of these runs; the newest, told oldest first.          *)
EventsOf(runs) == InOrder(Latest({i \in Of("event") : MadeIn(i) \subseteq runs /\ MadeIn(i) # {}},
                                 EventCap))
Transcript == InOrder(Latest(Of("message"), RowCap))

RunUnits(runs) == InOrder(runs)
ArtifactUnits(artifacts) == InOrder(artifacts)
DocumentUnits == InOrder(Of("chunk"))
SessionRecords ==
  LET runs == Latest(Of("run"), RunCap) IN
    RunUnits(runs) \o ArtifactUnits(Latest(Of("artifact"), ArtifactCap)) \o EventsOf(runs)
ProjectRecords == InOrder(Oldest(Of("project"), 1)) \o SessionRecords
DocumentRecords ==
  LET document == Oldest(Of("artifact"), 1)
      made == UNION {MadeIn(i) : i \in document} IN
    ArtifactUnits(document) \o RunUnits(made) \o EventsOf(made) \o DocumentUnits
Recorded(scope) ==
  CASE scope = "session" -> SessionRecords
    [] scope = "project" -> ProjectRecords
    [] scope = "document" -> DocumentRecords

-----------------------------------------------------------------------------
(* select_context, over candidates named by their place in `units`.        *)

Anchors(units) ==
  Latest({i \in DOMAIN units : units[i].kind \in {"message", "chunk"}}, AnchorUnits)
Relevant(units) == {i \in DOMAIN units \ Anchors(units) : units[i].score > 0}

Better(units, i, j) ==
  \/ units[i].score > units[j].score
  \/ units[i].score = units[j].score /\ i > j
(* A part of a document's text is of the document's kind.                  *)
Group(unit) == IF unit.kind = "chunk" THEN "artifact" ELSE unit.kind
KindOf(units, i) == {j \in Relevant(units) : Group(units[j]) = Group(units[i])}
Rank(units, i) == Cardinality({j \in KindOf(units, i) : Better(units, j, i)})
BestOf(units, i) == CHOOSE j \in KindOf(units, i) : Rank(units, j) = 0

(* Seeded fault: the best record first, of whatever kind.                  *)
ByScore(units, i, j) == Better(units, i, j)
(* One of each kind in rotation, the kind with the best record first.      *)
Before(units, i, j) ==
  \/ Rank(units, i) < Rank(units, j)
  \/ Rank(units, i) = Rank(units, j)
       /\ Better(units, BestOf(units, i), BestOf(units, j))
Offered(units) == Anchors(units) \cup Relevant(units)
(* Anchors go first, the newest of them before the others.                 *)
Earlier(units, i) ==
  LET anchors == Anchors(units) IN
  IF i \in anchors THEN {j \in anchors : j > i}
  ELSE anchors \cup {j \in Relevant(units) : Before(units, j, i)}

(* The part of the budget that records take.                               *)
Used(units, S) == Cardinality({c \in S \X (1 .. PerUnit) : c[2] <= units[c[1]].len})

(* A record that does not fit beside what was taken before it is passed    *)
(* over, unless it would be the first.                                     *)
Fitting(units, i, before) ==
  before = {} \/ Used(units, before) + units[i].len <= Budget
Window(units) ==
  LET offered == Offered(units)
      earlier == [i \in offered |-> Earlier(units, i)]
  IN CHOOSE w \in SUBSET offered :
       \A i \in offered : i \in w <=> Fitting(units, i, w \cap earlier[i])

-----------------------------------------------------------------------------
(* The route.                                                              *)

Records(shape) ==
  /\ Len(records) < MaxRecords
  /\ records' = Append(records, shape)
  /\ UNCHANGED ask

RecordsSome == \E shape \in Shapes : Records(shape)

UnitsAt(places) == [n \in DOMAIN places |-> records[places[n]]]

(* Not configured, too long, or no such project or document: an error.     *)
Asked(scope) ==
  /\ ask = NoQuestion
  /\ scope = "project" => Of("project") # {}
  /\ scope = "document" => Of("artifact") # {}
  /\ ask' = [at |-> IF scope = "session" THEN "transcript" ELSE "select",
             units |-> UnitsAt(Recorded(scope))]
  /\ UNCHANGED records

(* session.history answers; the rows are those of that moment.             *)
TranscriptRead ==
  /\ ask.at = "transcript"
  /\ ask' = [at |-> "select", units |-> ask.units \o UnitsAt(Transcript)]
  /\ UNCHANGED records
TranscriptFails ==
  /\ ask.at = "transcript"
  /\ ask' = NoQuestion
  /\ UNCHANGED records

(* With nothing in the window the model is not called.                     *)
Selects ==
  /\ ask.at = "select"
  /\ LET w == Window(ask.units) IN
       ask' = IF w = {}
              THEN [at |-> "answered", units |-> ask.units, window |-> <<>>,
                    refused |-> TRUE, cited |-> {}]
              ELSE [at |-> "model", units |-> ask.units, window |-> InOrder(w)]
  /\ UNCHANGED records

(* parse_answer and citations_for: NOANSWER among the leading words is a   *)
(* refusal; sources that name no record of the window stand for all of it. *)
Cites(window, reply) ==
  LET named == reply.sources \cap DOMAIN window IN
  IF "NOANSWER" \in reply.leads THEN {} ELSE IF named = {} THEN DOMAIN window ELSE named
Answers(reply) ==
  /\ ask.at = "model"
  /\ ask' = [at |-> "answered", units |-> ask.units, window |-> ask.window,
             refused |-> "NOANSWER" \in reply.leads,
             cited |-> Cites(ask.window, reply)]
  /\ UNCHANGED records
ModelFails ==
  /\ ask.at = "model"
  /\ ask' = NoQuestion
  /\ UNCHANGED records

Hears ==
  /\ ask.at = "answered"
  /\ ask' = NoQuestion
  /\ UNCHANGED records

ConverseNext ==
  \/ RecordsSome \/ TranscriptRead \/ TranscriptFails \/ Selects \/ ModelFails \/ Hears
  \/ \E scope \in Scopes : Asked(scope)
  \/ \E reply \in Replies : Answers(reply)

ConverseSpec == ConverseInit /\ [][ConverseNext]_converseVars

-----------------------------------------------------------------------------
Shown == {ask.window[n] : n \in DOMAIN ask.window}

(* The answer comes from the records.  A burst of records of one kind does *)
(* not bury the others: the best match of a kind is left out of the window *)
(* only if it does not fit beside the anchors and the best matches of      *)
(* better kinds, and one of the newest turns of the conversation only if   *)
(* it does not fit beside those after it (select_context); and the window  *)
(* never outgrows its budget but by the one record it cannot do without.   *)
(* An answer that is no refusal cites records of the window, at least one  *)
(* (citations_for).                                                        *)
WindowIsFair ==
  ask.at = "model" =>
    LET units == ask.units
        bests == {i \in Relevant(units) : Rank(units, i) = 0} IN
    /\ \A i \in Anchors(units) \ Shown : Used(units, {j \in Anchors(units) : j >= i}) > Budget
    /\ \A i \in bests \ Shown :
         Used(units, Anchors(units) \cup {j \in bests : j = i \/ Better(units, j, i)}) > Budget
    /\ Used(units, Shown) <= Budget \/ Cardinality(Shown) = 1
AnswersAreGrounded ==
  /\ WindowIsFair
  /\ ask.at = "answered" =>
       /\ ask.cited \subseteq DOMAIN ask.window
       /\ ask.refused <=> ask.cited = {}
=============================================================================
