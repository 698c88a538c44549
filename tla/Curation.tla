-------------------------------- MODULE Curation --------------------------------
(***************************************************************************)
(* What the operator arranges: the tags that artifacts and projects share  *)
(* (gateway/domain/tag_store.py, tags.py), the ordered collections of      *)
(* artifacts (collection_store.py) and their routes in api/artifacts.py    *)
(* and api/projects.py.  A handler is one transaction without an await.    *)
(*                                                                         *)
(* Artifacts are never deleted.  A name the operator types is normalized   *)
(* before it is used; names that cannot be are refused.                    *)
(***************************************************************************)
EXTENDS Integers, FiniteSets, Sequences, SequencesExt

CONSTANTS
  Artifacts,
  Boards,          (* projects, as owners of tags                          *)
  TagIds,
  Typed,           (* tag names as they are typed                          *)
  Normal,          (* normalize_tag_name of each, or Refused               *)
  Refused,
  CollectionIds,
  Titles,          (* collection names, normalized                         *)
  MaxPosition      (* bound: positions handed out in a collection          *)

ASSUME TypedAssumption == Normal \in [Typed -> Typed \cup {Refused}]
ASSUME PositionAssumption == MaxPosition \in Nat

VARIABLES
  vocabulary,   \* tags: the name of each tag
  carried,      \* artifact_tags and project_tags
  collections,  \* collections: the name and the positions of the members
  boards        \* the projects that are there

curationVars == <<vocabulary, carried, collections, boards>>

Owners == Artifacts \cup boards
Empty == [x \in {} |-> 0]

CurationInit ==
  /\ vocabulary = Empty /\ carried = {} /\ collections = Empty
  /\ boards = Boards

-----------------------------------------------------------------------------
(* Tags.                                                                   *)

Tagged(t) == {o \in Owners : <<o, t>> \in carried}
NamesOf(o) == {vocabulary[t] : t \in {u \in DOMAIN vocabulary : <<o, u>> \in carried}}
Known(name) == {t \in DOMAIN vocabulary : vocabulary[t] = name}

With(f, x, y) == [z \in DOMAIN f \cup {x} |-> IF z = x THEN y ELSE f[z]]
Without(f, x) == [z \in DOMAIN f \ {x} |-> f[z]]

(* get_or_create: t is the tag of the name, perhaps a new one.             *)
GetOrCreate(name, t) ==
  IF Known(name) # {} THEN t \in Known(name) /\ UNCHANGED vocabulary
  ELSE t \in TagIds \ DOMAIN vocabulary /\ vocabulary' = With(vocabulary, t, name)

CreateTag(typed, t) ==
  /\ Normal[typed] # Refused
  /\ GetOrCreate(Normal[typed], t)
  /\ UNCHANGED <<carried, collections, boards>>

(* Of an artifact or of a project; the tags an artifact is filed under     *)
(* when it is ingested are attached likewise.                              *)
Attach(o, typed, t) ==
  /\ Normal[typed] # Refused
  /\ GetOrCreate(Normal[typed], t)
  /\ carried' = carried \cup {<<o, t>>}
  /\ UNCHANGED <<collections, boards>>

Detach(o, typed) ==
  /\ carried' = carried \ {<<o, t>> : t \in Known(Normal[typed])}
  /\ UNCHANGED <<vocabulary, collections, boards>>

(* One name added to and one taken off a selection; a name that is both is *)
(* taken off.                                                              *)
ApplyBulk(S, add, remove, t) ==
  /\ Refused \notin {Normal[add], Normal[remove]}
  /\ GetOrCreate(Normal[add], t)
  /\ carried' = (carried \cup {<<a, t>> : a \in S})
                \ {<<a, u>> : a \in S,
                    u \in Known(Normal[remove])
                          \cup IF Normal[add] = Normal[remove] THEN {t} ELSE {}}
  /\ UNCHANGED <<collections, boards>>

DeleteTag(t) ==
  /\ t \in DOMAIN vocabulary
  /\ vocabulary' = Without(vocabulary, t)
  /\ carried' = {j \in carried : j[2] # t}
  /\ UNCHANGED <<collections, boards>>

(* Seeded fault: only the artifacts of a merged tag are moved.             *)
ArtifactsMoved(t, u) ==
  {j \in carried : j[2] # t} \cup {<<o, u>> : o \in Tagged(t) \cap Artifacts}

Moved(t, u) == {j \in carried : j[2] # t} \cup {<<o, u>> : o \in Tagged(t)}

(* rename: a name that is taken merges the tag into the one that has it.   *)
RenameTag(t, typed) ==
  /\ t \in DOMAIN vocabulary /\ Normal[typed] \notin {Refused, vocabulary[t]}
  /\ IF Known(Normal[typed]) = {}
     THEN vocabulary' = With(vocabulary, t, Normal[typed]) /\ UNCHANGED carried
     ELSE /\ \E u \in Known(Normal[typed]) : carried' = Moved(t, u)
          /\ vocabulary' = Without(vocabulary, t)
  /\ UNCHANGED <<collections, boards>>

(* The tags of a deleted project go with it (the foreign key cascades).    *)
BoardDeleted(p) ==
  /\ p \in boards
  /\ boards' = boards \ {p}
  /\ carried' = {j \in carried : j[1] # p}
  /\ UNCHANGED <<vocabulary, collections>>

-----------------------------------------------------------------------------
(* Collections.                                                            *)

Members(c) == DOMAIN collections[c].position
Titled(title) == {c \in DOMAIN collections : collections[c].title = title}

CreateCollection(title, c) ==
  /\ Titled(title) = {} /\ c \in CollectionIds \ DOMAIN collections
  /\ collections' = With(collections, c, [title |-> title, position |-> Empty])
  /\ UNCHANGED <<vocabulary, carried, boards>>

(* A name that is taken fails on its unique index.                         *)
UpdateCollection(c, title) ==
  /\ c \in DOMAIN collections /\ Titled(title) = {}
  /\ collections' = [collections EXCEPT ![c].title = title]
  /\ UNCHANGED <<vocabulary, carried, boards>>

DeleteCollection(c) ==
  /\ c \in DOMAIN collections
  /\ collections' = Without(collections, c)
  /\ UNCHANGED <<vocabulary, carried, boards>>

(* Seeded fault: the next position is the number of members.               *)
CountedPosition(pos) == Cardinality(DOMAIN pos) + 1

NextPosition(pos) ==
  IF DOMAIN pos = {} THEN 1
  ELSE (CHOOSE n \in {pos[a] : a \in DOMAIN pos} : \A a \in DOMAIN pos : pos[a] <= n) + 1

(* Members that are there stay where they are; the others follow in the    *)
(* order they were given.                                                  *)
Appended(pos, ids) ==
  LET before(a) == {j \in 1 .. (CHOOSE i \in DOMAIN ids : ids[i] = a) - 1 : ids[j] \notin DOMAIN pos}
  IN [a \in DOMAIN pos \cup Range(ids) |->
        IF a \in DOMAIN pos THEN pos[a] ELSE NextPosition(pos) + Cardinality(before(a))]

(* An artifact that is new and named twice fails on the primary key.       *)
Add(c, ids) ==
  /\ c \in DOMAIN collections /\ NextPosition(collections[c].position) <= MaxPosition
  /\ \A i, j \in DOMAIN ids : ids[i] = ids[j] /\ ids[i] \notin Members(c) => i = j
  /\ collections' = [collections EXCEPT ![c].position = Appended(@, ids)]
  /\ UNCHANGED <<vocabulary, carried, boards>>

RemoveMember(c, a) ==
  /\ c \in DOMAIN collections /\ a \in Members(c)
  /\ collections' = [collections EXCEPT ![c].position = Without(@, a)]
  /\ UNCHANGED <<vocabulary, carried, boards>>

ExactlyMembers(c, ids) == Range(ids) = Members(c) /\ Len(ids) = Cardinality(Members(c))

Reorder(c, ids) ==
  /\ c \in DOMAIN collections /\ ExactlyMembers(c, ids)
  /\ collections' = [collections EXCEPT ![c].position =
       [a \in DOMAIN @ |-> IF a \in Range(ids) THEN CHOOSE i \in DOMAIN ids : ids[i] = a ELSE @[a]]]
  /\ UNCHANGED <<vocabulary, carried, boards>>

(* What the promote route does once the file is ingested: a tag and a      *)
(* collection, in one transaction.                                         *)
PromoteArranges(a, typed, t, title, c) ==
  /\ Normal[typed] # Refused
  /\ GetOrCreate(Normal[typed], t)
  /\ carried' = carried \cup {<<a, t>>}
  /\ IF Titled(title) = {}
     THEN /\ c \in CollectionIds \ DOMAIN collections
          /\ collections' = With(collections, c,
                                 [title |-> title, position |-> Appended(Empty, <<a>>)])
     ELSE /\ c \in Titled(title) /\ NextPosition(collections[c].position) <= MaxPosition
          /\ collections' = [collections EXCEPT ![c].position = Appended(@, <<a>>)]
  /\ UNCHANGED boards

Selections == {<<a>> : a \in Artifacts} \cup {<<a, b>> : a, b \in Artifacts}
Orders == {s \in UNION {[1 .. n -> Artifacts] : n \in 1 .. Cardinality(Artifacts)} :
             Cardinality(Range(s)) = Len(s)}

CurationNext ==
  \/ \E typed \in Typed, t \in TagIds :
       \/ CreateTag(typed, t) \/ RenameTag(t, typed)
       \/ \E o \in Owners : Attach(o, typed, t)
       \/ \E S \in (SUBSET Artifacts) \ {{}}, remove \in Typed : ApplyBulk(S, typed, remove, t)
       \/ \E a \in Artifacts, title \in Titles, c \in CollectionIds :
            PromoteArranges(a, typed, t, title, c)
  \/ \E o \in Owners, typed \in Typed : Detach(o, typed)
  \/ \E t \in TagIds : DeleteTag(t)
  \/ \E p \in Boards : BoardDeleted(p)
  \/ \E c \in CollectionIds :
       \/ \E title \in Titles : CreateCollection(title, c) \/ UpdateCollection(c, title)
       \/ DeleteCollection(c)
       \/ \E ids \in Selections : Add(c, ids)
       \/ \E a \in Artifacts : RemoveMember(c, a)
       \/ \E ids \in Orders : Reorder(c, ids)

CurationSpec == CurationInit /\ [][CurationNext]_curationVars

-----------------------------------------------------------------------------
(* A renamed tag takes its owners along, artifacts and projects, and       *)
(* nobody else: whoever had the old name has the new one and not the old   *)
(* one, also when two tags become one, and the rest of what they carry is  *)
(* left as it was; no name is ever that of two tags (rename, the unique    *)
(* index and the normalization every write path shares).                   *)
RenamesKeepOwners ==
  [][/\ \A t \in DOMAIN vocabulary, typed \in Typed : RenameTag(t, typed) =>
          \A o \in Owners :
            NamesOf(o)' = IF vocabulary[t] \in NamesOf(o)
                          THEN (NamesOf(o) \ {vocabulary[t]}) \cup {Normal[typed]} ELSE NamesOf(o)
     /\ \A t, u \in DOMAIN vocabulary' : vocabulary'[t] = vocabulary'[u] => t = u
     /\ \A j \in carried' : j[1] \in Owners' /\ j[2] \in DOMAIN vocabulary']_curationVars

(* "re-adding should not send a row to the bottom of a list they arranged" *)
(* (add_to_collection): but for a reorder of the whole, members keep their *)
(* order and new ones come after them, and no two share a position, with   *)
(* which the order would be left to the database.                          *)
OrderIsTheOperators ==
  [][\A c \in DOMAIN collections \cap DOMAIN collections' :
       LET old == collections[c].position
           new == collections'[c].position
       IN /\ \A a, b \in DOMAIN new : new[a] = new[b] => a = b
          /\ (~ \E ids \in Orders : Reorder(c, ids)) =>
               \A a \in DOMAIN old \cap DOMAIN new, b \in DOMAIN new :
                 (b \in DOMAIN old => old[a] < old[b]) => new[a] < new[b]]_curationVars
=============================================================================
