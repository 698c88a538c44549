---------------------------- MODULE ArtifactListing ----------------------------
(***************************************************************************)
(* How the library is read while it changes (gateway/api/artifacts.py):    *)
(* the listing is paged with a cursor that names the last row shown, by    *)
(* save or by file (the newest save of each path), it leaves out what was  *)
(* archived, and folders group it by directory.  A stored file is served   *)
(* in ranges.                                                              *)
(*                                                                         *)
(* A path is the sequence of its directories and its name.  Rows have a    *)
(* random id and the time they were made, which need not be distinct.      *)
(***************************************************************************)
EXTENDS Integers, FiniteSets, Sequences, SequencesExt

CONSTANTS
  RowIds,       (* natural numbers: the order of the random ids            *)
  FilePaths,
  Ignored,      (* paths the ignore rules refuse today                     *)
  Kind,         (* the kind of each path                                   *)
  Filters,      (* what apps ask for: by file, only starred, of which kind *)
  PageLimit,
  MaxTime       (* bound: the clock                                        *)

ASSUME ListingAssumptions ==
  /\ RowIds \subseteq Nat /\ Ignored \subseteq FilePaths
  /\ PageLimit \in Nat \ {0} /\ MaxTime \in Nat
ASSUME PathsAssumption == \A p \in FilePaths : p # <<>> /\ p \in Seq({p[i] : i \in DOMAIN p})

VARIABLES
  library,      \* artifacts
  clock,
  reader        \* an app that pages through a listing, and what it saw

listingVars == <<library, clock, reader>>

NoReader == {}
AnyKind == "any"

ListingInit == library = {} /\ clock = 0 /\ reader = NoReader

-----------------------------------------------------------------------------
(* The listing.                                                            *)

Before(r, s) == r.at > s.at \/ (r.at = s.at /\ r.id < s.id)

(* _browse_filters and the bookmark filter.                                *)
Visible(rows, starred) == {r \in rows : ~r.archived /\ (starred => r.starred)}

(* _collapse_to_latest: the first row of each path.                        *)
Collapsed(rows) == {r \in rows : \A s \in rows : s.path = r.path => s = r \/ Before(r, s)}

Rows(rows, q) == IF q.latest THEN Collapsed(Visible(rows, q.starred)) ELSE Visible(rows, q.starred)

(* Seeded fault: rows made at one time are taken for one.                  *)
EarlierOnly(r, cursor) == r.at < cursor.at

AfterCursor(r, cursor) == r.at < cursor.at \/ (r.at = cursor.at /\ r.id > cursor.id)

(* What is left after the cursor.  By save it is a position in the order;  *)
(* by file it is looked for, and the listing starts again without it.      *)
Left(rows, q) ==
  LET all == Rows(rows, q)
  IN IF q.cursor = {} THEN all
     ELSE IF ~q.latest THEN {r \in all : \A c \in q.cursor : AfterCursor(r, c)}
     ELSE IF \E r \in all, c \in q.cursor : r.id = c.id
          THEN {r \in all : \A c \in q.cursor : Before(c, r)}
          ELSE all

Page(rows, q) ==
  LET left == Left(rows, q)
  IN {r \in left : Cardinality({s \in left : Before(s, r)}) < PageLimit}

Oldest(rows) == {r \in rows : \A s \in rows : s = r \/ Before(s, r)}

(* The rows of one kind are picked from the page, not from the library.    *)
OfKind(rows, kind) == {r \in rows : kind = AnyKind \/ Kind[r.path] = kind}

Ids(rows) == {r.id : r \in rows}

(* One page for the reader.                                                *)
Turned(q) ==
  LET page == Page(library, q)
      shown == Ids(OfKind(page, q.kind))
      more == Cardinality(Left(library, q)) > PageLimit
  IN [q EXCEPT !.shown = @ \cup shown,
               !.again = @ \/ shown \cap q.shown # {},
               !.cursor = IF more THEN Oldest(page) ELSE {},
               !.done = ~more]

FirstPage(f) ==
  /\ reader = NoReader
  /\ reader' = {Turned([latest |-> f.latest, starred |-> f.starred, kind |-> f.kind,
                        cursor |-> {}, shown |-> {}, again |-> FALSE, done |-> FALSE,
                        stayed |-> Ids(OfKind(Rows(library, f), f.kind))])}
  /\ UNCHANGED <<library, clock>>

NextPage ==
  /\ \E q \in reader : ~q.done /\ reader' = {Turned(q)}
  /\ UNCHANGED <<library, clock>>

ReaderLeaves ==
  /\ reader # NoReader
  /\ reader' = NoReader
  /\ UNCHANGED <<library, clock>>

-----------------------------------------------------------------------------
(* The library changes.                                                    *)

Becomes(rows) ==
  /\ library' = rows
  /\ reader' = {[q EXCEPT !.stayed = @ \cap Ids(Rows(rows, q))] : q \in reader}
  /\ UNCHANGED clock

Tick == clock < MaxTime /\ clock' = clock + 1 /\ UNCHANGED <<library, reader>>

Saved(p, i) ==
  /\ i \notin Ids(library)
  /\ Becomes(library \cup {[id |-> i, path |-> p, at |-> clock,
                           archived |-> FALSE, starred |-> FALSE]})

Archived(rows, way) == {[r EXCEPT !.archived = way] : r \in rows}

(* One row, a selection, or all that is ignored; for the others nothing    *)
(* changes.                                                                *)
Archive(S) == S # {} /\ Becomes((library \ S) \cup Archived(S, TRUE))
Unarchive(S) == S # {} /\ Becomes((library \ S) \cup Archived(S, FALSE))
ArchiveIgnored == Archive({r \in library : ~r.archived /\ r.path \in Ignored})

Bookmark(r) == Becomes((library \ {r}) \cup {[r EXCEPT !.starred = ~@]})

ListingNext ==
  \/ \E f \in Filters : FirstPage(f)
  \/ NextPage \/ ReaderLeaves \/ Tick \/ ArchiveIgnored
  \/ \E p \in FilePaths, i \in RowIds : Saved(p, i)
  \/ \E S \in SUBSET {r \in library : ~r.archived} : Archive(S)
  \/ \E S \in SUBSET {r \in library : r.archived} : Unarchive(S)
  \/ \E r \in library : Bookmark(r)

ListingSpec == ListingInit /\ [][ListingNext]_listingVars

-----------------------------------------------------------------------------
(* Folders.                                                                *)

Dir(p) == SubSeq(p, 1, Len(p) - 1)
Within(p, dir) == IsPrefix(dir, Dir(p))
VisiblePaths == {r.path : r \in Visible(library, FALSE)}
Dirs == UNION {{SubSeq(p, 1, n) : n \in 0 .. Len(p) - 1} : p \in FilePaths}

(* What is directly in a directory: the names of directories.              *)
Below(dir) ==
  {p[Len(dir) + 1] : p \in {q \in VisiblePaths : Within(q, dir) /\ Len(q) > Len(dir) + 1}}
Direct(dir) == {p \in VisiblePaths : Dir(p) = dir}

Joined(dir) == Cardinality(Below(dir)) = 1 /\ Direct(dir) = {}

(* A chain of directories with nothing else in them is one folder, which   *)
(* ends at the first that has something else.                              *)
EndsAt(dir, d) ==
  /\ IsPrefix(dir, d) /\ ~Joined(d)
  /\ \E p \in VisiblePaths : Within(p, d)
  /\ \A e \in Dirs : IsPrefix(dir, e) /\ IsStrictPrefix(e, d) => Joined(e)
Folder(dir) == CHOOSE d \in Dirs : EndsAt(dir, d)

(* _folder_tree: the folders of a directory and how many files each has.   *)
FolderTree(dir) ==
  {[path |-> Folder(Append(dir, n)),
    files |-> Cardinality({p \in VisiblePaths : Within(p, Append(dir, n))})] : n \in Below(dir)}

-----------------------------------------------------------------------------
(* Serving.                                                                *)

(* parse_range_header for bytes=first-last: -1 stands for a number that is *)
(* left out.                                                               *)
Whole == <<"whole">>
Unsatisfiable == <<"unsatisfiable">>
Least(m, n) == IF m < n THEN m ELSE n

Span(size, first, last) ==
  IF first = -1
  THEN IF last = -1 THEN Whole
       ELSE IF last = 0 \/ size = 0 THEN Unsatisfiable
       ELSE <<"part", IF size < last THEN 0 ELSE size - last, size - 1>>
  ELSE IF first >= size \/ (last # -1 /\ last < first) THEN Unsatisfiable
  ELSE <<"part", first, IF last = -1 THEN size - 1 ELSE Least(last, size - 1)>>

-----------------------------------------------------------------------------
(* What an app reads of the library is complete.  When it has paged to    *)
(* the end it has seen every row that was in the listing all the time,     *)
(* whatever was saved, archived or starred meanwhile and also when its     *)
(* cursor's row went, and by save it sees none twice ("Keyset, never       *)
(* offset", _after_cursor).  Every file below a directory is in one of its *)
(* folders or directly in it, the counts say how many, and a folder is one *)
(* where the operator has a choice (_folder_tree).                         *)
PagesAreComplete ==
  \A q \in reader : /\ q.done => q.stayed \subseteq q.shown
                    /\ q.again => q.latest
FoldersPartition ==
  \A dir \in Dirs :
    LET tree == FolderTree(dir)
    IN /\ \A p \in {q \in VisiblePaths : Within(q, dir)} :
            (p \in Direct(dir)) <=> Cardinality({f \in tree : Within(p, f.path)}) # 1
       /\ \A f \in tree :
            /\ f.files = Cardinality({p \in VisiblePaths : Within(p, f.path)})
            /\ Cardinality(Below(f.path)) + Cardinality(Direct(f.path)) > 1
                 \/ (Cardinality(Direct(f.path)) = 1 /\ f.files = 1)
ListingsAreComplete == PagesAreComplete /\ FoldersPartition

(* The bytes a range names, as far as the file goes.                       *)
Named(size, first, last) ==
  IF first = -1 THEN {n \in 0 .. size - 1 : n >= size - last}
  ELSE {n \in 0 .. size - 1 : n >= first /\ (last = -1 \/ n <= last)}

(* A range that is served lies within the file and is what was asked for,  *)
(* as far as the file goes; one that names nothing in it is refused        *)
(* (parse_range_header).                                                   *)
SpanIsAsked ==
  \A size \in Nat, first, last \in Nat \cup {-1} :
    first # -1 \/ last # -1 =>
      IF Named(size, first, last) = {} THEN Span(size, first, last) = Unsatisfiable
      ELSE \E a, b \in 0 .. size - 1 : /\ Span(size, first, last) = <<"part", a, b>>
                                      /\ Named(size, first, last) = a .. b
=============================================================================
