----------------------------- MODULE LibraryProofs ----------------------------
(***************************************************************************)
(* Theorems about what the operator's library is made of: the projects and *)
(* what is filed in them, the listings and ranges the artifact routes      *)
(* serve, how files become artifacts, and how these are tagged and         *)
(* collected.                                                              *)
(***************************************************************************)
EXTENDS ProjectFiling, ArtifactListing, ArtifactIngest, Curation,
        FiniteSetTheorems, SequenceTheorems, WellFoundedInduction, TLAPS

-----------------------------------------------------------------------------
(* ProjectFiling. For any projects, sessions and profiles, and any order   *)
(* of filing, moving, forking, deleting and listing: no reference dangles, *)
(* and what a listing reports missing is gone.                             *)

KnownProjects == projects \cup {NoProject}

FilingType == [id : Nat, session : Sessions, project : Projects]
FiledRunType == [session : Sessions, project : Projects \cup {NoProject},
            stamp : Projects \cup {NoProject}, filing : Nat]
FiledType == [project : Projects \cup {NoProject}, run : Nat]

FilingTypes ==
  /\ filings \subseteq FilingType
  /\ runs \in Seq(FiledRunType)
  /\ files \in Seq(FiledType)
  /\ copies \subseteq [session : Sessions, project : Projects \cup {NoProject}]
  /\ projects \subseteq Projects
  /\ lastFiling \in Nat
  /\ creating \subseteq [session : Sessions, project : Projects]
  /\ forking \subseteq [parent : Sessions, session : Sessions]
  /\ store \in [Sessions -> {"none", "there", "deleted"}]
  /\ listing = NoListing \/ listing \in
       [project : Projects, rows : SUBSET Sessions, orphans : SUBSET Sessions,
        ask : SUBSET Profiles, index : SUBSET Sessions, checked : SUBSET Profiles]

(* What was filed or copied was there, and nothing comes back.             *)
FiledWereThere ==
  /\ \A f \in filings : store[f.session] # "none"
  /\ \A c \in copies : store[c.session] # "none"
  /\ \A k \in forking : store[k.session] # "none"

(* What the listing has read was there, and a session of a profile that    *)
(* was listed without it is gone.                                          *)
ListedWereThere ==
  listing # NoListing =>
    \A s \in listing.rows \cup listing.orphans :
      /\ store[s] # "none"
      /\ Home[s] \in listing.checked /\ s \notin listing.index => store[s] = "deleted"

FilingIInv == FilingTypes /\ NothingDangles /\ FiledWereThere /\ ListedWereThere
-----------------------------------------------------------------------------
(* Helpers.                                                                *)

(* What filing a session does, if it does anything.                        *)
LEMMA FilesOne ==
  ASSUME NEW s, NEW p, FileStored(s, p)
  PROVE  \/ UNCHANGED <<filings, lastFiling>>
         \/ /\ p \in projects
            /\ lastFiling' = lastFiling + 1
            /\ filings' = filings \cup {[id |-> lastFiling + 1, session |-> s, project |-> p]}
  BY DEF FileStored

(* The filing of a session, if it has one, is one of the table.            *)
LEMMA FilingFound ==
  ASSUME NEW s, FilingOf(s) # {}
  PROVE  (CHOOSE f \in FilingOf(s) : TRUE) \in filings
  BY DEF FilingOf

(* A sequence whose entries are changed one by one.                        *)
LEMMA ChangedOneByOne ==
  ASSUME NEW S, NEW seq \in Seq(S), NEW new, new = [i \in DOMAIN seq |-> new[i]],
         \A i \in DOMAIN seq : new[i] \in S
  PROVE  new \in Seq(S) /\ DOMAIN new = DOMAIN seq
<1>1. Len(seq) \in Nat /\ DOMAIN seq = 1..Len(seq)
  OBVIOUS
<1>2. new \in [1..Len(seq) -> S]
  BY <1>1
<1> QED BY <1>1, <1>2

(* The project of a session is one of the projects, or none.               *)
LEMMA ProjectOfKnown ==
  ASSUME FilingTypes, NothingDangles, NEW s
  PROVE  ProjectOf(s) \in KnownProjects
<1>1. CASE FilingOf(s) = {}
  BY <1>1 DEF ProjectOf, KnownProjects
<1>2. CASE FilingOf(s) # {}
  BY <1>2, FilingFound DEF ProjectOf, KnownProjects, NothingDangles
<1> QED BY <1>1, <1>2

(* The steps there are.                                                    *)
LEMMA StepsAre ==
  ASSUME [FilingNext]_filingVars
  PROVE  \/ \E p \in Projects :
              \/ CreateProject(p) \/ DeleteProject(p) \/ ListReads(p)
              \/ \E s \in Sessions : FileSession(s, p) \/ MoveFiledSession(s, p) \/ CreateAsks(s, p)
         \/ \E s \in Sessions : UnfileSession(s) \/ HermesDeletes(s) \/ OpenRun(s) \/ Copy(s)
         \/ \E s, t \in Sessions : HermesBranches(s, t)
         \/ \E c \in creating : HermesCreates(c) \/ CreateFiles(c)
         \/ \E k \in forking : ForkFiles(k)
         \/ \E r \in DOMAIN runs : Ingest(r)
         \/ \E f \in Profiles, ok \in BOOLEAN : ListAsks(f, ok)
         \/ ListAnswers
         \/ UNCHANGED filingVars
  BY DEF FilingNext
-----------------------------------------------------------------------------
(* The types.                                                              *)

(* The types hold at the start.                                            *)
LEMMA InitTypes == FilingInit => FilingTypes
  BY DEF FilingInit, FilingTypes, NoListing

(* They survive a filing ...                                               *)
LEMMA FileStoredTypes ==
  ASSUME FilingTypes, NEW s \in Sessions, NEW p, FileStored(s, p)
  PROVE  filings' \subseteq FilingType /\ lastFiling' \in Nat
<1>1. CASE UNCHANGED <<filings, lastFiling>>
  BY <1>1 DEF FilingTypes
<1>2. CASE /\ p \in projects
           /\ lastFiling' = lastFiling + 1
           /\ filings' = filings \cup {[id |-> lastFiling + 1, session |-> s, project |-> p]}
  BY <1>2 DEF FilingTypes, FilingType
<1> QED BY <1>1, <1>2, FilesOne

(* ... a run that loses its filing ...                                     *)
LEMMA DetachedTypes ==
  ASSUME NEW r \in FiledRunType, NEW gone
  PROVE  Detached(r, gone) \in FiledRunType
  BY DEF Detached, FiledRunType, NoFiling

(* ... or its project ...                                                  *)
LEMMA DetachedFromTypes ==
  ASSUME NEW r \in FiledRunType, NEW p
  PROVE  DetachedFrom(r, p) \in FiledRunType
<1>1. CASE r.project = p
  BY <1>1 DEF DetachedFrom, FiledRunType, NoFiling
<1>2. CASE r.project # p
  BY <1>2, DetachedTypes DEF DetachedFrom
<1> QED BY <1>1, <1>2

(* ... and every step.                                                     *)
LEMMA StepTypes ==
  ASSUME FilingTypes, NothingDangles, [FilingNext]_filingVars
  PROVE  FilingTypes'
<1>1. ASSUME NEW p \in Projects, CreateProject(p) PROVE FilingTypes'
  BY <1>1 DEF CreateProject, FilingTypes, references, requests
<1>2. ASSUME NEW p \in Projects, DeleteProject(p) PROVE FilingTypes'
  <2>1. runs' \in Seq(FiledRunType)
    <3> DEFINE new == [i \in DOMAIN runs |-> DetachedFrom(runs[i], p)]
    <3>1. \A i \in DOMAIN runs : new[i] \in FiledRunType
      BY DetachedFromTypes DEF FilingTypes
    <3>2. new = [i \in DOMAIN runs |-> new[i]] /\ runs' = new /\ runs \in Seq(FiledRunType)
      BY <1>2 DEF DeleteProject, FilingTypes
    <3> HIDE DEF new
    <3> QED BY <3>1, <3>2, ChangedOneByOne
  <2>2. files' \in Seq(FiledType)
    <3> DEFINE new == [i \in DOMAIN files |->
                        IF files[i].project = p THEN [files[i] EXCEPT !.project = NoProject]
                        ELSE files[i]]
    <3>1. ASSUME NEW i \in DOMAIN files PROVE new[i] \in FiledType
      <4>1. files[i] \in FiledType
        BY DEF FilingTypes
      <4> QED BY <4>1 DEF FiledType
    <3>2. new = [i \in DOMAIN files |-> new[i]] /\ files' = new /\ files \in Seq(FiledType)
      BY <1>2 DEF DeleteProject, FilingTypes
    <3> HIDE DEF new
    <3> QED BY <3>1, <3>2, ChangedOneByOne
  <2>3. copies' \subseteq [session : Sessions, project : Projects \cup {NoProject}]
    <3>1. ASSUME NEW c \in copies
          PROVE (IF c.project = p THEN [c EXCEPT !.project = NoProject] ELSE c)
                  \in [session : Sessions, project : Projects \cup {NoProject}]
      BY DEF FilingTypes
    <3> QED BY <1>2, <3>1 DEF DeleteProject
  <2>4. filings' \subseteq FilingType /\ projects' \subseteq Projects
    BY <1>2 DEF DeleteProject, FilingTypes
  <2>5. UNCHANGED <<lastFiling, creating, forking, store, listing>>
    BY <1>2 DEF DeleteProject, requests
  <2> QED BY <2>1, <2>2, <2>3, <2>4, <2>5 DEF FilingTypes
<1>3. ASSUME NEW p \in Projects, ListReads(p) PROVE FilingTypes'
  <2>1. /\ FiledIn(p) \subseteq Sessions
        /\ {c.session : c \in {d \in copies : d.project = p}} \subseteq Sessions
    BY DEF FiledIn, FilingTypes, FilingType
  <2>2. listing' \in [project : Projects, rows : SUBSET Sessions, orphans : SUBSET Sessions,
                      ask : SUBSET Profiles, index : SUBSET Sessions, checked : SUBSET Profiles]
    <3>1. (IF FiledIn(p) = {} THEN {DefaultProfile} ELSE {Home[s] : s \in FiledIn(p)})
             \subseteq Profiles
      BY <2>1, HomeAssumption, DefaultAssumption
    <3> QED BY <1>3, <2>1, <3>1 DEF ListReads
  <2> QED BY <1>3, <2>2 DEF ListReads, FilingTypes, references, requests
<1>4. ASSUME NEW p \in Projects, NEW s \in Sessions,
             FileSession(s, p) \/ MoveFiledSession(s, p) \/ CreateAsks(s, p)
      PROVE FilingTypes'
  <2>1. CASE FileSession(s, p)
    BY <2>1, FileStoredTypes DEF FileSession, FilingTypes, references, requests
  <2>2. CASE MoveFiledSession(s, p)
    BY <2>2 DEF MoveFiledSession, FilingTypes, FilingType, FilingOf, references, requests
  <2>3. CASE CreateAsks(s, p)
    BY <2>3 DEF CreateAsks, FilingTypes, references
  <2> QED BY <1>4, <2>1, <2>2, <2>3
<1>5. ASSUME NEW s \in Sessions, UnfileSession(s) PROVE FilingTypes'
  <2> DEFINE new == [i \in DOMAIN runs |-> Detached(runs[i], {f.id : f \in FilingOf(s)})]
  <2>1. \A i \in DOMAIN runs : new[i] \in FiledRunType
    BY DetachedTypes DEF FilingTypes
  <2>2. new = [i \in DOMAIN runs |-> new[i]] /\ runs' = new /\ runs \in Seq(FiledRunType)
    BY <1>5 DEF UnfileSession, FilingTypes
  <2>3. runs' \in Seq(FiledRunType)
    <3> HIDE DEF new
    <3> QED BY <2>1, <2>2, ChangedOneByOne
  <2> QED BY <1>5, <2>3 DEF UnfileSession, FilingTypes, requests
<1>6. ASSUME NEW s \in Sessions, HermesDeletes(s) \/ OpenRun(s) \/ Copy(s) PROVE FilingTypes'
  <2>1. CASE HermesDeletes(s)
    BY <2>1 DEF HermesDeletes, FilingTypes, references, requests
  <2>2. ProjectOf(s) \in Projects \cup {NoProject}
    BY ProjectOfKnown DEF KnownProjects, FilingTypes
  <2>3. CASE OpenRun(s)
    <3>1. (IF FilingOf(s) = {} THEN NoFiling ELSE (CHOOSE f \in FilingOf(s) : TRUE).id) \in Nat
      <4>1. CASE FilingOf(s) = {}
        BY <4>1 DEF NoFiling
      <4>2. CASE FilingOf(s) # {}
        BY <4>2, FilingFound DEF FilingTypes, FilingType
      <4> QED BY <4>1, <4>2
    <3>2. runs' \in Seq(FiledRunType)
      BY <2>3, <2>2, <3>1 DEF OpenRun, FilingTypes, FiledRunType
    <3> QED BY <2>3, <3>2 DEF OpenRun, FilingTypes, requests
  <2>4. CASE Copy(s)
    BY <2>4, <2>2 DEF Copy, FilingTypes, requests
  <2> QED BY <1>6, <2>1, <2>3, <2>4
<1>7. ASSUME NEW s \in Sessions, NEW t \in Sessions, HermesBranches(s, t) PROVE FilingTypes'
  BY <1>7 DEF HermesBranches, FilingTypes, references
<1>8. ASSUME NEW c \in creating, HermesCreates(c) \/ CreateFiles(c) PROVE FilingTypes'
  <2>1. c.session \in Sessions
    BY DEF FilingTypes
  <2>2. CASE HermesCreates(c)
    BY <2>2, <2>1 DEF HermesCreates, FilingTypes, references, requests
  <2>3. CASE CreateFiles(c)
    BY <2>3, <2>1, FileStoredTypes DEF CreateFiles, FilingTypes, references
  <2> QED BY <1>8, <2>2, <2>3
<1>9. ASSUME NEW k \in forking, ForkFiles(k) PROVE FilingTypes'
  <2>1. k.session \in Sessions
    BY DEF FilingTypes
  <2>2. filings' \subseteq FilingType /\ lastFiling' \in Nat
    <3>1. CASE FilingOf(k.parent) = {}
      BY <1>9, <3>1 DEF ForkFiles, FilingTypes
    <3>2. CASE FilingOf(k.parent) # {}
      BY <1>9, <3>2, <2>1, FileStoredTypes DEF ForkFiles
    <3> QED BY <3>1, <3>2
  <2>3. /\ forking' \subseteq forking
        /\ UNCHANGED <<projects, runs, files, copies, store, creating, listing>>
    BY <1>9 DEF ForkFiles, references
  <2> QED BY <2>2, <2>3 DEF FilingTypes
<1>10. ASSUME NEW r \in DOMAIN runs, Ingest(r) PROVE FilingTypes'
  <2>1. runs[r] \in FiledRunType /\ r \in Nat
    BY DEF FilingTypes
  <2>2. files' \in Seq(FiledType)
    BY <1>10, <2>1 DEF Ingest, FilingTypes, FiledRunType, FiledType, NoRun
  <2>3. UNCHANGED <<projects, filings, lastFiling, runs, copies, store, creating, forking, listing>>
    BY <1>10 DEF Ingest, requests
  <2> QED BY <2>2, <2>3 DEF FilingTypes
<1>11. ASSUME NEW f \in Profiles, NEW ok \in BOOLEAN, ListAsks(f, ok) PROVE FilingTypes'
  <2> DEFINE ListingType ==
        [project : Projects, rows : SUBSET Sessions, orphans : SUBSET Sessions,
         ask : SUBSET Profiles, index : SUBSET Sessions, checked : SUBSET Profiles]
  <2>1. listing \in ListingType
    BY <1>11 DEF ListAsks, FilingTypes
  <2>2. listing' \in ListingType
    BY <1>11, <2>1 DEF ListAsks
  <2>3. UNCHANGED <<projects, filings, lastFiling, runs, files, copies, store, creating, forking>>
    BY <1>11 DEF ListAsks, references, requests
  <2> QED BY <2>2, <2>3 DEF FilingTypes
<1>12. CASE ListAnswers
  BY <1>12 DEF ListAnswers, FilingTypes, references, requests
<1>13. CASE UNCHANGED filingVars
  BY <1>13 DEF filingVars, FilingTypes, references, requests
<1> QED BY <1>1, <1>2, <1>3, <1>4, <1>5, <1>6, <1>7, <1>8, <1>9, <1>10, <1>11, <1>12, <1>13,
           StepsAre
-----------------------------------------------------------------------------
(* The references.                                                         *)

(* No reference dangles at the start.                                      *)
LEMMA InitDangles == FilingInit => NothingDangles
  BY DEF FilingInit, NothingDangles

(* Filing a session adds a row of a project that is there, and keeps the   *)
(* filings runs refer to.                                                  *)
LEMMA FilingDangles ==
  ASSUME FilingTypes, NothingDangles, NEW s, NEW p, FileStored(s, p),
         UNCHANGED <<projects, references>>
  PROVE  NothingDangles'
<1>1. \A f \in filings' : f.project \in projects
  BY FilesOne DEF NothingDangles
<1>2. filings \subseteq filings'
  BY FilesOne
<1> QED BY <1>1, <1>2 DEF NothingDangles, references

(* The runs of a deleted project, or filed in it, no longer refer to it.   *)
LEMMA DeletingDangles ==
  ASSUME FilingTypes, NothingDangles, NEW p \in Projects, DeleteProject(p)
  PROVE  NothingDangles'
<1> DEFINE gone == {f \in filings : f.project = p}
<1>1. filings' = filings \ gone /\ projects' = projects \ {p}
  BY DEF DeleteProject
<1>2. \A f \in filings' : f.project \in projects'
  BY <1>1 DEF NothingDangles
<1>3. DOMAIN runs' = DOMAIN runs /\ DOMAIN files' = DOMAIN files
  BY DEF DeleteProject
<1>4. ASSUME NEW i \in DOMAIN runs
      PROVE  /\ runs'[i].project \in projects' \cup {NoProject}
             /\ runs'[i].filing \in {NoFiling} \cup {f.id : f \in filings'}
  <2>1. runs[i] \in FiledRunType /\ runs'[i] = DetachedFrom(runs[i], p)
    BY DEF DeleteProject, FilingTypes
  <2>2. CASE runs[i].project = p
    BY <2>1, <2>2 DEF DetachedFrom, FiledRunType
  <2>3. CASE runs[i].project # p
    <3>1. runs'[i] = Detached(runs[i], {f.id : f \in gone})
      BY <2>1, <2>3 DEF DetachedFrom
    <3>2. runs[i].filing = NoFiling \/ \E f \in filings : f.id = runs[i].filing
      BY DEF NothingDangles
    <3>3. /\ runs'[i].project = runs[i].project
          /\ runs'[i].filing = NoFiling \/ \E f \in filings' : f.id = runs'[i].filing
      <4>1. CASE runs[i].filing \in {f.id : f \in gone}
        BY <2>1, <3>1, <4>1 DEF Detached, FiledRunType
      <4>2. CASE runs[i].filing \notin {f.id : f \in gone}
        BY <1>1, <3>1, <3>2, <4>2 DEF Detached
      <4> QED BY <4>1, <4>2
    <3>4. runs[i].project \in projects \cup {NoProject}
      BY DEF NothingDangles
    <3> QED BY <1>1, <2>3, <3>3, <3>4
  <2> QED BY <2>2, <2>3
<1>5. ASSUME NEW i \in DOMAIN files PROVE files'[i].project \in projects' \cup {NoProject}
  <2>1. files[i].project \in projects \cup {NoProject} /\ files[i] \in FiledType
    BY DEF NothingDangles, FilingTypes
  <2> QED BY <1>1, <2>1 DEF DeleteProject, FiledType
<1>6. ASSUME NEW c \in copies' PROVE c.project \in projects' \cup {NoProject}
  <2>1. PICK d \in copies : c = IF d.project = p THEN [d EXCEPT !.project = NoProject] ELSE d
    BY DEF DeleteProject
  <2>2. d.project \in projects \cup {NoProject}
    BY DEF NothingDangles
  <2>3. d \in [session : Sessions, project : Projects \cup {NoProject}]
    BY DEF FilingTypes
  <2> QED BY <1>1, <2>1, <2>2, <2>3
<1> QED BY <1>2, <1>3, <1>4, <1>5, <1>6 DEF NothingDangles

(* Unfiling a session detaches its runs first.                             *)
LEMMA UnfilingDangles ==
  ASSUME FilingTypes, NothingDangles, NEW s \in Sessions, UnfileSession(s)
  PROVE  NothingDangles'
<1> DEFINE gone == FilingOf(s)
<1>1. filings' = filings \ gone /\ projects' = projects /\ files' = files /\ copies' = copies
  BY DEF UnfileSession
<1>2. ASSUME NEW i \in DOMAIN runs
      PROVE  /\ runs'[i].project \in projects \cup {NoProject}
             /\ runs'[i].filing \in {NoFiling} \cup {f.id : f \in filings'}
  <2>1. runs[i] \in FiledRunType /\ runs'[i] = Detached(runs[i], {f.id : f \in gone})
    BY DEF UnfileSession, FilingTypes
  <2>2. /\ runs[i].filing = NoFiling \/ \E f \in filings : f.id = runs[i].filing
        /\ runs[i].project \in projects \cup {NoProject}
    BY DEF NothingDangles
  <2>3. CASE runs[i].filing \in {f.id : f \in gone}
    BY <2>1, <2>2, <2>3 DEF Detached, FiledRunType
  <2>4. CASE runs[i].filing \notin {f.id : f \in gone}
    BY <1>1, <2>1, <2>2, <2>4 DEF Detached
  <2> QED BY <2>3, <2>4
<1>3. DOMAIN runs' = DOMAIN runs
  BY DEF UnfileSession
<1> QED BY <1>1, <1>2, <1>3 DEF NothingDangles

(* No step makes a reference dangle.                                       *)
LEMMA StepDangles ==
  ASSUME FilingTypes, NothingDangles, [FilingNext]_filingVars
  PROVE  NothingDangles'
<1>1. ASSUME NEW p \in Projects, CreateProject(p) PROVE NothingDangles'
  BY <1>1 DEF CreateProject, NothingDangles, references
<1>2. ASSUME NEW p \in Projects, NEW s \in Sessions, FileSession(s, p) PROVE NothingDangles'
  BY <1>2, FilingDangles DEF FileSession
<1>3. ASSUME NEW p \in Projects, NEW s \in Sessions, MoveFiledSession(s, p) PROVE NothingDangles'
  <2>1. PICK f \in FilingOf(s) : filings' = (filings \ {f}) \cup {[f EXCEPT !.project = p]}
    BY <1>3 DEF MoveFiledSession
  <2>2. f \in filings /\ f \in FilingType /\ p \in projects
    BY <1>3 DEF MoveFiledSession, FilingOf, FilingTypes
  <2>3. {g.id : g \in filings} \subseteq {g.id : g \in filings'}
    <3>1. [f EXCEPT !.project = p].id = f.id /\ [f EXCEPT !.project = p] \in filings'
      BY <2>1, <2>2 DEF FilingType
    <3>2. \A g \in filings \ {f} : g \in filings'
      BY <2>1
    <3> QED BY <3>1, <3>2
  <2>4. \A g \in filings' : g.project \in projects
    BY <2>1, <2>2 DEF FilingType, NothingDangles
  <2>5. UNCHANGED <<projects, runs, files, copies>>
    BY <1>3 DEF MoveFiledSession, references
  <2> QED BY <2>3, <2>4, <2>5 DEF NothingDangles
<1>4. ASSUME NEW c \in creating, CreateFiles(c) PROVE NothingDangles'
  BY <1>4, FilingDangles DEF CreateFiles
<1>5. ASSUME NEW k \in forking, ForkFiles(k) PROVE NothingDangles'
  <2>1. CASE FilingOf(k.parent) = {}
    BY <1>5, <2>1 DEF ForkFiles, NothingDangles, references
  <2>2. CASE FilingOf(k.parent) # {}
    BY <1>5, <2>2, FilingDangles DEF ForkFiles
  <2> QED BY <2>1, <2>2
<1>6. ASSUME NEW s \in Sessions, OpenRun(s) PROVE NothingDangles'
  <2> DEFINE new == [session |-> s, project |-> ProjectOf(s), stamp |-> ProjectOf(s),
                     filing |-> IF FilingOf(s) = {} THEN NoFiling
                                ELSE (CHOOSE f \in FilingOf(s) : TRUE).id]
  <2>1. new.project \in projects \cup {NoProject}
    BY ProjectOfKnown DEF KnownProjects
  <2>2. new.filing \in {NoFiling} \cup {f.id : f \in filings}
    BY FilingFound
  <2>3. runs' = Append(runs, new) /\ UNCHANGED <<projects, filings, files, copies>>
    BY <1>6 DEF OpenRun
  <2>4. runs \in Seq(FiledRunType)
    BY DEF FilingTypes
  <2> HIDE DEF new
  <2>5. \A i \in DOMAIN runs' : (i \in DOMAIN runs /\ runs'[i] = runs[i]) \/ runs'[i] = new
    BY <2>3, <2>4
  <2> QED BY <2>1, <2>2, <2>3, <2>5 DEF NothingDangles
<1>7. ASSUME NEW r \in DOMAIN runs, Ingest(r) PROVE NothingDangles'
  <2>1. PICK new : files' = Append(files, new) /\ new.project \in projects \cup {NoProject}
    BY <1>7 DEF Ingest
  <2>2. files \in Seq(FiledType)
    BY DEF FilingTypes
  <2>3. \A i \in DOMAIN files' : (i \in DOMAIN files /\ files'[i] = files[i]) \/ files'[i] = new
    BY <2>1, <2>2
  <2> QED BY <1>7, <2>1, <2>3 DEF Ingest, NothingDangles
<1>8. ASSUME NEW s \in Sessions, Copy(s) PROVE NothingDangles'
  <2>1. copies' = copies \cup {[session |-> s, project |-> ProjectOf(s)]}
    BY <1>8 DEF Copy
  <2>2. ProjectOf(s) \in projects \cup {NoProject}
    BY ProjectOfKnown DEF KnownProjects
  <2> QED BY <1>8, <2>1, <2>2 DEF Copy, NothingDangles
<1>9. ASSUME UNCHANGED <<projects, filings, runs, files, copies>> PROVE NothingDangles'
  BY <1>9 DEF NothingDangles
<1>10. \A p \in Projects, s \in Sessions : ListReads(p) \/ CreateAsks(s, p) =>
         UNCHANGED <<projects, filings, runs, files, copies>>
  BY DEF ListReads, CreateAsks, references
<1>11. \A s, t : HermesDeletes(s) \/ HermesBranches(s, t) \/ HermesCreates(s) =>
         UNCHANGED <<projects, filings, runs, files, copies>>
  BY DEF HermesDeletes, HermesBranches, HermesCreates, references
<1>12. \A f, ok : ListAsks(f, ok) \/ ListAnswers \/ UNCHANGED filingVars =>
         UNCHANGED <<projects, filings, runs, files, copies>>
  BY DEF ListAsks, ListAnswers, filingVars, references
<1>13. \A p \in Projects : DeleteProject(p) => NothingDangles'
  BY DeletingDangles
<1>14. \A s \in Sessions : UnfileSession(s) => NothingDangles'
  BY UnfilingDangles
<1>15. \A p \in Projects : ListReads(p) => UNCHANGED <<projects, filings, runs, files, copies>>
  BY DEF ListReads, references
<1> QED BY <1>1, <1>2, <1>3, <1>4, <1>5, <1>6, <1>7, <1>8, <1>9, <1>10, <1>11, <1>12, <1>13, <1>14,
           <1>15, StepsAre
-----------------------------------------------------------------------------
(* What was filed, copied or listed was there.                             *)

(* Sessions do not come to be unknown again, and none comes back.          *)
StoreOnward ==
  \A s \in Sessions : /\ store[s] # "none" => store'[s] # "none"
                      /\ store[s] = "deleted" => store'[s] = "deleted"

(* Numbers are not used again, and what is gone stays gone.                *)
LEMMA StepStore ==
  ASSUME FilingTypes, [FilingNext]_filingVars
  PROVE  StoreOnward
<1>1. ASSUME NEW s \in Sessions, HermesDeletes(s) PROVE StoreOnward
  BY <1>1 DEF HermesDeletes, StoreOnward, FilingTypes
<1>2. ASSUME NEW s \in Sessions, NEW t \in Sessions, HermesBranches(s, t) PROVE StoreOnward
  BY <1>2 DEF HermesBranches, StoreOnward, FilingTypes
<1>3. ASSUME NEW c \in creating, HermesCreates(c) PROVE StoreOnward
  BY <1>3 DEF HermesCreates, StoreOnward, FilingTypes
<1>4. ASSUME UNCHANGED store PROVE StoreOnward
  BY <1>4 DEF StoreOnward
<1>5. \A p : CreateProject(p) \/ DeleteProject(p) \/ ListReads(p) => StoreOnward
  BY <1>4 DEF CreateProject, DeleteProject, ListReads
<1>6. \A s, p : FileSession(s, p) \/ MoveFiledSession(s, p) \/ CreateAsks(s, p) => StoreOnward
  BY <1>4 DEF FileSession, MoveFiledSession, CreateAsks
<1>7. \A s : \/ UnfileSession(s) \/ OpenRun(s) \/ Copy(s) \/ CreateFiles(s)
             \/ ForkFiles(s) \/ Ingest(s)
        => StoreOnward
  BY <1>4 DEF UnfileSession, OpenRun, Copy, CreateFiles, ForkFiles, Ingest
<1>8. \A f, ok : ListAsks(f, ok) => StoreOnward
  BY <1>4 DEF ListAsks
<1>9. ListAnswers \/ UNCHANGED filingVars => StoreOnward
  BY <1>4 DEF ListAnswers, filingVars
<1> QED BY <1>1, <1>2, <1>3, <1>5, <1>6, <1>7, <1>8, <1>9, StepsAre

(* What was filed was there.                                               *)
LEMMA StepFiled ==
  ASSUME FilingTypes, FiledWereThere, [FilingNext]_filingVars
  PROVE  FiledWereThere'
<1>1. StoreOnward
  BY StepStore
<1>2. ASSUME \A f \in filings' : f.session \in Sessions /\ store[f.session] # "none",
             \A c \in copies' : c.session \in Sessions /\ store[c.session] # "none",
             \A k \in forking' : k.session \in Sessions /\ store'[k.session] # "none"
      PROVE  FiledWereThere'
  BY <1>1, <1>2 DEF FiledWereThere, StoreOnward
<1>3. /\ \A f \in filings : f.session \in Sessions /\ store[f.session] # "none"
      /\ \A c \in copies : c.session \in Sessions /\ store[c.session] # "none"
      /\ \A k \in forking : /\ k.session \in Sessions /\ store[k.session] # "none"
                            /\ store'[k.session] # "none"
  BY <1>1 DEF FiledWereThere, FilingTypes, FilingType, StoreOnward
<1>4. ASSUME NEW p \in Projects, DeleteProject(p) PROVE FiledWereThere'
  <2>1. \A c \in copies' : \E d \in copies : c.session = d.session
    <3>1. ASSUME NEW c \in copies' PROVE \E d \in copies : c.session = d.session
      <4>1. PICK d \in copies : c = IF d.project = p THEN [d EXCEPT !.project = NoProject] ELSE d
        BY <1>4 DEF DeleteProject
      <4>2. d \in [session : Sessions, project : Projects \cup {NoProject}]
        BY DEF FilingTypes
      <4> QED BY <4>1, <4>2
    <3> QED BY <3>1
  <2>2. filings' \subseteq filings /\ forking' = forking
    BY <1>4 DEF DeleteProject, requests
  <2> QED BY <1>2, <1>3, <2>1, <2>2
<1>5. ASSUME NEW p \in Projects, NEW s \in Sessions, FileSession(s, p) PROVE FiledWereThere'
  <2>1. \A f \in filings' : f \in filings \/ f.session = s
    BY <1>5, FilesOne DEF FileSession
  <2>2. store[s] # "none" /\ copies' = copies /\ forking' = forking
    BY <1>5 DEF FileSession, references, requests
  <2> QED BY <1>2, <1>3, <2>1, <2>2
<1>6. ASSUME NEW p \in Projects, NEW s \in Sessions, MoveFiledSession(s, p) PROVE FiledWereThere'
  <2>1. PICK f \in FilingOf(s) : filings' = (filings \ {f}) \cup {[f EXCEPT !.project = p]}
    BY <1>6 DEF MoveFiledSession
  <2>2. f \in filings /\ f \in FilingType
    BY DEF FilingOf, FilingTypes
  <2>3. \A g \in filings' : g \in filings \/ g.session = f.session
    BY <2>1, <2>2 DEF FilingType
  <2>4. copies' = copies /\ forking' = forking
    BY <1>6 DEF MoveFiledSession, references, requests
  <2> QED BY <1>2, <1>3, <2>2, <2>3, <2>4
<1>7. ASSUME NEW c \in creating, CreateFiles(c) PROVE FiledWereThere'
  <2>1. \A f \in filings' : f \in filings \/ f.session = c.session
    BY <1>7, FilesOne DEF CreateFiles
  <2>2. c.session \in Sessions /\ store[c.session] # "none"
    BY <1>7 DEF CreateFiles, FilingTypes
  <2>3. copies' = copies /\ forking' = forking
    BY <1>7 DEF CreateFiles, references
  <2> QED BY <1>2, <1>3, <2>1, <2>2, <2>3
<1>8. ASSUME NEW k \in forking, ForkFiles(k) PROVE FiledWereThere'
  <2>1. \A f \in filings' : f \in filings \/ f.session = k.session
    BY <1>8, FilesOne DEF ForkFiles
  <2>2. copies' = copies /\ forking' \subseteq forking
    BY <1>8 DEF ForkFiles, references
  <2> QED BY <1>2, <1>3, <2>1, <2>2
<1>9. ASSUME NEW s \in Sessions, NEW t \in Sessions, HermesBranches(s, t) PROVE FiledWereThere'
  <2>1. /\ forking' = forking \cup {[parent |-> s, session |-> t]}
        /\ store' = [store EXCEPT ![t] = "there"]
        /\ filings' = filings /\ copies' = copies
    BY <1>9 DEF HermesBranches, references
  <2>2. store'[t] = "there"
    BY <2>1 DEF FilingTypes
  <2> QED BY <1>2, <1>3, <2>1, <2>2
<1>10. ASSUME NEW s \in Sessions, Copy(s) PROVE FiledWereThere'
  <2>1. /\ store[s] = "there" /\ filings' = filings /\ forking' = forking
        /\ \A c \in copies' : c \in copies \/ c.session = s
    BY <1>10 DEF Copy, requests
  <2> QED BY <1>2, <1>3, <2>1
<1>11. ASSUME filings' \subseteq filings, copies' = copies, forking' = forking
       PROVE  FiledWereThere'
  BY <1>2, <1>3, <1>11
<1>12. \A p, s : \/ CreateProject(p) \/ ListReads(p) \/ CreateAsks(s, p) \/ UnfileSession(s)
                 \/ HermesDeletes(s) \/ OpenRun(s) \/ HermesCreates(s) \/ Ingest(s)
                 \/ ListAsks(s, p) \/ ListAnswers \/ UNCHANGED filingVars
         => filings' \subseteq filings /\ copies' = copies /\ forking' = forking
  BY DEF CreateProject, ListReads, CreateAsks, UnfileSession, HermesDeletes, OpenRun,
         HermesCreates, Ingest, ListAsks, ListAnswers, filingVars, references, requests
<1> QED BY <1>4, <1>5, <1>6, <1>7, <1>8, <1>9, <1>10, <1>11, <1>12, StepsAre

(* What a listing names was there.                                         *)
LEMMA StepListed ==
  ASSUME FilingTypes, FiledWereThere, ListedWereThere, [FilingNext]_filingVars
  PROVE  ListedWereThere'
<1>1. StoreOnward
  BY StepStore
<1>2. ASSUME UNCHANGED listing PROVE ListedWereThere'
  <2> SUFFICES ASSUME listing # NoListing, NEW s \in listing.rows \cup listing.orphans
               PROVE  /\ store'[s] # "none"
                      /\ Home[s] \in listing.checked /\ s \notin listing.index => store'[s] = "deleted"
    BY <1>2 DEF ListedWereThere
  <2>1. s \in Sessions
    BY DEF FilingTypes
  <2> QED BY <1>1, <2>1 DEF ListedWereThere, StoreOnward
<1>3. ASSUME NEW p \in Projects, ListReads(p) PROVE ListedWereThere'
  <2>1. /\ listing'.rows = FiledIn(p) /\ listing'.checked = {} /\ store' = store
        /\ listing'.orphans \subseteq {c.session : c \in copies}
    BY <1>3 DEF ListReads
  <2>2. \A s \in FiledIn(p) \cup {c.session : c \in copies} : store[s] # "none"
    BY DEF FiledIn, FiledWereThere
  <2> QED BY <2>1, <2>2 DEF ListedWereThere
<1>4. ASSUME NEW f \in Profiles, NEW ok \in BOOLEAN, ListAsks(f, ok) PROVE ListedWereThere'
  <2>1. /\ listing # NoListing /\ store' = store
        /\ listing \in [project : Projects, rows : SUBSET Sessions, orphans : SUBSET Sessions,
             ask : SUBSET Profiles, index : SUBSET Sessions, checked : SUBSET Profiles]
    BY <1>4 DEF ListAsks, FilingTypes
  <2>2. /\ listing'.rows = listing.rows /\ listing'.orphans = listing.orphans
        /\ listing'.checked = IF ok THEN listing.checked \cup {f} ELSE listing.checked
        /\ listing'.index =
             IF ok THEN listing.index \cup {s \in Sessions : store[s] = "there" /\ Home[s] = f}
             ELSE listing.index
    BY <1>4, <2>1 DEF ListAsks
  <2>3. ASSUME NEW s \in listing.rows \cup listing.orphans
        PROVE  /\ store'[s] # "none"
               /\ Home[s] \in listing'.checked /\ s \notin listing'.index => store'[s] = "deleted"
    <3>1. s \in Sessions /\ store[s] \in {"there", "deleted"}
      BY <2>1 DEF FilingTypes, ListedWereThere
    <3>2. CASE ok /\ Home[s] = f
      BY <2>1, <2>2, <3>1, <3>2
    <3>3. CASE ~(ok /\ Home[s] = f)
      BY <2>1, <2>2, <3>1, <3>3 DEF ListedWereThere
    <3> QED BY <3>2, <3>3
  <2> QED BY <2>2, <2>3 DEF ListedWereThere
<1>5. CASE ListAnswers
  BY <1>5 DEF ListAnswers, ListedWereThere
<1>6. \A p : CreateProject(p) \/ DeleteProject(p) => ListedWereThere'
  BY <1>2 DEF CreateProject, DeleteProject
<1>7. \A s, p : \/ FileSession(s, p) \/ MoveFiledSession(s, p) \/ CreateAsks(s, p)
                \/ HermesBranches(s, p)
        => ListedWereThere'
  BY <1>2 DEF FileSession, MoveFiledSession, CreateAsks, HermesBranches
<1>8. \A s : \/ UnfileSession(s) \/ HermesDeletes(s) \/ OpenRun(s) \/ Copy(s) \/ HermesCreates(s)
             \/ CreateFiles(s) \/ ForkFiles(s) \/ Ingest(s)
        => ListedWereThere'
  BY <1>2 DEF UnfileSession, HermesDeletes, OpenRun, Copy, HermesCreates, CreateFiles, ForkFiles,
              Ingest
<1>9. CASE UNCHANGED filingVars
  BY <1>2, <1>9 DEF filingVars
<1> QED BY <1>3, <1>4, <1>5, <1>6, <1>7, <1>8, <1>9, StepsAre

-----------------------------------------------------------------------------
(* The theorems.                                                           *)

(* It holds in every reachable state.                                      *)
LEMMA InvHolds == FilingSpec => []FilingIInv
<1>1. FilingInit => FilingIInv
  BY InitTypes, InitDangles DEF FilingIInv, FilingInit, FiledWereThere, ListedWereThere
<1>2. FilingIInv /\ [FilingNext]_filingVars => FilingIInv'
  BY StepTypes, StepDangles, StepFiled, StepListed DEF FilingIInv
<1> QED BY <1>1, <1>2, PTL DEF FilingSpec

(* No row ever refers to a project or a filing that is gone, however       *)
(* sessions are filed, moved, forked and deleted (delete_project,          *)
(* unfile_session, _open_run_in, the ingestion's provenance).              *)
THEOREM ReferencesHold == FilingSpec => []NothingDangles
<1>1. FilingIInv => NothingDangles
  BY DEF FilingIInv
<1> QED BY <1>1, InvHolds, PTL

(* What a listing reports missing is gone from Hermes, whatever was filed, *)
(* moved, created or deleted while its profiles were asked one after the   *)
(* other (list_project_sessions).                                          *)
THEOREM MissingSessionsAreGone == FilingSpec => []MissingIsGone
<1>1. FilingIInv => MissingIsGone
  <2> SUFFICES ASSUME FilingIInv, AllAnswered PROVE MissingIsGone
    BY DEF MissingIsGone
  <2>1. listing # NoListing /\ FilingTypes /\ ListedWereThere
    BY DEF FilingIInv, AllAnswered
  <2>2. \A s \in Missing : store[s] = "deleted"
    BY <2>1 DEF Missing, ListedWereThere
  <2>3. ASSUME listing.checked = Profiles, NEW s \in Deleted PROVE store[s] = "deleted"
    <3>1. s \in listing.orphans /\ s \notin listing.index
      BY DEF Deleted
    <3>2. s \in Sessions
      BY <2>1, <3>1 DEF FilingTypes
    <3>3. Home[s] \in Profiles
      BY <3>2, HomeAssumption
    <3> QED BY <2>1, <2>3, <3>1, <3>3 DEF ListedWereThere
  <2> QED BY <2>2, <2>3 DEF MissingIsGone
<1> QED BY <1>1, InvHolds, PTL

-----------------------------------------------------------------------------
(* ArtifactListing: what parse_range_header answers, for a file of any     *)
(* size and any range.                                                     *)

(* A suffix, "bytes=-last": its last bytes, or all of a shorter file.      *)
LEMMA SuffixSpan ==
  ASSUME NEW size \in Nat, NEW last \in Nat
  PROVE  IF Named(size, -1, last) = {} THEN Span(size, -1, last) = Unsatisfiable
         ELSE \E a, b \in 0 .. size - 1 : /\ Span(size, -1, last) = <<"part", a, b>>
                                         /\ Named(size, -1, last) = a .. b
<1>1. CASE last = 0 \/ size = 0
  BY <1>1 DEF Named, Span
<1>2. CASE last # 0 /\ size # 0
  <2> DEFINE a == IF size < last THEN 0 ELSE size - last
  <2>1. a \in 0 .. size - 1 /\ size - 1 \in 0 .. size - 1
    BY <1>2
  <2>2. Named(size, -1, last) = a .. size - 1
    BY <1>2 DEF Named
  <2>3. Span(size, -1, last) = <<"part", a, size - 1>>
    BY <1>2 DEF Span
  <2>4. a \in a .. size - 1
    BY <2>1
  <2> QED BY <2>1, <2>2, <2>3, <2>4
<1> QED BY <1>1, <1>2

(* "bytes=first-" and "bytes=first-last": from first to last, or to the    *)
(* end of a shorter file.                                                  *)
LEMMA PrefixSpan ==
  ASSUME NEW size \in Nat, NEW first \in Nat, NEW last \in Nat \cup {-1}
  PROVE  IF Named(size, first, last) = {} THEN Span(size, first, last) = Unsatisfiable
         ELSE \E a, b \in 0 .. size - 1 : /\ Span(size, first, last) = <<"part", a, b>>
                                         /\ Named(size, first, last) = a .. b
<1>1. CASE first >= size \/ (last # -1 /\ last < first)
  BY <1>1 DEF Named, Span
<1>2. CASE ~(first >= size \/ (last # -1 /\ last < first))
  <2> DEFINE b == IF last = -1 THEN size - 1 ELSE Least(last, size - 1)
  <2>1. first \in 0 .. size - 1 /\ b \in 0 .. size - 1 /\ first <= b
    BY <1>2 DEF Least
  <2>2. Named(size, first, last) = first .. b
    <3>1. \A n \in 0 .. size - 1 : (last = -1 \/ n <= last) <=> n <= b
      BY <1>2 DEF Least
    <3>2. Named(size, first, last) = {n \in 0 .. size - 1 : n >= first /\ (last = -1 \/ n <= last)}
      BY DEF Named
    <3>3. Named(size, first, last) = {n \in 0 .. size - 1 : n >= first /\ n <= b}
      BY <3>1, <3>2
    <3> HIDE DEF b
    <3> QED BY <2>1, <3>3
  <2>3. Span(size, first, last) = <<"part", first, b>>
    BY <1>2 DEF Span
  <2>4. first \in first .. b
    BY <2>1
  <2> QED BY <2>1, <2>2, <2>3, <2>4
<1> QED BY <1>1, <1>2

(* A range that is served lies within the file and is what was asked for,  *)
(* as far as the file goes; one that names nothing in it is refused        *)
(* (parse_range_header).                                                   *)
THEOREM SpansAreAsked == SpanIsAsked
<1> SUFFICES ASSUME NEW size \in Nat, NEW first \in Nat \cup {-1}, NEW last \in Nat \cup {-1},
                    first # -1 \/ last # -1
             PROVE  IF Named(size, first, last) = {} THEN Span(size, first, last) = Unsatisfiable
                    ELSE \E a, b \in 0 .. size - 1 :
                           /\ Span(size, first, last) = <<"part", a, b>>
                           /\ Named(size, first, last) = a .. b
  BY DEF SpanIsAsked
<1>1. CASE first = -1
  BY <1>1, SuffixSpan
<1>2. CASE first # -1
  BY <1>2, PrefixSpan
<1> QED BY <1>1, <1>2

-----------------------------------------------------------------------------
(* ArtifactListing: what paging through a listing shows.                   *)

(* A row, and rows a listing can be made of: their order is total.         *)
IsRow(r) ==
  /\ r = [id |-> r.id, path |-> r.path, at |-> r.at, archived |-> r.archived, starred |-> r.starred]
  /\ r.id \in Nat /\ r.at \in Nat
Ordered(S) ==
  /\ IsFiniteSet(S) /\ \A r \in S : IsRow(r)
  /\ \A r, s \in S : r.id = s.id => r = s

(* A reader has seen, or has before it, each row that stayed; by save, what*)
(* it has seen lies behind it.                                             *)
Wanted(r, q) == q.kind = AnyKind \/ Kind[r.path] = q.kind
ReaderIsWell(q) ==
  /\ q = [latest |-> q.latest, starred |-> q.starred, kind |-> q.kind, cursor |-> q.cursor,
          shown |-> q.shown, again |-> q.again, done |-> q.done, stayed |-> q.stayed]
  /\ q.again \in BOOLEAN /\ q.done \in BOOLEAN
  /\ q.shown \subseteq Ids(library)
  /\ \A c \in q.cursor : c.id \in Nat /\ c.at \in Nat
  /\ \A i \in q.stayed :
       \/ i \in q.shown
       \/ ~q.done /\ \E r \in Rows(library, q) :
                        r.id = i /\ Wanted(r, q) /\ \A c \in q.cursor : Before(c, r)
  /\ q.latest \/ q.done \/ \A r \in library : r.id \in q.shown => \E c \in q.cursor : ~Before(c, r)
  /\ q.again => q.latest

ListingIInv ==
  /\ clock \in Nat /\ Ordered(library)
  /\ \A q \in reader : ReaderIsWell(q)

(* The order of the listing.                                               *)
LEMMA RowsAreOrdered ==
  ASSUME NEW S, Ordered(S)
  PROVE  /\ \A r \in S : ~Before(r, r)
         /\ \A r, s \in S : Before(r, s) => ~Before(s, r)
         /\ \A r, s \in S : r = s \/ Before(r, s) \/ Before(s, r)
         /\ \A r, s, t \in S : Before(r, s) /\ Before(s, t) => Before(r, t)
  BY DEF Ordered, IsRow, Before

(* Some of the rows are in that order too.                                 *)
LEMMA ScopeIsOrdered ==
  ASSUME NEW S, Ordered(S), NEW T \in SUBSET S
  PROVE  Ordered(T)
  BY FS_Subset DEF Ordered

(* Of finitely many rows one is the first and one the last.                *)
LEMMA LeastOf ==
  ASSUME NEW S, S # {}, NEW f \in [S -> Nat]
  PROVE  \E r \in S : \A s \in S : f[r] <= f[s]
<1> DEFINE counts == {f[r] : r \in S}
<1>1. PICK n \in counts : \A m \in counts : ~(<<m, n>> \in OpToRel(<, Nat))
  <2>1. counts # {} /\ counts \subseteq Nat
    OBVIOUS
  <2> HIDE DEF counts
  <2> QED BY <2>1, NatLessThanWellFounded, WFMin
<1>2. ASSUME NEW m \in counts PROVE n <= m
  <2>1. ~(<<m, n>> \in OpToRel(<, Nat)) /\ m \in Nat /\ n \in Nat
    BY <1>1
  <2> QED BY <2>1 DEF OpToRel
<1> QED BY <1>2

(* A row that comes before another has fewer before it ...                 *)
LEMMA FewerBefore ==
  ASSUME NEW S, Ordered(S), NEW r \in S, NEW s \in S, Before(r, s)
  PROVE  Cardinality({t \in S : Before(t, r)}) < Cardinality({t \in S : Before(t, s)})
<1> DEFINE P == {t \in S : Before(t, r)}  Q == {t \in S : Before(t, s)}
<1>1. P \subseteq Q /\ r \in Q /\ r \notin P
  BY RowsAreOrdered
<1>2. IsFiniteSet(Q) /\ IsFiniteSet(P)
  BY FS_Subset DEF Ordered
<1> HIDE DEF P, Q
<1>3. Cardinality(P) <= Cardinality(Q) /\ Cardinality(P) # Cardinality(Q)
  BY <1>1, <1>2, FS_Subset
<1>4. Cardinality(P) \in Nat /\ Cardinality(Q) \in Nat
  BY <1>2, FS_CardinalityType
<1>5. Cardinality(P) < Cardinality(Q)
  BY <1>3, <1>4
<1> QED BY <1>5 DEF P, Q

(* ... and the other has fewer behind it.                                  *)
LEMMA FewerBehind ==
  ASSUME NEW S, Ordered(S), NEW r \in S, NEW s \in S, Before(r, s)
  PROVE  Cardinality({t \in S : Before(s, t)}) < Cardinality({t \in S : Before(r, t)})
<1> DEFINE P == {t \in S : Before(s, t)}  Q == {t \in S : Before(r, t)}
<1>1. P \subseteq Q /\ s \in Q /\ s \notin P
  BY RowsAreOrdered
<1>2. IsFiniteSet(Q) /\ IsFiniteSet(P)
  BY FS_Subset DEF Ordered
<1> HIDE DEF P, Q
<1>3. Cardinality(P) <= Cardinality(Q) /\ Cardinality(P) # Cardinality(Q)
  BY <1>1, <1>2, FS_Subset
<1>4. Cardinality(P) \in Nat /\ Cardinality(Q) \in Nat
  BY <1>2, FS_CardinalityType
<1>5. Cardinality(P) < Cardinality(Q)
  BY <1>3, <1>4
<1> QED BY <1>5 DEF P, Q

(* These counts are numbers.                                               *)
LEMMA CountsAreNat ==
  ASSUME NEW S, Ordered(S), NEW r
  PROVE  /\ Cardinality({t \in S : Before(t, r)}) \in Nat
         /\ Cardinality({t \in S : Before(r, t)}) \in Nat
<1> DEFINE P == {t \in S : Before(t, r)}  Q == {t \in S : Before(r, t)}
<1>1. IsFiniteSet(Q) /\ IsFiniteSet(P)
  BY FS_Subset DEF Ordered
<1> HIDE DEF P, Q
<1>2. Cardinality(P) \in Nat /\ Cardinality(Q) \in Nat
  BY <1>1, FS_CardinalityType
<1> QED BY <1>2 DEF P, Q

(* The first row, the one with the fewest before it.                       *)
LEMMA OneIsFirst ==
  ASSUME NEW S, Ordered(S), S # {}
  PROVE  \E r \in S : \A s \in S : s = r \/ Before(r, s)
<1> DEFINE f == [r \in S |-> Cardinality({t \in S : Before(t, r)})]
<1>1. f \in [S -> Nat]
  BY CountsAreNat
<1>2. \A r, s \in S : Before(r, s) => f[r] < f[s]
  BY FewerBefore
<1> HIDE DEF f
<1>3. PICK r \in S : \A s \in S : f[r] <= f[s]
  BY <1>1, LeastOf
<1>4. \A s \in S : ~Before(s, r)
  BY <1>1, <1>2, <1>3
<1> QED BY <1>4, RowsAreOrdered

(* The last, the one with the fewest behind it.                            *)
LEMMA OneIsLast ==
  ASSUME NEW S, Ordered(S), S # {}
  PROVE  \E r \in S : Oldest(S) = {r} /\ \A s \in S : s = r \/ Before(s, r)
<1> DEFINE f == [r \in S |-> Cardinality({t \in S : Before(r, t)})]
<1>1. f \in [S -> Nat]
  BY CountsAreNat
<1>2. \A r, s \in S : Before(r, s) => f[s] < f[r]
  BY FewerBehind
<1> HIDE DEF f
<1>3. PICK r \in S : \A s \in S : f[r] <= f[s]
  BY <1>1, LeastOf
<1>4. \A s \in S : ~Before(r, s)
  BY <1>1, <1>2, <1>3
<1>5. \A s \in S : s = r \/ Before(s, r)
  BY <1>4, RowsAreOrdered
<1>6. Oldest(S) = {r}
  BY <1>4, <1>5 DEF Oldest
<1> QED BY <1>5, <1>6

(* A page is the first rows of what is left, and all of it when it fits.   *)
LEMMA PageIsFirst ==
  ASSUME NEW left, Ordered(left), NEW page,
         page = {r \in left : Cardinality({s \in left : Before(s, r)}) < PageLimit}
  PROVE  /\ page \subseteq left
         /\ \A c \in page, r \in left : r \in page \/ Before(c, r)
         /\ ~(Cardinality(left) > PageLimit) => page = left
         /\ left # {} => page # {}
<1> USE ListingAssumptions
<1>1. page \subseteq left
  OBVIOUS
<1>2. ASSUME NEW c \in page, NEW r \in left, r \notin page, ~Before(c, r) PROVE FALSE
  <2>1. Before(r, c)
    BY <1>2, RowsAreOrdered
  <2>2. Cardinality({s \in left : Before(s, r)}) < Cardinality({s \in left : Before(s, c)})
    BY <2>1, FewerBefore
  <2>3. /\ Cardinality({s \in left : Before(s, c)}) < PageLimit
        /\ ~(Cardinality({s \in left : Before(s, r)}) < PageLimit)
    BY <1>2
  <2>4. PICK m, n \in Nat : /\ m = Cardinality({s \in left : Before(s, r)})
                            /\ n = Cardinality({s \in left : Before(s, c)})
    BY CountsAreNat
  <2>5. m < n /\ n < PageLimit /\ ~(m < PageLimit)
    BY <2>2, <2>3, <2>4
  <2> QED BY <2>5
<1>3. ASSUME ~(Cardinality(left) > PageLimit), NEW r \in left PROVE r \in page
  <2> DEFINE P == {s \in left : Before(s, r)}
  <2>1. P \subseteq left /\ r \notin P /\ IsFiniteSet(left)
    BY RowsAreOrdered DEF Ordered
  <2> HIDE DEF P
  <2>2. Cardinality(P) <= Cardinality(left) /\ Cardinality(P) # Cardinality(left)
    BY <2>1, FS_Subset
  <2>3. Cardinality(P) \in Nat /\ Cardinality(left) \in Nat
    BY <2>1, FS_Subset, FS_CardinalityType
  <2>4. Cardinality(P) < PageLimit
    BY <1>3, <2>2, <2>3
  <2> QED BY <2>4 DEF P
<1>4. ASSUME left # {} PROVE page # {}
  <2>1. PICK r \in left : \A s \in left : s = r \/ Before(r, s)
    BY <1>4, OneIsFirst
  <2>2. {s \in left : Before(s, r)} = {}
    BY <2>1, RowsAreOrdered
  <2>3. r \in page
    BY <2>2, FS_EmptySet
  <2> QED BY <2>3
<1> QED BY <1>1, <1>2, <1>3, <1>4

(* A listing shows rows of the library.                                    *)
LEMMA RowsAreRows ==
  ASSUME NEW table, NEW q
  PROVE  Rows(table, q) \subseteq table
  BY DEF Rows, Collapsed, Visible

(* What a page leaves is behind its last row.                              *)
LEMMA TurnedIsWell ==
  ASSUME Ordered(library), NEW q, ReaderIsWell(q), ~q.done, NEW p, p = Turned(q)
  PROVE  ReaderIsWell(p)
<1>1. PICK all : all = Rows(library, q)
  OBVIOUS
<1>2. PICK left : left = Left(library, q)
  OBVIOUS
<1>3. PICK page : page = {r \in left : Cardinality({s \in left : Before(s, r)}) < PageLimit}
  OBVIOUS
<1>4. all \subseteq library
  BY <1>1, RowsAreRows
<1>5. PICK cursor : cursor = q.cursor /\ \A c \in cursor : c.id \in Nat /\ c.at \in Nat
  BY DEF ReaderIsWell
<1>6. \A r \in library, c \in cursor : AfterCursor(r, c) <=> Before(c, r)
  BY <1>5 DEF Ordered, IsRow, AfterCursor, Before
<1>7. /\ left \subseteq all
      /\ \A r \in all : (\A c \in cursor : Before(c, r)) => r \in left
      /\ ~q.latest => \A r \in left, c \in cursor : Before(c, r)
  <2>1. /\ q.cursor = {} => left = all
        /\ q.cursor # {} /\ ~q.latest => left = {r \in all : \A c \in q.cursor : AfterCursor(r, c)}
        /\ q.cursor # {} /\ q.latest => left = all \/ left = {r \in all : \A c \in q.cursor : Before(c, r)}
    BY <1>1, <1>2 DEF Left
  <2> QED BY <1>4, <1>5, <1>6, <2>1
<1>8. Ordered(left) /\ left \subseteq library
  BY <1>4, <1>7, ScopeIsOrdered
<1>9. /\ page \subseteq left
      /\ \A c \in page, r \in left : r \in page \/ Before(c, r)
      /\ ~(Cardinality(left) > PageLimit) => page = left
      /\ left # {} => page # {}
  BY <1>3, <1>8, PageIsFirst
<1>10. PICK new : new = Ids(OfKind(page, q.kind))
  OBVIOUS
<1>11. PICK more \in BOOLEAN : more = (Cardinality(left) > PageLimit)
  <2>1. Cardinality(left) \in Nat /\ PageLimit \in Nat
    BY <1>8, FS_CardinalityType, ListingAssumptions DEF Ordered
  <2>2. (Cardinality(left) > PageLimit) \in BOOLEAN
    BY <2>1
  <2> QED BY <2>2
<1>12. PICK next : next = IF more THEN Oldest(page) ELSE {}
  OBVIOUS
<1>13. p = [q EXCEPT !.shown = @ \cup new, !.again = @ \/ new \cap q.shown # {},
                     !.cursor = next, !.done = ~more]
  BY <1>2, <1>3, <1>10, <1>11, <1>12 DEF Turned, Page
<1>14. /\ q = [latest |-> q.latest, starred |-> q.starred, kind |-> q.kind, cursor |-> q.cursor,
               shown |-> q.shown, again |-> q.again, done |-> q.done, stayed |-> q.stayed]
       /\ q.again \in BOOLEAN /\ q.shown \subseteq Ids(library)
  BY DEF ReaderIsWell
<1>15. p = [latest |-> q.latest, starred |-> q.starred, kind |-> q.kind, cursor |-> next,
            shown |-> q.shown \cup new, again |-> (q.again \/ new \cap q.shown # {}),
            done |-> ~more, stayed |-> q.stayed]
  BY <1>13, <1>14
<1>16. /\ p.latest = q.latest /\ p.starred = q.starred /\ p.kind = q.kind /\ p.cursor = next
       /\ p.shown = q.shown \cup new /\ p.again = (q.again \/ new \cap q.shown # {})
       /\ p.done = ~more /\ p.stayed = q.stayed
       /\ p = [latest |-> p.latest, starred |-> p.starred, kind |-> p.kind, cursor |-> p.cursor,
               shown |-> p.shown, again |-> p.again, done |-> p.done, stayed |-> p.stayed]
  BY <1>15
<1>17. Rows(library, p) = all /\ \A r : Wanted(r, p) = Wanted(r, q)
  BY <1>1, <1>16 DEF Rows, Wanted
<1>18. \A r \in page : Wanted(r, q) => r.id \in new
  BY <1>10 DEF Ids, OfKind, Wanted
<1>19. new \subseteq Ids(library) /\ \A i \in new : \E r \in page : r.id = i
  BY <1>8, <1>9, <1>10 DEF Ids, OfKind
<1>20. more => \E c \in page : next = {c} /\ \A s \in page : s = c \/ Before(s, c)
  <2> SUFFICES ASSUME more PROVE \E c \in page : next = {c} /\ \A s \in page : s = c \/ Before(s, c)
    OBVIOUS
  <2>1. left # {}
    <3>1. Cardinality(left) > PageLimit
      BY <1>11
    <3>2. left = {} => Cardinality(left) = 0
      BY FS_EmptySet
    <3> QED BY <3>1, <3>2, ListingAssumptions
  <2>2. Ordered(page) /\ page # {}
    BY <1>8, <1>9, <2>1, ScopeIsOrdered
  <2> QED BY <1>12, <2>2, OneIsLast
<1>21. \A c \in next : c \in page /\ c.id \in Nat /\ c.at \in Nat
  <2>1. next \subseteq page
    BY <1>12, <1>20
  <2> QED BY <1>8, <1>9, <2>1 DEF Ordered, IsRow
<1>22. ASSUME NEW i \in q.stayed, i \notin p.shown
       PROVE  more /\ \E r \in all : r.id = i /\ Wanted(r, q) /\ \A c \in next : Before(c, r)
  <2>1. PICK r \in all : r.id = i /\ Wanted(r, q) /\ \A c \in cursor : Before(c, r)
    BY <1>1, <1>5, <1>16, <1>22 DEF ReaderIsWell
  <2>2. r \in left /\ r \notin page
    BY <1>7, <1>16, <1>18, <1>22, <2>1
  <2>3. more
    BY <1>9, <1>11, <2>2
  <2> QED BY <1>9, <1>21, <2>1, <2>2, <2>3
<1>23. ASSUME ~q.latest PROVE new \cap q.shown = {}
  <2>1. ASSUME NEW r \in page, r.id \in q.shown PROVE FALSE
    <3>1. r \in library /\ r \in left
      BY <1>8, <1>9
    <3>2. PICK c \in cursor : ~Before(c, r)
      BY <1>5, <1>23, <2>1, <3>1 DEF ReaderIsWell
    <3> QED BY <1>7, <1>23, <3>1, <3>2
  <2> QED BY <1>19, <2>1
<1>24. ASSUME ~q.latest, more, NEW r \in library, r.id \in p.shown
       PROVE  \E c \in next : ~Before(c, r)
  <2>1. PICK c \in page : next = {c} /\ \A s \in page : s = c \/ Before(s, c)
    BY <1>20, <1>24
  <2>2. c \in library
    BY <1>8, <1>9
  <2>3. CASE r.id \in q.shown
    <3>1. PICK d \in cursor : ~Before(d, r)
      BY <1>5, <1>24, <2>3 DEF ReaderIsWell
    <3>2. Before(d, c)
      BY <1>7, <1>9, <1>24
    <3>3. ~Before(c, r)
      BY <1>5, <2>2, <3>1, <3>2 DEF Ordered, IsRow, Before
    <3> QED BY <2>1, <3>3
  <2>4. CASE r.id \in new
    <3>1. PICK s \in page : s.id = r.id
      BY <1>19, <2>4
    <3>2. s = r
      BY <1>8, <1>9, <3>1 DEF Ordered
    <3>3. r = c \/ Before(r, c)
      BY <2>1, <3>2
    <3>4. ~Before(c, r)
      BY <2>2, <3>3, RowsAreOrdered
    <3> QED BY <2>1, <3>4
  <2> QED BY <1>16, <1>24, <2>3, <2>4
<1>25. p.again \in BOOLEAN /\ p.done \in BOOLEAN /\ p.shown \subseteq Ids(library)
  BY <1>14, <1>16, <1>19
<1>26. p.again => p.latest
  BY <1>16, <1>23 DEF ReaderIsWell
<1>27. \A i \in p.stayed :
         \/ i \in p.shown
         \/ ~p.done /\ \E r \in Rows(library, p) :
                          r.id = i /\ Wanted(r, p) /\ \A c \in p.cursor : Before(c, r)
  BY <1>16, <1>17, <1>22
<1>28. p.latest \/ p.done \/ \A r \in library : r.id \in p.shown => \E c \in p.cursor : ~Before(c, r)
  BY <1>16, <1>24
<1> QED BY <1>16, <1>21, <1>25, <1>26, <1>27, <1>28 DEF ReaderIsWell

(* What a reader is promised follows from where it is.                     *)
LEMMA ReaderStays ==
  ASSUME library' = library, NEW q, ReaderIsWell(q)
  PROVE  ReaderIsWell(q)'
  BY DEF ReaderIsWell

(* A change of the library that moves no row.                              *)
LEMMA BecomesKeeps ==
  ASSUME ListingIInv, NEW table, Ordered(table), Ids(library) \subseteq Ids(table), Becomes(table),
         \A r \in table, s \in library : r.id = s.id => r.at = s.at /\ r.path = s.path
  PROVE  ListingIInv'
<1>1. library' = table /\ clock' = clock
      /\ reader' = {[q EXCEPT !.stayed = @ \cap Ids(Rows(table, q))] : q \in reader}
  BY DEF Becomes
<1>2. ASSUME NEW q \in reader, NEW p, p = [q EXCEPT !.stayed = @ \cap Ids(Rows(table, q))]
      PROVE  ReaderIsWell(p)'
  <2>1. /\ q = [latest |-> q.latest, starred |-> q.starred, kind |-> q.kind, cursor |-> q.cursor,
                shown |-> q.shown, again |-> q.again, done |-> q.done, stayed |-> q.stayed]
        /\ q.again \in BOOLEAN /\ q.done \in BOOLEAN
        /\ q.shown \subseteq Ids(library)
        /\ \A c \in q.cursor : c.id \in Nat /\ c.at \in Nat
        /\ q.again => q.latest
    BY DEF ListingIInv, ReaderIsWell
  <2>2. PICK stayed : stayed = q.stayed \cap Ids(Rows(table, q))
    OBVIOUS
  <2>3. p = [latest |-> q.latest, starred |-> q.starred, kind |-> q.kind, cursor |-> q.cursor,
             shown |-> q.shown, again |-> q.again, done |-> q.done, stayed |-> stayed]
    BY <1>2, <2>1, <2>2
  <2>4. /\ p.latest = q.latest /\ p.starred = q.starred /\ p.kind = q.kind /\ p.cursor = q.cursor
        /\ p.shown = q.shown /\ p.again = q.again /\ p.done = q.done /\ p.stayed = stayed
        /\ p = [latest |-> p.latest, starred |-> p.starred, kind |-> p.kind, cursor |-> p.cursor,
                shown |-> p.shown, again |-> p.again, done |-> p.done, stayed |-> p.stayed]
    BY <2>3
  <2>5. Rows(table, p) = Rows(table, q) /\ \A r : Wanted(r, p) = Wanted(r, q)
    BY <2>4 DEF Rows, Wanted
  <2>6. ASSUME NEW i \in stayed, i \notin q.shown
        PROVE  ~q.done /\ \E r \in Rows(table, q) : r.id = i /\ Wanted(r, q) /\ \A c \in q.cursor : Before(c, r)
    <3>1. PICK r \in Rows(table, q) : r.id = i
      BY <2>2, <2>6 DEF Ids
    <3>2. PICK s \in Rows(library, q) :
            ~q.done /\ s.id = i /\ Wanted(s, q) /\ \A c \in q.cursor : Before(c, s)
      BY <2>2, <2>6 DEF ListingIInv, ReaderIsWell
    <3>3. r \in table /\ s \in library
      BY RowsAreRows
    <3>4. r.at = s.at /\ r.path = s.path /\ r.id = s.id
      BY <3>1, <3>2, <3>3
    <3> QED BY <3>1, <3>2, <3>4 DEF Wanted, Before
  <2>7. ASSUME ~q.latest, ~q.done, NEW r \in table, r.id \in q.shown
        PROVE  \E c \in q.cursor : ~Before(c, r)
    <3>1. PICK s \in library : s.id = r.id
      BY <2>1, <2>7 DEF Ids
    <3>2. PICK c \in q.cursor : ~Before(c, s)
      BY <2>7, <3>1 DEF ListingIInv, ReaderIsWell
    <3>3. r.at = s.at
      BY <3>1
    <3> QED BY <3>1, <3>2, <3>3 DEF Before
  <2>8. \A i \in p.stayed :
          \/ i \in p.shown
          \/ ~p.done /\ \E r \in Rows(table, p) :
                           r.id = i /\ Wanted(r, p) /\ \A c \in p.cursor : Before(c, r)
    BY <2>4, <2>5, <2>6
  <2>9. p.latest \/ p.done \/ \A r \in table : r.id \in p.shown => \E c \in p.cursor : ~Before(c, r)
    BY <2>4, <2>7
  <2>10. p.shown \subseteq Ids(table)
    BY <2>1, <2>4
  <2> QED BY <1>1, <2>1, <2>4, <2>8, <2>9, <2>10 DEF ReaderIsWell
<1> QED BY <1>1, <1>2 DEF ListingIInv

(* It holds at the start.                                                  *)
LEMMA ListingStarts == ListingInit => ListingIInv
  BY FS_EmptySet DEF ListingInit, ListingIInv, Ordered, NoReader

(* A reader opens a listing ...                                            *)
LEMMA FirstPageKeeps ==
  ASSUME ListingIInv, NEW f \in Filters, FirstPage(f)
  PROVE  ListingIInv'
<1>1. PICK q : q = [latest |-> f.latest, starred |-> f.starred, kind |-> f.kind,
                    cursor |-> {}, shown |-> {}, again |-> FALSE, done |-> FALSE,
                    stayed |-> Ids(OfKind(Rows(library, f), f.kind))]
  OBVIOUS
<1>2. PICK p : p = Turned(q)
  OBVIOUS
<1>3. reader' = {p} /\ library' = library /\ clock' = clock
  BY <1>1, <1>2 DEF FirstPage
<1>4. Rows(library, q) = Rows(library, f)
  BY <1>1 DEF Rows
<1>5. \A i \in q.stayed : \E r \in Rows(library, q) : r.id = i /\ Wanted(r, q)
  BY <1>1, <1>4 DEF Ids, OfKind, Wanted
<1>6. ReaderIsWell(q)
  BY <1>1, <1>5 DEF ReaderIsWell
<1>7. ReaderIsWell(p)
  BY <1>1, <1>2, <1>6, TurnedIsWell DEF ListingIInv
<1>8. ReaderIsWell(p)'
  BY <1>3, <1>7, ReaderStays
<1> QED BY <1>3, <1>8 DEF ListingIInv

(* ... and turns its pages.                                                *)
LEMMA NextPageKeeps ==
  ASSUME ListingIInv, NextPage
  PROVE  ListingIInv'
<1>1. PICK q \in reader : ~q.done /\ reader' = {Turned(q)}
  BY DEF NextPage
<1>2. PICK p : p = Turned(q)
  OBVIOUS
<1>3. library' = library /\ clock' = clock
  BY DEF NextPage
<1>4. ReaderIsWell(p)
  BY <1>1, <1>2, TurnedIsWell DEF ListingIInv
<1>5. ReaderIsWell(p)'
  BY <1>3, <1>4, ReaderStays
<1> QED BY <1>1, <1>2, <1>3, <1>5 DEF ListingIInv

(* Nothing moves when a reader leaves or time passes.                      *)
LEMMA QuietListing ==
  ASSUME ListingIInv, library' = library, clock' \in Nat, reader' \subseteq reader
  PROVE  ListingIInv'
  BY ReaderStays DEF ListingIInv

(* A new row has an id of its own, so no reader waits for it or has seen   *)
(* it.                                                                     *)
LEMMA SavedKeeps ==
  ASSUME ListingIInv, NEW p \in FilePaths, NEW i \in RowIds, Saved(p, i)
  PROVE  ListingIInv'
<1>1. PICK new : new = [id |-> i, path |-> p, at |-> clock, archived |-> FALSE, starred |-> FALSE]
  OBVIOUS
<1>2. PICK table : table = library \cup {new}
  OBVIOUS
<1>3. i \notin Ids(library) /\ Becomes(table)
  BY <1>1, <1>2 DEF Saved
<1>4. IsRow(new) /\ new.id = i
  BY <1>1, ListingAssumptions DEF IsRow, ListingIInv
<1>5. IsFiniteSet(table)
  BY <1>2, FS_AddElement DEF ListingIInv, Ordered
<1>6. \A r \in library : r.id # new.id
  BY <1>3, <1>4 DEF Ids
<1>7. Ordered(table)
  BY <1>2, <1>4, <1>5, <1>6 DEF ListingIInv, Ordered
<1>8. Ids(library) \subseteq Ids(table)
  BY <1>2 DEF Ids
<1>9. \A r \in table, s \in library : r.id = s.id => r.at = s.at /\ r.path = s.path
  BY <1>2, <1>6 DEF ListingIInv, Ordered
<1> QED BY <1>3, <1>7, <1>8, <1>9, BecomesKeeps

(* Rows that are marked stay where they are.                               *)
LEMMA MarkedKeeps ==
  ASSUME ListingIInv, NEW mark, NEW table, Becomes(table),
         table = {mark[r] : r \in library}, mark = [r \in library |-> mark[r]],
         \A r \in library : IsRow(mark[r]) /\ mark[r].id = r.id /\ mark[r].at = r.at /\ mark[r].path = r.path
  PROVE  ListingIInv'
<1>1. mark \in Surjection(library, table)
  BY DEF Surjection
<1>2. IsFiniteSet(library) /\ \A r, s \in library : r.id = s.id => r = s
  BY DEF ListingIInv, Ordered
<1>3. IsFiniteSet(table)
  BY <1>1, <1>2, FS_Surjection
<1>4. Ordered(table)
  BY <1>2, <1>3 DEF Ordered
<1>5. Ids(library) \subseteq Ids(table)
  BY DEF Ids
<1>6. \A r \in table, s \in library : r.id = s.id => r.at = s.at /\ r.path = s.path
  BY <1>2
<1> QED BY <1>4, <1>5, <1>6, BecomesKeeps

(* Archiving marks rows, and so does unarchiving ...                       *)
LEMMA ArchivedKeeps ==
  ASSUME ListingIInv, NEW S \in SUBSET library, NEW way, NEW table, Becomes(table),
         table = (library \ S) \cup Archived(S, way)
  PROVE  ListingIInv'
<1>1. \A r \in library : IsRow(r)
  BY DEF ListingIInv, Ordered
<1>2. PICK mark : mark = [r \in library |-> IF r \in S THEN [r EXCEPT !.archived = way] ELSE r]
  OBVIOUS
<1>3. ASSUME NEW r \in library
      PROVE  IsRow(mark[r]) /\ mark[r].id = r.id /\ mark[r].at = r.at /\ mark[r].path = r.path
  BY <1>1, <1>2 DEF IsRow
<1>4. table = {mark[r] : r \in library}
  BY <1>2 DEF Archived
<1>5. mark = [r \in library |-> mark[r]]
  BY <1>2
<1> QED BY <1>3, <1>4, <1>5, MarkedKeeps

(* ... and a bookmark.                                                     *)
LEMMA BookmarkKeeps ==
  ASSUME ListingIInv, NEW s \in library, Bookmark(s)
  PROVE  ListingIInv'
<1>1. \A r \in library : IsRow(r)
  BY DEF ListingIInv, Ordered
<1>2. PICK t : t = [s EXCEPT !.starred = ~@]
  OBVIOUS
<1>3. IsRow(t) /\ t.id = s.id /\ t.at = s.at /\ t.path = s.path
  BY <1>1, <1>2 DEF IsRow
<1>4. PICK mark : mark = [r \in library |-> IF r = s THEN t ELSE r]
  OBVIOUS
<1>5. PICK table : table = (library \ {s}) \cup {t}
  OBVIOUS
<1>6. Becomes(table)
  BY <1>2, <1>5 DEF Bookmark
<1>7. table = {mark[r] : r \in library} /\ mark = [r \in library |-> mark[r]]
  BY <1>4, <1>5
<1>8. \A r \in library : IsRow(mark[r]) /\ mark[r].id = r.id /\ mark[r].at = r.at /\ mark[r].path = r.path
  BY <1>1, <1>3, <1>4
<1> QED BY <1>6, <1>7, <1>8, MarkedKeeps

(* Every step keeps it.                                                    *)
LEMMA ListingStep ==
  ASSUME ListingIInv, [ListingNext]_listingVars
  PROVE  ListingIInv'
<1>1. CASE UNCHANGED listingVars
  BY <1>1, QuietListing DEF listingVars, ListingIInv
<1>2. CASE \E f \in Filters : FirstPage(f)
  BY <1>2, FirstPageKeeps
<1>3. CASE NextPage
  BY <1>3, NextPageKeeps
<1>4. CASE ReaderLeaves \/ Tick
  BY <1>4, QuietListing DEF ReaderLeaves, Tick, NoReader, ListingIInv
<1>5. CASE \E p \in FilePaths, i \in RowIds : Saved(p, i)
  BY <1>5, SavedKeeps
<1>6. ASSUME NEW S \in SUBSET library, Archive(S) \/ Unarchive(S) PROVE ListingIInv'
  <2>1. PICK way \in BOOLEAN : Becomes((library \ S) \cup Archived(S, way))
    BY <1>6 DEF Archive, Unarchive
  <2> QED BY <2>1, ArchivedKeeps
<1>7. CASE ArchiveIgnored
  <2>1. {r \in library : ~r.archived /\ r.path \in Ignored} \in SUBSET library
    OBVIOUS
  <2> QED BY <1>6, <1>7, <2>1 DEF ArchiveIgnored
<1>8. CASE \/ \E S \in SUBSET {r \in library : ~r.archived} : Archive(S)
           \/ \E S \in SUBSET {r \in library : r.archived} : Unarchive(S)
  BY <1>6, <1>8
<1>9. CASE \E r \in library : Bookmark(r)
  BY <1>9, BookmarkKeeps
<1> QED BY <1>1, <1>2, <1>3, <1>4, <1>5, <1>7, <1>8, <1>9 DEF ListingNext

(* Whoever pages to the end of a listing has seen each row that was in it  *)
(* all the time, and by save none twice: for pages of any size, a library  *)
(* of any size, and whatever is saved, archived or starred meanwhile.      *)
THEOREM PagingMissesNothing == ListingSpec => []PagesAreComplete
<1>1. ListingInit => ListingIInv
  BY ListingStarts
<1>2. ListingIInv /\ [ListingNext]_listingVars => ListingIInv'
  BY ListingStep
<1>3. ListingIInv => PagesAreComplete
  BY DEF ListingIInv, ReaderIsWell, PagesAreComplete
<1> QED BY <1>1, <1>2, <1>3, PTL DEF ListingSpec

-----------------------------------------------------------------------------
(* ArtifactListing: the folders of a directory. A path is a trail of       *)
(* segments, and a directory the beginning of one.                         *)

Segments == UNION {{p[i] : i \in DOMAIN p} : p \in FilePaths}
Trails == Seq(Segments)

(* How far two sequences agree.                                            *)
Agree(s, t, n) == \A i \in 1..n : s[i] = t[i]

(* Every path is one, and not empty.                                       *)
LEMMA PathsAreTrails == \A p \in FilePaths : p \in Trails /\ Len(p) \in Nat /\ Len(p) > 0
<1> SUFFICES ASSUME NEW p \in FilePaths PROVE p \in Trails /\ Len(p) \in Nat /\ Len(p) > 0
  OBVIOUS
<1>1. p # <<>> /\ p \in Seq({p[i] : i \in DOMAIN p})
  BY PathsAssumption
<1>2. {p[i] : i \in DOMAIN p} \subseteq Segments
  BY DEF Segments
<1>3. Len(p) \in Nat /\ DOMAIN p = 1..Len(p) /\ Len(p) # 0
  BY <1>1
<1>4. p \in Trails
  BY <1>1, <1>2, <1>3 DEF Trails
<1> QED BY <1>3, <1>4

(* The beginning of a sequence agrees with it.                             *)
LEMMA BeginningIs ==
  ASSUME NEW s \in Trails, NEW n \in 0..Len(s)
  PROVE  SubSeq(s, 1, n) \in Trails /\ Len(SubSeq(s, 1, n)) = n /\ Agree(SubSeq(s, 1, n), s, n)
<1>1. n \in Int /\ \A i \in 1..n : s[i] \in Segments
  BY DEF Trails
<1> QED BY <1>1, SubSeqProperties DEF Trails, Agree

(* Sequences that agree all the way are one.                               *)
LEMMA AgreeIsEqual ==
  ASSUME NEW s \in Trails, NEW t \in Trails, Len(s) = Len(t), Agree(s, t, Len(s))
  PROVE  s = t
  BY SeqEqual DEF Trails, Agree

(* A prefix is no longer and agrees.                                       *)
LEMMA PrefixIs ==
  ASSUME NEW s \in Trails, NEW t \in Trails
  PROVE  IsPrefix(s, t) <=> Len(s) <= Len(t) /\ Agree(s, t, Len(s))
<1>1. Len(s) \in Nat /\ Len(t) \in Nat
  BY DEF Trails
<1>2. SUFFICES ASSUME Len(s) <= Len(t)
               PROVE  SubSeq(s, 1, Len(s)) = SubSeq(t, 1, Len(s)) <=> Agree(s, t, Len(s))
  BY DEF IsPrefix
<1>3. PICK a : a = SubSeq(s, 1, Len(s))
  OBVIOUS
<1>4. PICK b : b = SubSeq(t, 1, Len(s))
  OBVIOUS
<1>5. a \in Trails /\ Len(a) = Len(s) /\ Agree(a, s, Len(s))
  BY <1>1, <1>3, BeginningIs
<1>6. b \in Trails /\ Len(b) = Len(s) /\ Agree(b, t, Len(s))
  BY <1>1, <1>2, <1>4, BeginningIs
<1>7. a = b <=> Agree(a, b, Len(s))
  BY <1>5, <1>6, AgreeIsEqual DEF Agree
<1> QED BY <1>3, <1>4, <1>5, <1>6, <1>7 DEF Agree

(* A file is within a directory it is longer than and agrees with.         *)
LEMMA WithinIs ==
  ASSUME NEW p \in FilePaths, NEW d \in Trails
  PROVE  /\ Within(p, d) <=> Len(d) < Len(p) /\ Agree(d, p, Len(d))
         /\ Dir(p) = d <=> Len(d) + 1 = Len(p) /\ Agree(d, p, Len(d))
<1>1. p \in Trails /\ Len(p) \in Nat /\ Len(p) > 0 /\ Len(d) \in Nat
  BY PathsAreTrails DEF Trails
<1>2. Len(p) - 1 \in 0..Len(p)
  BY <1>1
<1>3. PICK e : e = Dir(p)
  OBVIOUS
<1>4. e \in Trails /\ Len(e) = Len(p) - 1 /\ Agree(e, p, Len(p) - 1)
  BY <1>1, <1>2, <1>3, BeginningIs DEF Dir
<1>5. IsPrefix(d, e) <=> Len(d) <= Len(e) /\ Agree(d, e, Len(d))
  BY <1>4, PrefixIs
<1>6. Len(d) <= Len(e) => (Agree(d, e, Len(d)) <=> Agree(d, p, Len(d)))
  BY <1>1, <1>4 DEF Agree
<1>7. Within(p, d) <=> Len(d) < Len(p) /\ Agree(d, p, Len(d))
  BY <1>1, <1>3, <1>4, <1>5, <1>6 DEF Within
<1>8. e = d <=> Len(d) = Len(e) /\ Agree(d, e, Len(d))
  BY <1>1, <1>4, AgreeIsEqual DEF Agree
<1>9. Dir(p) = d <=> Len(d) + 1 = Len(p) /\ Agree(d, p, Len(d))
  BY <1>1, <1>3, <1>4, <1>6, <1>8
<1> QED BY <1>7, <1>9

(* Directories are the beginnings of paths.                                *)
LEMMA DirsAre ==
  /\ \A d \in Dirs : d \in Trails
  /\ \A p \in FilePaths : \A n \in 0..Len(p) - 1 : SubSeq(p, 1, n) \in Dirs
  /\ \A d \in Dirs : \A n \in 0..Len(d) : SubSeq(d, 1, n) \in Dirs
<1>1. \A d : d \in Dirs <=> \E p \in FilePaths : \E n \in 0..Len(p) - 1 : d = SubSeq(p, 1, n)
  BY DEF Dirs
<1>2. ASSUME NEW p \in FilePaths, NEW n \in 0..Len(p) - 1
      PROVE  n \in 0..Len(p) /\ SubSeq(p, 1, n) \in Trails /\ Len(SubSeq(p, 1, n)) = n
  BY PathsAreTrails, BeginningIs
<1>3. ASSUME NEW d \in Dirs, NEW n \in 0..Len(d) PROVE SubSeq(d, 1, n) \in Dirs
  <2>0. PICK p \in FilePaths : \E m \in 0..Len(p) - 1 : d = SubSeq(p, 1, m)
    BY <1>1
  <2>1. PICK m \in 0..Len(p) - 1 : d = SubSeq(p, 1, m)
    BY <2>0
  <2>2. d \in Trails /\ Len(d) = m /\ Agree(d, p, m) /\ p \in Trails /\ Len(p) \in Nat /\ n \in 0..Len(p)
    BY <2>1, <1>2, PathsAreTrails, BeginningIs
  <2>3. PICK a : a = SubSeq(d, 1, n)
    OBVIOUS
  <2>4. PICK b : b = SubSeq(p, 1, n)
    OBVIOUS
  <2>5. a \in Trails /\ Len(a) = n /\ Agree(a, d, n)
    BY <2>2, <2>3, BeginningIs
  <2>6. b \in Trails /\ Len(b) = n /\ Agree(b, p, n)
    BY <2>2, <2>4, BeginningIs
  <2>7. a = b
    BY <2>2, <2>5, <2>6, AgreeIsEqual DEF Agree
  <2>8. n \in 0..Len(p) - 1
    BY <2>1, <2>2
  <2> QED BY <1>1, <2>3, <2>4, <2>7, <2>8
<1>4. ASSUME NEW d \in Dirs PROVE d \in Trails
  <2>1. PICK p \in FilePaths : \E n \in 0..Len(p) - 1 : d = SubSeq(p, 1, n)
    BY <1>1
  <2> QED BY <1>2, <2>1
<1>5. \A p \in FilePaths : \A n \in 0..Len(p) - 1 : SubSeq(p, 1, n) \in Dirs
  BY <1>1
<1> QED BY <1>3, <1>4, <1>5

(* What the library has: paths, finitely many.                             *)
PathsKept == \A r \in library : r.path \in FilePaths

(* What is listed are paths, and finitely many.                            *)
LEMMA VisibleIs ==
  ASSUME ListingIInv, PathsKept
  PROVE  /\ VisiblePaths \subseteq FilePaths
         /\ \A S \in SUBSET VisiblePaths : IsFiniteSet(S)
         /\ \A d : IsFiniteSet(Below(d))
<1>1. VisiblePaths \subseteq FilePaths
  BY DEF VisiblePaths, Visible, PathsKept
<1>2. ASSUME NEW S, IsFiniteSet(S), NEW f PROVE IsFiniteSet({f[x] : x \in S})
  <2>1. PICK T : T = {f[x] : x \in S}
    OBVIOUS
  <2>2. [x \in S |-> f[x]] \in Surjection(S, T)
    BY <2>1 DEF Surjection
  <2>3. IsFiniteSet(T)
    BY <1>2, <2>2, FS_Surjection
  <2> QED BY <2>1, <2>3
<1>3. IsFiniteSet(VisiblePaths)
  <2>1. PICK f : f = [r \in Visible(library, FALSE) |-> r.path]
    OBVIOUS
  <2>2. IsFiniteSet(Visible(library, FALSE))
    BY FS_Subset DEF ListingIInv, Ordered, Visible
  <2>3. VisiblePaths = {f[r] : r \in Visible(library, FALSE)}
    BY <2>1 DEF VisiblePaths
  <2> QED BY <1>2, <2>2, <2>3
<1>4. \A S \in SUBSET VisiblePaths : IsFiniteSet(S)
  BY <1>3, FS_Subset
<1>5. ASSUME NEW d PROVE IsFiniteSet(Below(d))
  <2>1. PICK S \in SUBSET VisiblePaths : S = {q \in VisiblePaths : Within(q, d) /\ Len(q) > Len(d) + 1}
    OBVIOUS
  <2>2. PICK f : f = [q \in S |-> q[Len(d) + 1]]
    OBVIOUS
  <2>3. Below(d) = {f[q] : q \in S}
    BY <2>1, <2>2 DEF Below
  <2> QED BY <1>2, <1>4, <2>3
<1> QED BY <1>1, <1>4, <1>5

(* What is within a directory is in it, or in one of those below it; and   *)
(* one below it has something in it.                                       *)
LEMMA BelowIs ==
  ASSUME VisiblePaths \subseteq FilePaths, NEW d \in Trails
  PROVE  /\ \A p \in VisiblePaths : p \in Direct(d) => Within(p, d) /\ Len(p) = Len(d) + 1
         /\ \A p \in VisiblePaths : Within(p, d) =>
              p \in Direct(d) \/ (p[Len(d) + 1] \in Below(d) /\ Len(p) > Len(d) + 1)
         /\ \A n \in Below(d) : \E q \in VisiblePaths :
              Within(q, d) /\ Len(q) > Len(d) + 1 /\ n = q[Len(d) + 1]
<1>1. ASSUME NEW p \in VisiblePaths
      PROVE  /\ Len(p) \in Nat /\ Len(d) \in Nat
             /\ Within(p, d) <=> Len(d) < Len(p) /\ Agree(d, p, Len(d))
             /\ p \in Direct(d) <=> Len(d) + 1 = Len(p) /\ Agree(d, p, Len(d))
  <2>1. p \in FilePaths
    OBVIOUS
  <2>2. p \in Direct(d) <=> Dir(p) = d
    BY DEF Direct
  <2> QED BY <2>1, <2>2, WithinIs, PathsAreTrails DEF Trails
<1>2. \A n : n \in Below(d) <=> \E q \in VisiblePaths :
              Within(q, d) /\ Len(q) > Len(d) + 1 /\ n = q[Len(d) + 1]
  BY DEF Below
<1> QED BY <1>1, <1>2

(* A chain ends ...                                                        *)
LEMMA ChainEnds ==
  ASSUME ListingIInv, PathsKept, NEW dir \in Trails, NEW q \in VisiblePaths, Within(q, dir)
  PROVE  \E d \in Dirs : EndsAt(dir, d)
<1>1. q \in FilePaths /\ q \in Trails /\ Len(q) \in Nat /\ Len(q) > 0 /\ Len(dir) \in Nat
  BY VisibleIs, PathsAreTrails DEF Trails
<1>2. Len(dir) < Len(q) /\ Agree(dir, q, Len(dir))
  BY <1>1, WithinIs
<1> DEFINE ends == {n \in Len(dir)..Len(q) - 1 : ~Joined(SubSeq(q, 1, n))}
<1>3. Len(q) - 1 \in ends
  <2>1. PICK e : e = SubSeq(q, 1, Len(q) - 1)
    OBVIOUS
  <2>2. q \in Direct(e)
    BY <2>1 DEF Direct, Dir
  <2> QED BY <1>1, <1>2, <2>1, <2>2 DEF Joined
<1>4. PICK n \in ends : \A m \in ends : n <= m
  <2>1. ends # {} /\ ends \subseteq Nat
    BY <1>1, <1>3
  <2> HIDE DEF ends
  <2>2. PICK f : f = [m \in ends |-> m]
    OBVIOUS
  <2>3. f \in [ends -> Nat]
    BY <2>1, <2>2
  <2>4. PICK n \in ends : \A m \in ends : f[n] <= f[m]
    BY <2>1, <2>3, LeastOf
  <2> QED BY <2>2, <2>4
<1>5. n \in Len(dir)..Len(q) - 1 /\ \A m \in Len(dir)..n - 1 : Joined(SubSeq(q, 1, m))
  BY <1>1, <1>4
<1>6. PICK d : d = SubSeq(q, 1, n)
  OBVIOUS
<1>7. d \in Dirs /\ d \in Trails /\ Len(d) = n /\ Agree(d, q, n) /\ ~Joined(d)
  BY <1>1, <1>4, <1>5, <1>6, DirsAre, BeginningIs
<1>8. IsPrefix(dir, d)
  BY <1>1, <1>2, <1>5, <1>7, PrefixIs DEF Agree
<1>9. Within(q, d)
  BY <1>1, <1>5, <1>7, WithinIs
<1>10. ASSUME NEW e \in Dirs, IsPrefix(dir, e), IsStrictPrefix(e, d) PROVE Joined(e)
  <2>1. e \in Trails /\ Len(e) \in Nat
    BY DirsAre DEF Trails
  <2>2. Len(dir) <= Len(e) /\ Len(e) <= n /\ Agree(e, d, Len(e)) /\ e # d
    BY <1>7, <1>10, <2>1, PrefixIs DEF IsStrictPrefix
  <2>3. Len(e) # n
    BY <1>7, <2>1, <2>2, AgreeIsEqual
  <2>4. Len(e) \in Len(dir)..n - 1 /\ Len(e) \in 0..Len(q)
    BY <1>1, <1>5, <2>1, <2>2, <2>3
  <2>5. PICK b : b = SubSeq(q, 1, Len(e))
    OBVIOUS
  <2>6. b \in Trails /\ Len(b) = Len(e) /\ Agree(b, q, Len(e))
    BY <1>1, <2>4, <2>5, BeginningIs
  <2>7. e = b
    BY <1>5, <1>7, <2>1, <2>2, <2>6, AgreeIsEqual DEF Agree
  <2> QED BY <1>5, <2>4, <2>5, <2>7
<1> QED BY <1>7, <1>8, <1>9, <1>10 DEF EndsAt

(* ... and all that is within its first directory is within its last.      *)
LEMMA ChainHolds ==
  ASSUME ListingIInv, PathsKept, NEW dir \in Trails, NEW d \in Dirs, EndsAt(dir, d),
         NEW p \in VisiblePaths, Within(p, dir)
  PROVE  Within(p, d)
<1>1. /\ p \in FilePaths /\ Len(p) \in Nat /\ Len(dir) \in Nat /\ Len(d) \in Nat /\ d \in Trails
      /\ VisiblePaths \subseteq FilePaths
  BY VisibleIs, PathsAreTrails, DirsAre DEF Trails
<1>2. Len(dir) < Len(p) /\ Agree(dir, p, Len(dir)) /\ Len(dir) <= Len(d) /\ Agree(dir, d, Len(dir))
  BY <1>1, WithinIs, PrefixIs DEF EndsAt
<1>3. PICK q \in VisiblePaths : Within(q, d)
  BY DEF EndsAt
<1>4. q \in FilePaths /\ Len(q) \in Nat /\ Len(d) < Len(q) /\ Agree(d, q, Len(d))
  BY <1>1, <1>3, WithinIs, PathsAreTrails
<1> SUFFICES ASSUME ~Within(p, d) PROVE FALSE
  OBVIOUS
<1> DEFINE lost == {n \in Len(dir)..Len(d) : ~(n < Len(p) /\ Agree(d, p, n))}
<1>5. Len(d) \in lost
  BY <1>1, <1>2, WithinIs
<1>6. PICK n \in lost : \A m \in lost : n <= m
  <2>1. lost # {} /\ lost \subseteq Nat
    BY <1>1, <1>5
  <2> HIDE DEF lost
  <2>2. PICK f : f = [m \in lost |-> m]
    OBVIOUS
  <2>3. f \in [lost -> Nat]
    BY <2>1, <2>2
  <2>4. PICK n \in lost : \A m \in lost : f[n] <= f[m]
    BY <2>1, <2>3, LeastOf
  <2> QED BY <2>2, <2>4
<1>7. n \in Len(dir) + 1..Len(d)
  <2>1. Len(dir) \notin lost
    BY <1>1, <1>2 DEF Agree
  <2> QED BY <1>1, <1>6, <2>1
<1>8. n - 1 < Len(p) /\ Agree(d, p, n - 1)
  <2>1. n - 1 \notin lost
    BY <1>1, <1>6, <1>7
  <2> QED BY <1>1, <1>7, <2>1
<1>9. PICK e : e = SubSeq(d, 1, n - 1)
  OBVIOUS
<1>10. e \in Dirs /\ e \in Trails /\ Len(e) = n - 1 /\ Agree(e, d, n - 1)
  BY <1>1, <1>7, <1>9, DirsAre, BeginningIs
<1>11. Within(p, e) /\ Within(q, e)
  BY <1>1, <1>4, <1>7, <1>8, <1>10, WithinIs DEF Agree
<1>12. Joined(e)
  <2>1. IsPrefix(dir, e)
    BY <1>1, <1>2, <1>7, <1>10, PrefixIs DEF Agree
  <2>2. IsPrefix(e, d) /\ e # d
    BY <1>1, <1>7, <1>10, PrefixIs
  <2> QED BY <1>10, <2>1, <2>2 DEF EndsAt, IsStrictPrefix
<1>13. PICK x : Below(e) = {x}
  BY <1>12, VisibleIs, FS_Singleton DEF Joined
<1>14. p[n] \in Below(e) /\ q[n] \in Below(e) /\ Len(p) > n
  <2>1. p \notin Direct(e) /\ q \notin Direct(e)
    BY <1>12 DEF Joined
  <2>2. Len(e) + 1 = n
    BY <1>1, <1>7, <1>10
  <2> QED BY <1>1, <1>10, <1>11, <2>1, <2>2, BelowIs
<1>15. p[n] = d[n]
  BY <1>1, <1>4, <1>7, <1>13, <1>14 DEF Agree
<1>16. Agree(d, p, n)
  BY <1>1, <1>7, <1>8, <1>15 DEF Agree
<1> QED BY <1>1, <1>6, <1>14, <1>16

(* A folder of a directory: where the chain that begins with it ends.      *)
LEMMA FolderIs ==
  ASSUME ListingIInv, PathsKept, NEW dir \in Dirs, NEW n \in Below(dir)
  PROVE  /\ Append(dir, n) \in Trails /\ Folder(Append(dir, n)) \in Dirs
         /\ EndsAt(Append(dir, n), Folder(Append(dir, n)))
         /\ \A p \in VisiblePaths :
              Within(p, Append(dir, n)) <=> Within(p, dir) /\ Len(p) > Len(dir) + 1 /\ p[Len(dir) + 1] = n
<1>1. dir \in Trails /\ Len(dir) \in Nat /\ VisiblePaths \subseteq FilePaths
  BY VisibleIs, DirsAre DEF Trails
<1>2. PICK q \in VisiblePaths : Within(q, dir) /\ Len(q) > Len(dir) + 1 /\ n = q[Len(dir) + 1]
  BY <1>1, BelowIs
<1>3. n \in Segments
  BY <1>1, <1>2, PathsAreTrails DEF Trails
<1>4. PICK a : a = Append(dir, n)
  OBVIOUS
<1>5. a \in Trails /\ Len(a) = Len(dir) + 1 /\ Agree(a, dir, Len(dir)) /\ a[Len(dir) + 1] = n
  BY <1>1, <1>3, <1>4, AppendProperties DEF Trails, Agree
<1>6. ASSUME NEW p \in VisiblePaths
      PROVE  Within(p, a) <=> Within(p, dir) /\ Len(p) > Len(dir) + 1 /\ p[Len(dir) + 1] = n
  <2>1. p \in FilePaths /\ Len(p) \in Nat
    BY <1>1, PathsAreTrails
  <2>2. Within(p, a) <=> Len(a) < Len(p) /\ Agree(a, p, Len(a))
    BY <1>5, <2>1, WithinIs
  <2>3. Within(p, dir) <=> Len(dir) < Len(p) /\ Agree(dir, p, Len(dir))
    BY <1>1, <2>1, WithinIs
  <2>4. Agree(a, p, Len(a)) <=> Agree(dir, p, Len(dir)) /\ p[Len(dir) + 1] = n
    BY <1>1, <1>5 DEF Agree
  <2> QED BY <1>1, <1>5, <2>1, <2>2, <2>3, <2>4
<1>7. Within(q, a)
  BY <1>2, <1>6
<1>8. \E d \in Dirs : EndsAt(a, d)
  BY <1>5, <1>7, ChainEnds
<1>9. Folder(a) \in Dirs /\ EndsAt(a, Folder(a))
  BY <1>8 DEF Folder
<1> QED BY <1>4, <1>5, <1>6, <1>9

(* So it has the files of its first directory.                             *)
LEMMA FolderHolds ==
  ASSUME ListingIInv, PathsKept, NEW dir \in Dirs, NEW n \in Below(dir)
  PROVE  \A p \in VisiblePaths : Within(p, Folder(Append(dir, n))) <=> Within(p, Append(dir, n))
<1> DEFINE a == Append(dir, n)  d == Folder(a)
<1>1. a \in Trails /\ d \in Dirs /\ EndsAt(a, d)
  BY FolderIs
<1> HIDE DEF a, d
<1>2. ASSUME NEW p \in VisiblePaths, Within(p, a) PROVE Within(p, d)
  BY <1>1, <1>2, ChainHolds
<1>3. ASSUME NEW p \in VisiblePaths, Within(p, d) PROVE Within(p, a)
  <2>1. p \in FilePaths /\ d \in Trails /\ Len(p) \in Nat /\ Len(a) \in Nat /\ Len(d) \in Nat
    BY <1>1, VisibleIs, DirsAre, PathsAreTrails DEF Trails
  <2>2. Len(d) < Len(p) /\ Agree(d, p, Len(d))
    BY <1>3, <2>1, WithinIs
  <2>3. Len(a) <= Len(d) /\ Agree(a, d, Len(a))
    BY <1>1, <2>1, PrefixIs DEF EndsAt
  <2>4. Len(a) < Len(p) /\ Agree(a, p, Len(a))
    BY <2>1, <2>2, <2>3 DEF Agree
  <2> QED BY <1>1, <2>1, <2>4, WithinIs
<1> QED BY <1>2, <1>3 DEF a, d

(* It is there because there is a choice.                                  *)
LEMMA FolderIsAChoice ==
  ASSUME ListingIInv, PathsKept, NEW d \in Dirs, ~Joined(d),
         NEW q \in VisiblePaths, Within(q, d)
  PROVE  \/ Cardinality(Below(d)) + Cardinality(Direct(d)) > 1
         \/ /\ Cardinality(Direct(d)) = 1
            /\ Cardinality({p \in VisiblePaths : Within(p, d)}) = 1
<1>1. d \in Trails /\ VisiblePaths \subseteq FilePaths
  BY VisibleIs, DirsAre
<1>2. IsFiniteSet(Below(d)) /\ IsFiniteSet(Direct(d))
  BY VisibleIs DEF Direct
<1>3. /\ Cardinality(Below(d)) \in Nat /\ (Cardinality(Below(d)) = 0 <=> Below(d) = {})
      /\ Cardinality(Direct(d)) \in Nat /\ (Cardinality(Direct(d)) = 0 <=> Direct(d) = {})
  BY <1>2, FS_CardinalityType, FS_EmptySet
<1>4. CASE Below(d) = {}
  <2>1. {p \in VisiblePaths : Within(p, d)} = Direct(d)
    <3>1. Direct(d) \subseteq VisiblePaths
      BY DEF Direct
    <3> QED BY <1>1, <1>4, <3>1, BelowIs
  <2>2. Direct(d) # {}
    BY <2>1
  <2> QED BY <1>3, <1>4, <2>1, <2>2
<1>5. CASE Below(d) # {}
  <2>1. Cardinality(Below(d)) # 1 \/ Direct(d) # {}
    BY DEF Joined
  <2> QED BY <1>3, <1>5, <2>1
<1> QED BY <1>4, <1>5

(* Each file below a directory is in one of its folders.                   *)
LEMMA FoldersPart ==
  ASSUME ListingIInv, PathsKept, NEW dir \in Dirs, NEW p \in VisiblePaths, Within(p, dir)
  PROVE  p \in Direct(dir) <=> Cardinality({f \in FolderTree(dir) : Within(p, f.path)}) # 1
<1> DEFINE entry(n) == [path |-> Folder(Append(dir, n)),
                        files |-> Cardinality({q \in VisiblePaths : Within(q, Append(dir, n))})]
<1>1. FolderTree(dir) = {entry(n) : n \in Below(dir)}
  BY DEF FolderTree
<1>2. PICK holding : holding = {f \in FolderTree(dir) : Within(p, f.path)}
  OBVIOUS
<1>3. ASSUME NEW n \in Below(dir)
      PROVE  Within(p, entry(n).path) <=> Len(p) > Len(dir) + 1 /\ p[Len(dir) + 1] = n
  <2>1. Within(p, Folder(Append(dir, n))) <=> Within(p, Append(dir, n))
    BY FolderHolds
  <2>2. Within(p, Append(dir, n)) <=> Within(p, dir) /\ Len(p) > Len(dir) + 1 /\ p[Len(dir) + 1] = n
    BY FolderIs
  <2> QED BY <2>1, <2>2
<1>4. /\ dir \in Trails /\ Len(dir) \in Nat /\ Len(p) \in Nat /\ VisiblePaths \subseteq FilePaths
  BY VisibleIs, DirsAre, PathsAreTrails DEF Trails
<1>5. CASE p \in Direct(dir)
  <2>1. Len(p) = Len(dir) + 1
    BY <1>4, <1>5, BelowIs
  <2>2. \A n \in Below(dir) : ~Within(p, entry(n).path)
    BY <1>3, <1>4, <2>1
  <2> HIDE DEF entry
  <2>3. holding = {}
    BY <1>1, <1>2, <2>2
  <2> QED BY <1>2, <1>5, <2>3, FS_EmptySet
<1>6. CASE p \notin Direct(dir)
  <2>1. PICK n \in Below(dir) : n = p[Len(dir) + 1] /\ Len(p) > Len(dir) + 1
    BY <1>4, <1>6, BelowIs
  <2>2. \A m \in Below(dir) : Within(p, entry(m).path) <=> m = n
    BY <1>3, <2>1
  <2> HIDE DEF entry
  <2>3. holding = {entry(n)}
    BY <1>1, <1>2, <2>2
  <2> QED BY <1>2, <1>6, <2>3, FS_Singleton
<1> QED BY <1>5, <1>6

(* Together: the property, by parts.                                       *)
LEMMA FoldersAreWell == ListingIInv /\ PathsKept => FoldersPartition
<1> SUFFICES ASSUME ListingIInv, PathsKept, NEW dir \in Dirs
             PROVE  /\ \A p \in {q \in VisiblePaths : Within(q, dir)} :
                         (p \in Direct(dir)) <=>
                           Cardinality({f \in FolderTree(dir) : Within(p, f.path)}) # 1
                    /\ \A f \in FolderTree(dir) :
                         /\ f.files = Cardinality({p \in VisiblePaths : Within(p, f.path)})
                         /\ Cardinality(Below(f.path)) + Cardinality(Direct(f.path)) > 1
                              \/ (Cardinality(Direct(f.path)) = 1 /\ f.files = 1)
  BY DEF FoldersPartition
<1>1. \A p \in {q \in VisiblePaths : Within(q, dir)} :
        (p \in Direct(dir)) <=> Cardinality({f \in FolderTree(dir) : Within(p, f.path)}) # 1
  BY FoldersPart
<1>2. ASSUME NEW f \in FolderTree(dir)
      PROVE  /\ f.files = Cardinality({p \in VisiblePaths : Within(p, f.path)})
             /\ Cardinality(Below(f.path)) + Cardinality(Direct(f.path)) > 1
                  \/ (Cardinality(Direct(f.path)) = 1 /\ f.files = 1)
  <2>1. PICK n \in Below(dir) :
          f = [path |-> Folder(Append(dir, n)),
               files |-> Cardinality({q \in VisiblePaths : Within(q, Append(dir, n))})]
    BY DEF FolderTree
  <2>2. /\ f.path = Folder(Append(dir, n))
        /\ f.files = Cardinality({q \in VisiblePaths : Within(q, Append(dir, n))})
    BY <2>1
  <2>3. {q \in VisiblePaths : Within(q, Append(dir, n))} = {q \in VisiblePaths : Within(q, f.path)}
    BY <2>2, FolderHolds
  <2>4. f.path \in Dirs /\ EndsAt(Append(dir, n), f.path)
    BY <2>2, FolderIs
  <2>5. PICK q \in VisiblePaths : Within(q, f.path)
    BY <2>4 DEF EndsAt
  <2>6. \/ Cardinality(Below(f.path)) + Cardinality(Direct(f.path)) > 1
        \/ /\ Cardinality(Direct(f.path)) = 1
           /\ Cardinality({p \in VisiblePaths : Within(p, f.path)}) = 1
    BY <2>4, <2>5, FolderIsAChoice DEF EndsAt
  <2> QED BY <2>2, <2>3, <2>6
<1> QED BY <1>1, <1>2

(* The library only gets rows of paths.                                    *)
LEMMA PathsStay ==
  ASSUME ListingIInv, PathsKept, [ListingNext]_listingVars
  PROVE  PathsKept'
<1>1. \A r \in library : IsRow(r)
  BY DEF ListingIInv, Ordered
<1>2. CASE library' = library
  BY <1>2 DEF PathsKept
<1>3. ASSUME NEW p \in FilePaths, NEW i \in RowIds, Saved(p, i) PROVE PathsKept'
  BY <1>3 DEF Saved, Becomes, PathsKept
<1>4. ASSUME NEW S \in SUBSET library, Archive(S) \/ Unarchive(S) PROVE PathsKept'
  <2>1. PICK way \in BOOLEAN : library' = (library \ S) \cup Archived(S, way)
    BY <1>4 DEF Archive, Unarchive, Becomes
  <2>2. \A r \in S : [r EXCEPT !.archived = way].path = r.path
    BY <1>1 DEF IsRow
  <2> QED BY <2>1, <2>2 DEF PathsKept, Archived
<1>5. ASSUME NEW s \in library, Bookmark(s) PROVE PathsKept'
  <2>1. [s EXCEPT !.starred = ~@].path = s.path
    BY <1>1 DEF IsRow
  <2> QED BY <1>5, <2>1 DEF Bookmark, Becomes, PathsKept
<1>6. CASE UNCHANGED listingVars \/ NextPage \/ ReaderLeaves \/ Tick \/ \E f \in Filters : FirstPage(f)
  BY <1>2, <1>6 DEF listingVars, NextPage, ReaderLeaves, Tick, FirstPage
<1>7. CASE \E S \in SUBSET library : Archive(S) \/ Unarchive(S)
  BY <1>4, <1>7
<1>8. ArchiveIgnored => \E S \in SUBSET library : Archive(S)
  BY DEF ArchiveIgnored
<1> QED BY <1>3, <1>5, <1>6, <1>7, <1>8 DEF ListingNext

(* Beside the pages, every directory's folders have all its files, each    *)
(* once and rightly counted, and each is where there is a choice: for a    *)
(* library of any size, paths of any depth, and whatever changes.          *)
THEOREM LibraryIsListed == ListingSpec => []ListingsAreComplete
<1>1. ListingInit => ListingIInv /\ PathsKept
  BY ListingStarts DEF ListingInit, PathsKept
<1>2. ListingIInv /\ PathsKept /\ [ListingNext]_listingVars => (ListingIInv /\ PathsKept)'
  BY ListingStep, PathsStay
<1>3. ListingIInv /\ PathsKept => FoldersPartition
  BY FoldersAreWell
<1>4. ListingSpec => []PagesAreComplete
  BY PagingMissesNothing
<1>5. ListingsAreComplete <=> PagesAreComplete /\ FoldersPartition
  BY DEF ListingsAreComplete
<1> QED BY <1>1, <1>2, <1>3, <1>4, <1>5, PTL DEF ListingSpec

-----------------------------------------------------------------------------
(* ArtifactIngest: the rows of a path are its versions.                    *)

AnyContent == Contents \cup {NoContent}
FileType == [content : Contents, writes : Nat \ {0}]
RowType == [path : Paths, content : AnyContent, turn : Turns \cup {NoTurn}, tagged : BOOLEAN]
JobType == [path : Paths, turn : Turns \cup {NoTurn}, by : {"tool", "media", "promote", "diff"}]
HoldType == [job : JobType, content : AnyContent]
BoundaryType == [kind : {"message.started", "message.completed"}, turn : Turns]
Present == {p \in Paths : disk[p] # Absent}

IngestTypes ==
  /\ disk \in [Paths -> FileType \cup {Absent}]
  /\ turns \in [Turns -> {"fresh", "running", "over"}]
  /\ boundaries \in Seq(BoundaryType)
  /\ starting \subseteq Turns
  /\ DOMAIN before = Turns
  /\ \A d \in finishing : /\ DOMAIN d = {"turn", "first", "todo"}
                          /\ d.turn \in Turns /\ d.todo \subseteq Present
  /\ jobs \subseteq {j \in JobType : j.path \in Present}
  /\ lock \subseteq HoldType
  /\ \A h, k \in lock : h = k
  /\ rows \in Seq(RowType)
  /\ DOMAIN fetched = Paths

(* One row of each version; the one that waits is the newest of its path.  *)
OneOfEach ==
  \A i, j \in DOMAIN rows : rows[i].path = rows[j].path =>
    /\ rows[i].content = rows[j].content => i = j
    /\ rows[i].content = NoContent => j <= i

WholeRows(p) == {i \in Of(p) : rows[i].content # NoContent}
Newest(p, i) == i \in WholeRows(p) /\ \A j \in WholeRows(p) : j <= i
Holding(p) == {h \in lock : h.job.path = p /\ h.content # NoContent}

(* Of a file that never went back: the version on disk or under way is the *)
(* newest, if it has a row, and between two fetches the newest row is what *)
(* was fetched last.                                                       *)
NewestIsFetched ==
  \A p \in Paths \ reverted :
    /\ \A i \in WholeRows(p) : rows[i].content = disk[p].content => Newest(p, i)
    /\ \A h \in Holding(p) :
         /\ h.content = fetched[p]
         /\ \A i \in WholeRows(p) :
              /\ rows[i].content = h.content => Newest(p, i)
              /\ h.content # disk[p].content => rows[i].content # disk[p].content
    /\ WholeRows(p) # {} => \E m \in DOMAIN rows :
         Newest(p, m) /\ (Holding(p) = {} => rows[m].content = fetched[p])

IngestIInv == IngestTypes /\ OneOfEach /\ NewestIsFetched

(* No bytes are no content, and no file is no file.                        *)
LEMMA AbsentApart == NoContent \notin Contents /\ Absent \notin FileType
BY ContentsAssumption DEF NoContent, Absent, FileType

(* What the row of a file becomes when its bytes, or their absence, are    *)
(* written: a row that had them, the row that waits, or a new one.         *)
RowWritten(p, c) ==
  \/ \E r \in Of(p) :
       /\ DOMAIN rows' = DOMAIN rows
       /\ \A i \in DOMAIN rows : rows'[i].path = rows[i].path
       /\ \A i \in DOMAIN rows \ {r} : rows'[i].content = rows[i].content
       /\ rows'[r].content = c
       /\ rows[r].content = c \/ (rows[r].content = NoContent /\ Same(p, c) = {})
  \/ /\ Same(p, c) = {} /\ Same(p, NoContent) = {}
     /\ Len(rows') = Len(rows) + 1
     /\ \A i \in DOMAIN rows : rows'[i] = rows[i]
     /\ rows'[Len(rows) + 1].path = p /\ rows'[Len(rows) + 1].content = c

(* The newest of the rows with one content is their only one.              *)
LEMMA OnlyOne ==
  ASSUME IngestTypes, OneOfEach, NEW p, NEW c, Same(p, c) # {}
  PROVE  NewestOf(Same(p, c)) \in Same(p, c)
<1>1. PICK i \in Same(p, c) : TRUE
  OBVIOUS
<1>2. \A j \in Same(p, c) : j = i
  BY DEF OneOfEach, Same, Of
<1>3. i \in Nat
  BY DEF Same, Of, IngestTypes
<1>4. \E k \in Same(p, c) : \A j \in Same(p, c) : j <= k
  BY <1>1, <1>2, <1>3
<1>. QED  BY <1>4 DEF NewestOf

(* What _write_success_row and _write_failure_row do to the rows.          *)
LEMMA WrittenIs ==
  ASSUME IngestTypes, OneOfEach, NEW p \in Paths, NEW c \in AnyContent, NEW t \in Turns \cup {NoTurn},
         rows' = Written(p, c, t)
  PROVE  RowWritten(p, c) /\ rows' \in Seq(RowType)
<1>. DEFINE row == IF Same(p, c) # {} THEN NewestOf(Same(p, c))
             ELSE IF Same(p, NoContent) # {} THEN NewestOf(Same(p, NoContent)) ELSE 0
            turn == Provenance(NoTurn, t)
            kept == Provenance(rows[row].turn, t)
            tagged == c # NoContent
<1>1. rows' = IF row = 0 THEN Append(rows, [path |-> p, content |-> c, turn |-> turn, tagged |-> tagged])
              ELSE [rows EXCEPT ![row] = [rows[row] EXCEPT !.content = c, !.turn = kept]]
  BY DEF Written, NewRow
<1>2. turn \in Turns \cup {NoTurn} /\ tagged \in BOOLEAN
  BY DEF Provenance
<1>3. CASE Same(p, c) = {} /\ Same(p, NoContent) = {}
  <2>1. row = 0 BY <1>3
  <2>. HIDE DEF row, turn, tagged
  <2>. DEFINE new == [path |-> p, content |-> c, turn |-> turn, tagged |-> tagged]
  <2>2. rows' = Append(rows, new) /\ new \in RowType /\ new.path = p /\ new.content = c
    BY <1>1, <1>2, <2>1 DEF RowType
  <2>. HIDE DEF new
  <2>3. rows \in Seq(RowType)
    BY DEF IngestTypes
  <2>4. /\ rows' \in Seq(RowType) /\ Len(rows') = Len(rows) + 1
        /\ \A i \in DOMAIN rows : rows'[i] = rows[i]
        /\ rows'[Len(rows) + 1] = new
    BY <2>2, <2>3
  <2>. QED  BY <1>3, <2>2, <2>4 DEF RowWritten
<1>4. CASE Same(p, c) # {} \/ Same(p, NoContent) # {}
  <2>1. /\ row \in Of(p)
        /\ rows[row].content = c \/ (rows[row].content = NoContent /\ Same(p, c) = {})
    BY <1>4, OnlyOne DEF Same
  <2>. HIDE DEF row
  <2>2. row \in DOMAIN rows /\ row # 0 /\ rows \in Seq(RowType) /\ rows[row] \in RowType
    BY <2>1 DEF Of, IngestTypes
  <2>3. kept \in Turns \cup {NoTurn}
    BY <2>2 DEF Provenance, RowType
  <2>. HIDE DEF kept
  <2>. DEFINE new == [rows[row] EXCEPT !.content = c, !.turn = kept]
  <2>4. new \in RowType /\ new.path = rows[row].path /\ new.content = c
    BY <2>2, <2>3 DEF RowType
  <2>5. rows' = [rows EXCEPT ![row] = new]
    BY <1>1, <2>2
  <2>. HIDE DEF new
  <2>6. /\ rows' \in Seq(RowType) /\ DOMAIN rows' = DOMAIN rows
        /\ \A i \in DOMAIN rows \ {row} : rows'[i] = rows[i]
        /\ rows'[row] = new
    BY <2>2, <2>4, <2>5
  <2>. QED  BY <2>1, <2>4, <2>6 DEF RowWritten
<1>. QED  BY <1>3, <1>4

(* It leaves one row of each version, the waiting one the newest.          *)
LEMMA OneOfEachKept ==
  ASSUME IngestTypes, OneOfEach, NEW p, NEW c, RowWritten(p, c), rows' \in Seq(RowType)
  PROVE  OneOfEach'
<1>1. CASE \E r \in Of(p) :
       /\ DOMAIN rows' = DOMAIN rows
       /\ \A i \in DOMAIN rows : rows'[i].path = rows[i].path
       /\ \A i \in DOMAIN rows \ {r} : rows'[i].content = rows[i].content
       /\ rows'[r].content = c
       /\ rows[r].content = c \/ (rows[r].content = NoContent /\ Same(p, c) = {})
  <2>1. PICK r \in Of(p) :
       /\ DOMAIN rows' = DOMAIN rows
       /\ \A i \in DOMAIN rows : rows'[i].path = rows[i].path
       /\ \A i \in DOMAIN rows \ {r} : rows'[i].content = rows[i].content
       /\ rows'[r].content = c
       /\ rows[r].content = c \/ (rows[r].content = NoContent /\ Same(p, c) = {})
    BY <1>1
  <2>2. r \in DOMAIN rows /\ rows[r].path = p
    BY DEF Of
  <2>. QED  BY <2>1, <2>2 DEF OneOfEach, Same, Of
<1>2. CASE
     /\ Same(p, c) = {} /\ Same(p, NoContent) = {}
     /\ Len(rows') = Len(rows) + 1
     /\ \A i \in DOMAIN rows : rows'[i] = rows[i]
     /\ rows'[Len(rows) + 1].path = p /\ rows'[Len(rows) + 1].content = c
  <2>1. /\ DOMAIN rows' = DOMAIN rows \cup {Len(rows) + 1} /\ Len(rows) + 1 \notin DOMAIN rows
        /\ \A i \in DOMAIN rows : i <= Len(rows)
    BY <1>2 DEF IngestTypes
  <2>2. \A i \in DOMAIN rows : rows[i].path = p => rows[i].content # c /\ rows[i].content # NoContent
    BY <1>2 DEF Same, Of
  <2>3. Len(rows) \in Nat /\ \A i \in DOMAIN rows' : i <= Len(rows) + 1 /\ i \in Nat
    BY <2>1 DEF IngestTypes
  <2>. QED  BY <1>2, <2>1, <2>2, <2>3 DEF OneOfEach
<1>. QED  BY <1>1, <1>2 DEF RowWritten

(* Steps that change neither paths nor contents of rows.                   *)
LEMMA VersionsFrame ==
  ASSUME IngestTypes, OneOfEach, NewestIsFetched, UNCHANGED <<lock, fetched, reverted, disk>>,
         DOMAIN rows' = DOMAIN rows,
         \A i \in DOMAIN rows : rows'[i].path = rows[i].path /\ rows'[i].content = rows[i].content
  PROVE  OneOfEach' /\ NewestIsFetched'
<1>1. OneOfEach'
  BY DEF OneOfEach
<1>2. \A p : Of(p)' = Of(p) /\ WholeRows(p)' = WholeRows(p) /\ Holding(p)' = Holding(p)
  BY DEF Of, WholeRows, Holding
<1>3. \A p, i : Newest(p, i)' <=> Newest(p, i)
  BY <1>2 DEF Newest
<1>4. \A p : \A i \in WholeRows(p) : i \in DOMAIN rows
  BY DEF WholeRows, Of
<1>5. NewestIsFetched'
  <2>. SUFFICES ASSUME NEW p \in Paths \ reverted
       PROVE  /\ \A i \in WholeRows(p) : rows[i].content = disk[p].content => Newest(p, i)
              /\ \A h \in Holding(p) :
                   /\ h.content = fetched[p]
                   /\ \A i \in WholeRows(p) :
                        /\ rows[i].content = h.content => Newest(p, i)
                        /\ h.content # disk[p].content => rows[i].content # disk[p].content
              /\ WholeRows(p) # {} => \E m \in DOMAIN rows :
                   Newest(p, m) /\ (Holding(p) = {} => rows[m].content = fetched[p])
    BY <1>2, <1>3, <1>4 DEF NewestIsFetched
  <2>. QED  BY DEF NewestIsFetched
<1>. QED  BY <1>1, <1>5

(* A file is written: a content some row has counts as a return to it.     *)
LEMMA WriteKeeps ==
  ASSUME IngestTypes, OneOfEach, NewestIsFetched, NEW p \in Paths, NEW c \in Contents, Write(p, c)
  PROVE  OneOfEach' /\ NewestIsFetched'
<1>. DEFINE new == [content |-> c, writes |-> disk[p].writes + 1]
<1>1. /\ disk' = [disk EXCEPT ![p] = new] /\ new.content = c
      /\ reverted' = IF \E i \in DOMAIN rows : rows[i].path = p /\ rows[i].content = c
                     THEN reverted \cup {p} ELSE reverted
      /\ UNCHANGED <<rows, lock, fetched>>
  BY DEF Write, pipeline
<1>. HIDE DEF new
<1>2. disk'[p].content = c /\ \A q \in Paths \ {p} : disk'[q] = disk[q]
  BY <1>1 DEF IngestTypes
<1>3. \A q : Of(q)' = Of(q) /\ WholeRows(q)' = WholeRows(q) /\ Holding(q)' = Holding(q)
  BY <1>1 DEF Of, WholeRows, Holding
<1>4. \A q, i : Newest(q, i)' <=> Newest(q, i)
  BY <1>3 DEF Newest
<1>5. p \notin reverted' => \A i \in WholeRows(p) : rows[i].content # c
  BY <1>1 DEF WholeRows, Of
<1>6. NewestIsFetched'
  <2>. SUFFICES ASSUME NEW q \in Paths \ reverted'
       PROVE  /\ \A i \in WholeRows(q) : rows[i].content = disk'[q].content => Newest(q, i)
              /\ \A h \in Holding(q) :
                   /\ h.content = fetched[q]
                   /\ \A i \in WholeRows(q) :
                        /\ rows[i].content = h.content => Newest(q, i)
                        /\ h.content # disk'[q].content => rows[i].content # disk'[q].content
              /\ WholeRows(q) # {} => \E m \in DOMAIN rows :
                   Newest(q, m) /\ (Holding(q) = {} => rows[m].content = fetched[q])
    BY <1>1, <1>3, <1>4 DEF NewestIsFetched
  <2>1. q \notin reverted
    BY <1>1
  <2>2. CASE q = p
    BY <2>1, <2>2, <1>2, <1>5 DEF NewestIsFetched
  <2>3. CASE q # p
    BY <2>1, <2>3, <1>2 DEF NewestIsFetched
  <2>. QED  BY <2>2, <2>3
<1>7. OneOfEach'
  BY <1>1 DEF OneOfEach
<1>. QED  BY <1>6, <1>7

(* The bytes are fetched, with the lock.                                   *)
LEMMA FetchKeeps ==
  ASSUME IngestTypes, OneOfEach, NewestIsFetched, NEW j \in jobs, NEW ok \in BOOLEAN, Fetch(j, ok)
  PROVE  OneOfEach' /\ NewestIsFetched'
<1>. DEFINE c == IF ok THEN disk[j.path].content ELSE NoContent
            h == [job |-> j, content |-> c]
<1>1. /\ lock = {} /\ lock' = {h} /\ UNCHANGED <<rows, disk, reverted>>
      /\ fetched' = IF ok THEN [fetched EXCEPT ![j.path] = c] ELSE fetched
  BY DEF Fetch, Unlocked, sandbox
<1>2. j.path \in Paths /\ disk[j.path].content \in Contents
  BY DEF IngestTypes, JobType, Present, FileType
<1>3. ok <=> c # NoContent
  BY <1>2, AbsentApart
<1>4. h.job = j /\ h.content = c
  OBVIOUS
<1>5. ok => c = disk[j.path].content
  OBVIOUS
<1>. HIDE DEF h, c
<1>6. \A q : Of(q)' = Of(q) /\ WholeRows(q)' = WholeRows(q) /\ Holding(q) = {}
             /\ Holding(q)' = IF ok /\ q = j.path THEN {h} ELSE {}
  BY <1>1, <1>3, <1>4 DEF Of, WholeRows, Holding
<1>7. \A q, i : Newest(q, i)' <=> Newest(q, i)
  BY <1>6 DEF Newest
<1>8. \A q \in Paths : fetched'[q] = IF ok /\ q = j.path THEN c ELSE fetched[q]
  BY <1>1 DEF IngestTypes
<1>9. NewestIsFetched'
  <2>. SUFFICES ASSUME NEW q \in Paths \ reverted
       PROVE  /\ \A i \in WholeRows(q) : rows[i].content = disk[q].content => Newest(q, i)
              /\ \A k \in Holding(q)' :
                   /\ k.content = fetched'[q]
                   /\ \A i \in WholeRows(q) :
                        /\ rows[i].content = k.content => Newest(q, i)
                        /\ k.content # disk[q].content => rows[i].content # disk[q].content
              /\ WholeRows(q) # {} => \E m \in DOMAIN rows :
                   Newest(q, m) /\ (Holding(q)' = {} => rows[m].content = fetched'[q])
    BY <1>1, <1>6, <1>7 DEF NewestIsFetched
  <2>1. CASE ok /\ q = j.path
    BY <2>1, <1>4, <1>5, <1>6, <1>8 DEF NewestIsFetched
  <2>2. CASE ~(ok /\ q = j.path)
    BY <2>2, <1>6, <1>8 DEF NewestIsFetched
  <2>. QED  BY <2>1, <2>2
<1>10. OneOfEach'
  BY <1>1 DEF OneOfEach
<1>. QED  BY <1>9, <1>10

(* The row is written: what was fetched is now the newest.                 *)
LEMMA RecordKeeps ==
  ASSUME IngestTypes, OneOfEach, NewestIsFetched, NEW h \in lock, Record(h)
  PROVE  OneOfEach' /\ NewestIsFetched' /\ rows' \in Seq(RowType)
<1>. DEFINE p == h.job.path
            c == h.content
<1>1. /\ lock = {h} /\ lock' = {} /\ UNCHANGED <<disk, fetched, reverted>>
      /\ rows' = Written(p, c, h.job.turn)
  BY DEF Record, IngestTypes, sandbox, seen
<1>2. p \in Paths /\ c \in AnyContent /\ h.job.turn \in Turns \cup {NoTurn}
  BY DEF IngestTypes, HoldType, JobType
<1>3. RowWritten(p, c) /\ rows' \in Seq(RowType)
  BY <1>1, <1>2, WrittenIs
<1>4. OneOfEach'
  BY <1>3, OneOfEachKept
<1>5. \A q : Holding(q)' = {} /\ (Holding(q) = IF q = p /\ c # NoContent THEN {h} ELSE {})
  BY <1>1 DEF Holding
<1>6. c = h.content /\ p = h.job.path
  OBVIOUS
<1>. HIDE DEF p, c
<1>7. ASSUME NEW q \in Paths \ reverted
      PROVE  /\ \A i \in WholeRows(q)' : rows'[i].content = disk[q].content => Newest(q, i)'
             /\ WholeRows(q)' # {} => \E m \in DOMAIN rows' :
                   Newest(q, m)' /\ rows'[m].content = fetched[q]
  <2>1. CASE q # p \/ c = NoContent
    <3>1. Holding(q) = {}
      BY <2>1, <1>5
    <3>2. DOMAIN rows \subseteq DOMAIN rows' /\ WholeRows(q)' = WholeRows(q)
          /\ \A i \in WholeRows(q) : rows'[i].content = rows[i].content
      <4>1. CASE \E r \in Of(p) :
           /\ DOMAIN rows' = DOMAIN rows
           /\ \A i \in DOMAIN rows : rows'[i].path = rows[i].path
           /\ \A i \in DOMAIN rows \ {r} : rows'[i].content = rows[i].content
           /\ rows'[r].content = c
           /\ rows[r].content = c \/ (rows[r].content = NoContent /\ Same(p, c) = {})
        BY <4>1, <2>1 DEF WholeRows, Of
      <4>2. CASE
         /\ Same(p, c) = {} /\ Same(p, NoContent) = {}
         /\ Len(rows') = Len(rows) + 1
         /\ \A i \in DOMAIN rows : rows'[i] = rows[i]
         /\ rows'[Len(rows) + 1].path = p /\ rows'[Len(rows) + 1].content = c
        <5>1. DOMAIN rows' = DOMAIN rows \cup {Len(rows) + 1} /\ Len(rows) + 1 \notin DOMAIN rows
          BY <4>2, <1>3 DEF IngestTypes
        <5>. QED  BY <5>1, <4>2, <2>1 DEF WholeRows, Of
      <4>. QED  BY <4>1, <4>2, <1>3 DEF RowWritten
    <3>3. \A i : Newest(q, i)' <=> Newest(q, i)
      BY <3>2 DEF Newest
    <3>. QED  BY <3>1, <3>2, <3>3 DEF NewestIsFetched, Newest
  <2>2. CASE q = p /\ c # NoContent
    <3>0. h \in Holding(q) /\ h.content = c
      BY <2>2, <1>5, <1>6
    <3>1. /\ c = fetched[q]
          /\ \A i \in WholeRows(q) : rows[i].content = c => Newest(q, i)
          /\ c # disk[q].content => \A i \in WholeRows(q) : rows[i].content # disk[q].content
      BY <3>0 DEF NewestIsFetched
    <3>2. \E r \in DOMAIN rows' : /\ Newest(q, r)' /\ rows'[r].content = c
                                  /\ \A i \in WholeRows(q)' \ {r} : i \in WholeRows(q)
                                       /\ rows'[i].content = rows[i].content /\ rows[i].content # c
      <4>1. CASE \E r \in Of(p) :
           /\ DOMAIN rows' = DOMAIN rows
           /\ \A i \in DOMAIN rows : rows'[i].path = rows[i].path
           /\ \A i \in DOMAIN rows \ {r} : rows'[i].content = rows[i].content
           /\ rows'[r].content = c
           /\ rows[r].content = c \/ (rows[r].content = NoContent /\ Same(p, c) = {})
        <5>1. PICK r \in Of(p) :
           /\ DOMAIN rows' = DOMAIN rows
           /\ \A i \in DOMAIN rows : rows'[i].path = rows[i].path
           /\ \A i \in DOMAIN rows \ {r} : rows'[i].content = rows[i].content
           /\ rows'[r].content = c
           /\ rows[r].content = c \/ (rows[r].content = NoContent /\ Same(p, c) = {})
          BY <4>1
        <5>2. r \in DOMAIN rows /\ rows[r].path = q
          BY <2>2 DEF Of
        <5>3. WholeRows(q)' = WholeRows(q) \cup {r}
          BY <5>1, <5>2, <2>2 DEF WholeRows, Of
        <5>4. \A i \in WholeRows(q) : i <= r
          <6>1. CASE rows[r].content = c
            BY <6>1, <5>2, <3>1, <2>2 DEF Newest, WholeRows, Of
          <6>2. CASE rows[r].content = NoContent
            BY <6>2, <5>2 DEF OneOfEach, WholeRows, Of
          <6>. QED  BY <6>1, <6>2, <5>1
        <5>5. r \in Nat
          BY <5>2 DEF IngestTypes
        <5>6. Newest(q, r)'
          BY <5>3, <5>4, <5>5 DEF Newest
        <5>7. \A i \in WholeRows(q) \ {r} : rows[i].content # c
          <6>1. CASE rows[r].content = c
            BY <6>1, <5>2 DEF OneOfEach, WholeRows, Of
          <6>2. CASE rows[r].content # c
            BY <6>2, <5>1, <2>2 DEF Same, WholeRows, Of
          <6>. QED  BY <6>1, <6>2
        <5>8. \A i \in WholeRows(q) : i \in DOMAIN rows
          BY DEF WholeRows, Of
        <5>. QED  BY <5>1, <5>2, <5>3, <5>6, <5>7, <5>8
      <4>2. CASE
         /\ Same(p, c) = {} /\ Same(p, NoContent) = {}
         /\ Len(rows') = Len(rows) + 1
         /\ \A i \in DOMAIN rows : rows'[i] = rows[i]
         /\ rows'[Len(rows) + 1].path = p /\ rows'[Len(rows) + 1].content = c
        <5>1. /\ DOMAIN rows' = DOMAIN rows \cup {Len(rows) + 1} /\ Len(rows) + 1 \notin DOMAIN rows
              /\ \A i \in DOMAIN rows : i <= Len(rows) + 1
              /\ Len(rows) + 1 \in Nat
          BY <4>2, <1>3 DEF IngestTypes
        <5>0. PICK r : r = Len(rows) + 1
          OBVIOUS
        <5>2. WholeRows(q)' = WholeRows(q) \cup {r} /\ WholeRows(q) \subseteq DOMAIN rows
          BY <5>0, <5>1, <4>2, <2>2 DEF WholeRows, Of
        <5>3. Newest(q, r)'
          BY <5>0, <5>1, <5>2 DEF Newest
        <5>4. \A i \in WholeRows(q) : rows[i].content # c
          BY <4>2, <2>2 DEF Same, WholeRows, Of
        <5>. QED  BY <5>0, <5>1, <5>2, <5>3, <5>4, <4>2
      <4>. QED  BY <4>1, <4>2, <1>3 DEF RowWritten
    <3>3. PICK r \in DOMAIN rows' : /\ Newest(q, r)' /\ rows'[r].content = c
                                    /\ \A i \in WholeRows(q)' \ {r} : i \in WholeRows(q)
                                       /\ rows'[i].content = rows[i].content /\ rows[i].content # c
      BY <3>2
    <3>4. ASSUME NEW i \in WholeRows(q)', rows'[i].content = disk[q].content PROVE i = r
      BY <3>4, <3>3, <3>1
    <3>. QED  BY <3>1, <3>3, <3>4
  <2>. QED  BY <2>1, <2>2
<1>8. NewestIsFetched'
  BY <1>1, <1>5, <1>7 DEF NewestIsFetched
<1>. QED  BY <1>3, <1>4, <1>8

(* Every step keeps the types.                                             *)
LEMMA IngestTypesKept == ASSUME IngestTypes, OneOfEach, NewestIsFetched, IngestNext PROVE IngestTypes'
<1>. USE DEF IngestTypes
<1>1. ASSUME NEW t \in Turns, NEW kind \in {"message.started", "message.completed"},
             Announced(kind, t)
      PROVE  boundaries' \in Seq(BoundaryType)
  <2>. DEFINE b == [kind |-> kind, turn |-> t]
  <2>1. b \in BoundaryType
    BY DEF BoundaryType
  <2>. HIDE DEF b
  <2>2. boundaries' = boundaries \/ boundaries' = Append(boundaries, b)
    BY <1>1 DEF Announced, b
  <2>. QED  BY <2>1, <2>2
<1>2. ASSUME NEW t \in Turns, TurnStarts(t) PROVE IngestTypes'
  <2>1. boundaries' \in Seq(BoundaryType)
    BY <1>1, <1>2 DEF TurnStarts
  <2>. QED  BY <2>1, <1>2 DEF TurnStarts, pipeline, Present
<1>3. ASSUME NEW t \in Turns, TurnEnds(t) PROVE IngestTypes'
  <2>1. boundaries' \in Seq(BoundaryType)
    BY <1>1, <1>3 DEF TurnEnds
  <2>. QED  BY <2>1, <1>3 DEF TurnEnds, pipeline, Present
<1>4. ASSUME NEW t \in Turns, ProjectDeleted(t) PROVE IngestTypes'
  BY <1>4 DEF ProjectDeleted, sandbox, diff, pipeline, seen, Present
<1>5. ASSUME NEW p \in Paths, NEW c \in Contents, Write(p, c) PROVE IngestTypes'
  <2>. DEFINE n == disk[p].writes + 1
              new == [content |-> c, writes |-> n]
  <2>1. disk[p].writes \in Nat
    BY DEF FileType, Absent
  <2>2. n \in Nat \ {0}
    BY <2>1
  <2>. HIDE DEF n
  <2>3. new \in FileType
    BY <2>2 DEF FileType
  <2>4. disk' = [disk EXCEPT ![p] = new]
    BY <1>5 DEF Write, n
  <2>. HIDE DEF new
  <2>5. disk' \in [Paths -> FileType \cup {Absent}]
    BY <2>3, <2>4
  <2>6. Present \subseteq Present'
    BY <2>3, <2>4, AbsentApart DEF Present
  <2>7. UNCHANGED <<turns, diff, pipeline, fetched>>
    BY <1>5 DEF Write
  <2>. QED  BY <2>5, <2>6, <2>7 DEF diff, pipeline
<1>6. ASSUME NEW p \in Paths, NEW t \in Turns \cup {NoTurn}, NEW by \in {"tool", "media", "promote", "diff"}
      PROVE  Job(p, t, by) \in JobType /\ Job(p, t, by).path = p
  BY DEF Job, JobType
<1>7. ASSUME NEW p \in Paths, NEW t \in Turns \cup {NoTurn}, NEW by \in {"tool", "media", "promote"},
             Asked(p, t, by)
      PROVE  IngestTypes'
  BY <1>6, <1>7 DEF Asked, sandbox, diff, seen, Present
<1>8. ASSUME NEW j \in jobs, NEW ok \in BOOLEAN, Fetch(j, ok) PROVE IngestTypes'
  <2>. DEFINE c == IF ok THEN disk[j.path].content ELSE NoContent
              h == [job |-> j, content |-> c]
  <2>1. j \in JobType /\ disk[j.path] \in FileType
    BY DEF Present, JobType
  <2>2. c \in AnyContent
    BY <2>1 DEF AnyContent, FileType
  <2>3. /\ lock = {} /\ lock' = {h} /\ jobs' \subseteq jobs
        /\ DOMAIN fetched' = DOMAIN fetched
    BY <1>8 DEF Fetch, Unlocked
  <2>. HIDE DEF c
  <2>4. h \in HoldType
    BY <2>1, <2>2 DEF HoldType
  <2>. HIDE DEF h
  <2>. QED  BY <2>3, <2>4, <1>8 DEF Fetch, sandbox, diff, Present
<1>9. ASSUME NEW h \in lock, Record(h) PROVE IngestTypes'
  BY <1>9, RecordKeeps DEF Record, sandbox, diff, seen, Present
<1>10. ASSUME NEW i \in DOMAIN rows, Untag(i) PROVE IngestTypes'
  <2>. DEFINE new == [rows[i] EXCEPT !.tagged = FALSE]
  <2>0. rows[i] \in RowType
    OBVIOUS
  <2>1. new \in RowType
    BY <2>0 DEF RowType
  <2>2. rows' = [rows EXCEPT ![i] = new]
    BY <1>10 DEF Untag
  <2>. HIDE DEF new
  <2>3. rows' \in Seq(RowType)
    BY <2>1, <2>2
  <2>. QED  BY <2>3, <1>10 DEF Untag, sandbox, diff, seen, Present
<1>11. ASSUME Desynchronized PROVE IngestTypes'
  BY <1>11 DEF Desynchronized, sandbox, pipeline, Present
<1>12. ASSUME Resubscribe PROVE IngestTypes'
  BY <1>12 DEF Resubscribe, sandbox, pipeline, seen, Present
<1>13. ASSUME Observe PROVE IngestTypes'
  <2>1. Head(boundaries) \in BoundaryType /\ boundaries' \in Seq(BoundaryType)
    BY <1>13 DEF Observe
  <2>. DEFINE b == Head(boundaries)
              d == [turn |-> b.turn, first |-> <<"none">>, todo |-> {}]
  <2>2. b.turn \in Turns /\ DOMAIN d = {"turn", "first", "todo"} /\ d.turn = b.turn /\ d.todo = {}
    BY <2>1 DEF BoundaryType
  <2>3. \/ starting' = starting \cup {b.turn} /\ finishing' = finishing
        \/ starting' = starting /\ finishing' = finishing \cup {d}
    BY <1>13 DEF Observe
  <2>4. UNCHANGED <<sandbox, before, pipeline, fetched>>
    BY <1>13 DEF Observe, seen
  <2>. HIDE DEF b, d
  <2>. QED  BY <2>1, <2>2, <2>3, <2>4 DEF sandbox, pipeline, Present
<1>14. ASSUME NEW t \in Turns, NEW answer \in Answers, Started(t, answer) PROVE IngestTypes'
  BY <1>14 DEF Started, sandbox, pipeline, Present
<1>15. ASSUME NEW d \in finishing, NEW first PROVE
          LET new == [d EXCEPT !.first = first]
          IN DOMAIN new = {"turn", "first", "todo"} /\ new.turn = d.turn /\ new.todo = d.todo
             /\ new.first = first
  OBVIOUS
<1>16. ASSUME NEW d \in finishing, Completed(d) PROVE IngestTypes'
  <2>. DEFINE new == [d EXCEPT !.first = before[d.turn]]
  <2>1. DOMAIN new = {"turn", "first", "todo"} /\ new.turn = d.turn /\ new.todo = d.todo
    BY <1>15
  <2>2. finishing' \subseteq finishing \cup {new} /\ DOMAIN before' = Turns
    BY <1>16 DEF Completed
  <2>. HIDE DEF new
  <2>. QED  BY <2>1, <2>2, <1>16 DEF Completed, sandbox, pipeline, Present
<1>17. ASSUME NEW d \in finishing, DiffEnds(d) PROVE IngestTypes'
  BY <1>17 DEF DiffEnds, sandbox, pipeline, seen, Present
<1>18. ASSUME NEW d \in finishing, NEW answer \in Answers, Compared(d, answer) PROVE IngestTypes'
  <2>. DEFINE second == Listing(answer)
              todo == {p \in NewOrChanged(d.first[2], second[2]) : ~Denies(p)}
              first == <<"compared", second[2], d.first[2]>>
              new == [turn |-> d.turn, first |-> first, todo |-> todo]
  <2>1. finishing' \subseteq finishing \cup {new} /\ (Len(second) # 1 \/ finishing' \subseteq finishing)
    BY <1>18 DEF Compared
  <2>2. CASE answer = "none"
    <3>1. Len(second) = 1
      BY <2>2 DEF Listing
    <3>. QED  BY <3>1, <2>1, <1>18 DEF Compared, sandbox, pipeline, Present
  <2>3. CASE answer # "none"
    <3>1. second[2] = [p \in Paths |-> IF answer # "all" /\ p \in Nested THEN Absent ELSE disk[p]]
      BY <2>3 DEF Listing
    <3>2. todo \subseteq Present
      BY <3>1 DEF NewOrChanged, Present
    <3>3. DOMAIN new = {"turn", "first", "todo"} /\ new.turn = d.turn /\ new.todo = todo
      OBVIOUS
    <3>. HIDE DEF new, todo
    <3>. QED  BY <2>1, <3>2, <3>3, <1>18 DEF Compared, sandbox, pipeline, Present
  <2>. QED  BY <2>2, <2>3
<1>19. ASSUME NEW d \in finishing, NEW p \in Paths, IngestOne(d, p) PROVE IngestTypes'
  <2>. DEFINE todo == d.todo \ {p}
              new == [d EXCEPT !.todo = todo]
  <2>1. DOMAIN new = {"turn", "first", "todo"} /\ new.turn = d.turn /\ new.todo = todo
    OBVIOUS
  <2>2. finishing' = (finishing \ {d}) \cup {new} /\ p \in Present
        /\ jobs' = jobs \cup {Job(p, d.turn, "diff")}
    BY <1>19 DEF IngestOne
  <2>3. Job(p, d.turn, "diff") \in JobType /\ Job(p, d.turn, "diff").path = p
    BY <1>6
  <2>. HIDE DEF new
  <2>. QED  BY <2>1, <2>2, <2>3, <1>19 DEF IngestOne, sandbox, seen, Present
<1>20. ASSUME NEW p \in Paths, NEW t \in Turns, ToolCompletes(p, t) \/ MessageNames(p, t) PROVE IngestTypes'
  BY <1>7, <1>20 DEF ToolCompletes, MessageNames
<1>21. ASSUME NEW p \in Paths, Promote(p) PROVE IngestTypes'
  BY <1>7, <1>21 DEF Promote
<1>. QED
  BY <1>2, <1>3, <1>4, <1>5, <1>8, <1>9, <1>10, <1>11, <1>12, <1>13, <1>14, <1>16, <1>17, <1>18,
     <1>19, <1>20, <1>21 DEF IngestNext

(* Every step keeps the invariant ...                                      *)
LEMMA IngestStep == ASSUME IngestIInv, [IngestNext]_ingestVars PROVE IngestIInv'
<1>. USE DEF IngestIInv
<1>1. ASSUME UNCHANGED <<rows, lock, fetched, reverted, disk>> PROVE OneOfEach' /\ NewestIsFetched'
  BY <1>1, VersionsFrame
<1>2. ASSUME NEW i \in DOMAIN rows, Untag(i) PROVE OneOfEach' /\ NewestIsFetched'
  <2>. DEFINE new == [rows[i] EXCEPT !.tagged = FALSE]
  <2>1. new.path = rows[i].path /\ new.content = rows[i].content
    BY DEF IngestTypes, RowType
  <2>2. rows' = [rows EXCEPT ![i] = new]
    BY <1>2 DEF Untag
  <2>. HIDE DEF new
  <2>3. DOMAIN rows' = DOMAIN rows
        /\ \A k \in DOMAIN rows : rows'[k].path = rows[k].path /\ rows'[k].content = rows[k].content
    BY <2>1, <2>2
  <2>. QED  BY <2>3, <1>2, VersionsFrame DEF Untag, sandbox, seen
<1>3. ASSUME IngestNext PROVE OneOfEach' /\ NewestIsFetched'
  <2>. USE DEF sandbox, diff, pipeline, seen
  <2>1. CASE \E t \in Turns : TurnStarts(t) \/ TurnEnds(t) \/ ProjectDeleted(t)
    BY <2>1, <1>1 DEF TurnStarts, TurnEnds, ProjectDeleted
  <2>2. CASE \E p \in Paths, t \in Turns : ToolCompletes(p, t) \/ MessageNames(p, t)
    BY <2>2, <1>1 DEF ToolCompletes, MessageNames, Asked
  <2>3. CASE \E p \in Paths : Promote(p)
    BY <2>3, <1>1 DEF Promote, Asked
  <2>4. CASE Desynchronized \/ Resubscribe \/ Observe
    BY <2>4, <1>1 DEF Desynchronized, Resubscribe, Observe
  <2>5. CASE \E t \in Turns, answer \in Answers : Started(t, answer)
    BY <2>5, <1>1 DEF Started
  <2>6. CASE \E d \in finishing :
       \/ Completed(d) \/ DiffEnds(d)
       \/ \E answer \in Answers : Compared(d, answer)
       \/ \E p \in Paths : IngestOne(d, p)
    BY <2>6, <1>1 DEF Completed, DiffEnds, Compared, IngestOne
  <2>. QED  BY <1>2, <1>3, <2>1, <2>2, <2>3, <2>4, <2>5, <2>6, WriteKeeps, FetchKeeps, RecordKeeps
            DEF IngestNext
<1>4. CASE UNCHANGED ingestVars
  <2>1. OneOfEach' /\ NewestIsFetched'
    BY <1>1, <1>4 DEF ingestVars, sandbox, pipeline, seen
  <2>2. IngestTypes'
    BY <1>4 DEF ingestVars, sandbox, pipeline, diff, seen, IngestTypes, Present
  <2>. QED  BY <2>1, <2>2
<1>. QED  BY <1>3, <1>4, IngestTypesKept

(* ... which holds at the start.                                           *)
LEMMA IngestStarts == ASSUME IngestInit PROVE IngestIInv
<1>1. IngestTypes
  BY DEF IngestInit, IngestTypes
<1>2. \A p : Of(p) = {} /\ WholeRows(p) = {} /\ Holding(p) = {}
  BY DEF IngestInit, Of, WholeRows, Holding
<1>3. OneOfEach
  BY DEF IngestInit, OneOfEach
<1>4. NewestIsFetched
  BY <1>2 DEF NewestIsFetched
<1>. QED  BY <1>1, <1>3, <1>4 DEF IngestIInv

(* For any paths, contents, turns and bounds, whoever asks for a file, in  *)
(* whatever order fetches, failures and rows come: of each version there   *)
(* is one artifact, one at most waits for its bytes, and the newest has    *)
(* what was fetched last, unless the file went back to an earlier version  *)
(* (ArtifactIngestor.ingest, _write_success_row, _write_failure_row).      *)
THEOREM VersionsAreArtifacts == IngestSpec => []ArtifactsAreVersions
<1>1. ASSUME IngestIInv PROVE ArtifactsAreVersions
  <2>1. ASSUME NEW p \in Paths \ reverted, WholeRows(p) # {}, p \notin {h.job.path : h \in lock}
        PROVE  rows[NewestOf(WholeRows(p))].content = fetched[p]
    <3>1. Holding(p) = {}
      BY <2>1 DEF Holding
    <3>2. PICK m \in DOMAIN rows : Newest(p, m) /\ rows[m].content = fetched[p]
      BY <3>1, <2>1, <1>1 DEF IngestIInv, NewestIsFetched
    <3>3. \A i, j \in WholeRows(p) : i <= j /\ j <= i => i = j
      BY <1>1 DEF IngestIInv, IngestTypes, WholeRows, Of
    <3>4. NewestOf(WholeRows(p)) = m
      BY <3>2, <3>3 DEF NewestOf, Newest
    <3>. QED  BY <3>2, <3>4
  <2>. QED  BY <2>1, <1>1 DEF ArtifactsAreVersions, IngestIInv, OneOfEach, WholeRows
<1>. QED  BY <1>1, IngestStarts, IngestStep, PTL DEF IngestSpec

-----------------------------------------------------------------------------
(* The diff of a turn.                                                     *)

Opens(i, t) == boundaries[i].kind = "message.started" /\ boundaries[i].turn = t
Closes(i, t) == boundaries[i].kind = "message.completed" /\ boundaries[i].turn = t
Waits(d) == d.first = <<"none">>

(* There is a first listing of the turn, or one under way.                 *)
FirstDue(t) == t \in starting \/ before[t] # <<"none">>

(* Of each turn the end is announced once, after its beginning.            *)
BoundariesInOrder ==
  \A t \in Turns :
    /\ turns[t] # "over" => \A i \in DOMAIN boundaries : ~Closes(i, t)
    /\ turns[t] # "over" => \A d \in finishing : d.turn = t => ~Waits(d)
    /\ \A i, j \in DOMAIN boundaries : Closes(i, t) /\ Closes(j, t) => i = j
    /\ \A i \in DOMAIN boundaries, d \in finishing : ~(Closes(i, t) /\ d.turn = t /\ Waits(d))
    /\ \A d, e \in finishing : d.turn = t /\ e.turn = t /\ Waits(d) /\ Waits(e) => d = e

(* An end that is still to be compared has a beginning.                    *)
EndsHaveBeginnings ==
  \A t \in Turns \ (evicted \cup unheard) :
    /\ turns[t] = "running" => FirstDue(t) \/ \E i \in DOMAIN boundaries : Opens(i, t)
    /\ \A i \in DOMAIN boundaries : Closes(i, t) =>
         FirstDue(t) \/ \E j \in DOMAIN boundaries : j < i /\ Opens(j, t)
    /\ \A d \in finishing : d.turn = t /\ Waits(d) => FirstDue(t)

BoundariesIInv == BoundariesInOrder /\ EndsHaveBeginnings /\ skipped \subseteq evicted \cup unheard

(* A boundary is appended, or its turn is marked as unheard.               *)
LEMMA AnnouncedIs ==
  ASSUME IngestTypes, NEW t \in Turns, NEW kind \in {"message.started", "message.completed"},
         Announced(kind, t), BoundariesIInv
  PROVE  \/ unheard' = unheard \cup {t} /\ boundaries' = boundaries
         \/ /\ unheard' = unheard /\ DOMAIN boundaries' = DOMAIN boundaries \cup {Len(boundaries) + 1}
            /\ \A i \in DOMAIN boundaries : boundaries'[i] = boundaries[i] /\ i < Len(boundaries) + 1
            /\ boundaries'[Len(boundaries) + 1].kind = kind
            /\ boundaries'[Len(boundaries) + 1].turn = t
            /\ Len(boundaries) + 1 \notin DOMAIN boundaries
<1>. DEFINE b == [kind |-> kind, turn |-> t]
<1>1. b \in BoundaryType /\ b.kind = kind /\ b.turn = t
  BY DEF BoundaryType
<1>. HIDE DEF b
<1>2. \/ unheard' = unheard \cup {t} /\ boundaries' = boundaries
      \/ unheard' = unheard /\ boundaries' = Append(boundaries, b)
  BY DEF Announced, b
<1>3. boundaries \in Seq(BoundaryType)
  BY DEF IngestTypes
<1>4. ASSUME boundaries' = Append(boundaries, b)
      PROVE  /\ DOMAIN boundaries' = DOMAIN boundaries \cup {Len(boundaries) + 1}
             /\ \A i \in DOMAIN boundaries : boundaries'[i] = boundaries[i] /\ i < Len(boundaries) + 1
             /\ boundaries'[Len(boundaries) + 1] = b
             /\ Len(boundaries) + 1 \notin DOMAIN boundaries
  BY <1>1, <1>3, <1>4
<1>. QED  BY <1>1, <1>2, <1>4

(* The beginning of a turn is announced ...                                *)
LEMMA TurnStartsKeeps ==
  ASSUME IngestTypes, BoundariesIInv, NEW t \in Turns, TurnStarts(t)
  PROVE  BoundariesIInv'
<1>1. /\ turns[t] = "fresh" /\ Announced("message.started", t)
      /\ turns' = [turns EXCEPT ![t] = "running"]
      /\ UNCHANGED <<starting, before, finishing, evicted, skipped>>
  BY DEF TurnStarts
<1>2. turns'[t] = "running" /\ \A u \in Turns \ {t} : turns'[u] = turns[u]
  BY <1>1 DEF IngestTypes
<1>3. CASE unheard' = unheard \cup {t} /\ boundaries' = boundaries
  BY <1>1, <1>2, <1>3 DEF BoundariesIInv, BoundariesInOrder, EndsHaveBeginnings, Opens, Closes,
       FirstDue, Waits
<1>4. CASE /\ unheard' = unheard /\ DOMAIN boundaries' = DOMAIN boundaries \cup {Len(boundaries) + 1}
           /\ \A i \in DOMAIN boundaries : boundaries'[i] = boundaries[i] /\ i < Len(boundaries) + 1
           /\ boundaries'[Len(boundaries) + 1].kind = "message.started"
           /\ boundaries'[Len(boundaries) + 1].turn = t
           /\ Len(boundaries) + 1 \notin DOMAIN boundaries
  <2>1. BoundariesInOrder'
    BY <1>1, <1>2, <1>4 DEF BoundariesIInv, BoundariesInOrder, Closes, Waits
  <2>2. EndsHaveBeginnings'
    BY <1>1, <1>2, <1>4 DEF BoundariesIInv, EndsHaveBeginnings, Opens, Closes, Waits, FirstDue
  <2>. QED  BY <2>1, <2>2, <1>1, <1>4 DEF BoundariesIInv
<1>. QED  BY <1>1, <1>3, <1>4, AnnouncedIs

(* ... then its end ...                                                    *)
LEMMA TurnEndsKeeps ==
  ASSUME IngestTypes, BoundariesIInv, NEW t \in Turns, TurnEnds(t)
  PROVE  BoundariesIInv'
<1>1. /\ turns[t] = "running" /\ Announced("message.completed", t)
      /\ turns' = [turns EXCEPT ![t] = "over"]
      /\ UNCHANGED <<starting, before, finishing, evicted, skipped>>
  BY DEF TurnEnds
<1>2. turns'[t] = "over" /\ \A u \in Turns \ {t} : turns'[u] = turns[u]
  BY <1>1 DEF IngestTypes
<1>3. CASE unheard' = unheard \cup {t} /\ boundaries' = boundaries
  BY <1>1, <1>2, <1>3 DEF BoundariesIInv, BoundariesInOrder, EndsHaveBeginnings, Opens, Closes,
       FirstDue, Waits
<1>4. CASE /\ unheard' = unheard /\ DOMAIN boundaries' = DOMAIN boundaries \cup {Len(boundaries) + 1}
           /\ \A i \in DOMAIN boundaries : boundaries'[i] = boundaries[i] /\ i < Len(boundaries) + 1
           /\ boundaries'[Len(boundaries) + 1].kind = "message.completed"
           /\ boundaries'[Len(boundaries) + 1].turn = t
           /\ Len(boundaries) + 1 \notin DOMAIN boundaries
  <2>1. BoundariesInOrder'
    BY <1>1, <1>2, <1>4 DEF BoundariesIInv, BoundariesInOrder, Closes, Waits
  <2>2. EndsHaveBeginnings'
    BY <1>1, <1>2, <1>4 DEF BoundariesIInv, EndsHaveBeginnings, Opens, Closes, Waits, FirstDue
  <2>. QED  BY <2>1, <2>2, <1>1, <1>4 DEF BoundariesIInv
<1>. QED  BY <1>1, <1>3, <1>4, AnnouncedIs

(* ... or both are lost with the subscription ...                          *)
LEMMA DesynchronizedKeeps ==
  ASSUME IngestTypes, BoundariesIInv, Desynchronized
  PROVE  BoundariesIInv'
<1>1. /\ boundaries' = <<>> /\ unheard' = unheard \cup {b.turn : b \in Range(boundaries)}
      /\ UNCHANGED <<turns, starting, before, finishing, evicted, skipped>>
  BY DEF Desynchronized, sandbox
<1>2. \A i \in DOMAIN boundaries, t \in Turns : Opens(i, t) => t \in unheard'
  BY <1>1 DEF Range, Opens
<1>3. DOMAIN boundaries' = {}
  BY <1>1
<1>4. BoundariesInOrder'
  BY <1>1, <1>3 DEF BoundariesIInv, BoundariesInOrder, Waits
<1>5. EndsHaveBeginnings'
  BY <1>1, <1>2, <1>3 DEF BoundariesIInv, EndsHaveBeginnings, FirstDue, Waits
<1>. QED  BY <1>1, <1>4, <1>5 DEF BoundariesIInv

(* ... and each that is read becomes a task, in order.                     *)
LEMMA ObserveKeeps ==
  ASSUME IngestTypes, BoundariesIInv, Observe
  PROVE  BoundariesIInv'
<1>. DEFINE b == boundaries[1]
            d == [turn |-> b.turn, first |-> <<"none">>, todo |-> {}]
<1>1. /\ boundaries \in Seq(BoundaryType) /\ boundaries # <<>> /\ boundaries' = Tail(boundaries)
      /\ UNCHANGED <<turns, before, evicted, skipped, unheard>>
      /\ IF b.kind = "message.started"
         THEN starting' = starting \cup {b.turn} /\ finishing' = finishing
         ELSE finishing' = finishing \cup {d} /\ starting' = starting
  BY DEF Observe, IngestTypes, sandbox, seen
<1>2. /\ \A i \in DOMAIN boundaries' : i + 1 \in DOMAIN boundaries /\ boundaries'[i] = boundaries[i + 1]
                                       /\ i \in Nat /\ i >= 1
      /\ \A i \in DOMAIN boundaries : i # 1 =>
           i - 1 \in DOMAIN boundaries' /\ boundaries'[i - 1] = boundaries[i] /\ i \in Nat
      /\ 1 \in DOMAIN boundaries /\ b \in BoundaryType
      /\ \A i \in DOMAIN boundaries : i >= 1
  BY <1>1
<1>3. d.turn = b.turn /\ d.first = <<"none">>
  OBVIOUS
<1>. HIDE DEF d
<1>4. \A i \in DOMAIN boundaries', t \in Turns :
        /\ Opens(i, t)' <=> Opens(i + 1, t)
        /\ Closes(i, t)' <=> Closes(i + 1, t)
  BY <1>2 DEF Opens, Closes
<1>5. CASE b.kind = "message.started"
  <2>1. BoundariesInOrder'
    BY <1>1, <1>2, <1>4, <1>5 DEF BoundariesIInv, BoundariesInOrder, Waits
  <2>2. EndsHaveBeginnings'
    <3>. SUFFICES ASSUME NEW t \in Turns \ (evicted \cup unheard)
         PROVE  /\ turns[t] = "running" => FirstDue(t)' \/ \E i \in DOMAIN boundaries' : Opens(i, t)'
                /\ \A i \in DOMAIN boundaries' : Closes(i, t)' =>
                     FirstDue(t)' \/ \E j \in DOMAIN boundaries' : j < i /\ Opens(j, t)'
                /\ \A e \in finishing : e.turn = t /\ Waits(e) => FirstDue(t)'
      BY <1>1, <1>5 DEF EndsHaveBeginnings, Waits
    <3>1. CASE b.turn = t
      BY <3>1, <1>1, <1>5 DEF FirstDue
    <3>2. CASE b.turn # t
      <4>1. ~Opens(1, t) /\ (FirstDue(t) => FirstDue(t)')
        BY <3>2, <1>1 DEF Opens, FirstDue
      <4>2. ASSUME NEW i \in DOMAIN boundaries, Opens(i, t)
            PROVE  i - 1 \in DOMAIN boundaries' /\ Opens(i - 1, t)'
        BY <4>1, <4>2, <1>2 DEF Opens
      <4>3. turns[t] = "running" => FirstDue(t)' \/ \E i \in DOMAIN boundaries' : Opens(i, t)'
        BY <4>1, <4>2 DEF BoundariesIInv, EndsHaveBeginnings
      <4>4. ASSUME NEW i \in DOMAIN boundaries', Closes(i, t)'
            PROVE  FirstDue(t)' \/ \E j \in DOMAIN boundaries' : j < i /\ Opens(j, t)'
        <5>1. FirstDue(t) \/ \E j \in DOMAIN boundaries : j < i + 1 /\ Opens(j, t)
          BY <4>4, <1>2, <1>4 DEF BoundariesIInv, EndsHaveBeginnings
        <5>2. \A j \in DOMAIN boundaries : (j < i + 1 /\ Opens(j, t)) =>
                 (j - 1 < i /\ j - 1 \in DOMAIN boundaries' /\ Opens(j - 1, t)')
          BY <4>1, <4>2, <1>2
        <5>. QED  BY <5>1, <5>2, <4>1
      <4>. QED  BY <4>1, <4>3, <4>4 DEF BoundariesIInv, EndsHaveBeginnings
    <3>. QED  BY <3>1, <3>2
  <2>. QED  BY <1>1, <2>1, <2>2 DEF BoundariesIInv
<1>6. CASE b.kind # "message.started"
  <2>1. Closes(1, b.turn) /\ \A t : ~Opens(1, t)
    BY <1>2, <1>6 DEF Closes, Opens, BoundaryType
  <2>2. b.turn \in Turns
    BY <1>2 DEF BoundaryType
  <2>3. \A i \in DOMAIN boundaries' : ~Closes(i + 1, b.turn)
    BY <2>1, <2>2, <1>2 DEF BoundariesIInv, BoundariesInOrder
  <2>4. ASSUME NEW e \in finishing, e.turn = b.turn PROVE ~Waits(e)
    <3>1. \A i \in DOMAIN boundaries : ~(Closes(i, b.turn) /\ e.turn = b.turn /\ Waits(e))
      BY <2>2 DEF BoundariesIInv, BoundariesInOrder
    <3>. QED  BY <3>1, <2>1, <2>4, <1>2
  <2>5. turns[b.turn] = "over"
    <3>. SUFFICES ASSUME turns[b.turn] # "over" PROVE FALSE
      OBVIOUS
    <3>1. \A i \in DOMAIN boundaries : ~Closes(i, b.turn)
      BY <2>2 DEF BoundariesIInv, BoundariesInOrder
    <3>. QED  BY <3>1, <2>1, <1>2
  <2>6. BoundariesInOrder'
    <3>. SUFFICES ASSUME NEW t \in Turns
         PROVE
            /\ turns[t] # "over" => \A i \in DOMAIN boundaries' : ~Closes(i, t)'
            /\ turns[t] # "over" => \A e \in finishing' : e.turn = t => ~Waits(e)
            /\ \A i, j \in DOMAIN boundaries' : Closes(i, t)' /\ Closes(j, t)' => i = j
            /\ \A i \in DOMAIN boundaries', e \in finishing' : ~(Closes(i, t)' /\ e.turn = t /\ Waits(e))
            /\ \A c, e \in finishing' : c.turn = t /\ e.turn = t /\ Waits(c) /\ Waits(e) => c = e
      BY <1>1 DEF BoundariesInOrder, Waits
    <3>1. finishing' = finishing \cup {d}
      BY <1>1, <1>6
    <3>2. \A i, j \in DOMAIN boundaries' : Closes(i, t)' /\ Closes(j, t)' => i = j
      <4>1. \A i, j \in DOMAIN boundaries' : Closes(i, t)' /\ Closes(j, t)' => i + 1 = j + 1
        BY <1>2, <1>4 DEF BoundariesIInv, BoundariesInOrder
      <4>. QED  BY <4>1, <1>2
    <3>3. \A i \in DOMAIN boundaries', e \in finishing' : ~(Closes(i, t)' /\ e.turn = t /\ Waits(e))
      BY <3>1, <1>2, <1>3, <1>4, <2>3 DEF BoundariesIInv, BoundariesInOrder
    <3>4. turns[t] # "over" => \A i \in DOMAIN boundaries' : ~Closes(i, t)'
      BY <1>2, <1>4 DEF BoundariesIInv, BoundariesInOrder
    <3>5. turns[t] # "over" => \A e \in finishing' : e.turn = t => ~Waits(e)
      BY <3>1, <1>3, <2>5 DEF BoundariesIInv, BoundariesInOrder
    <3>6. \A c, e \in finishing' : c.turn = t /\ e.turn = t /\ Waits(c) /\ Waits(e) => c = e
      BY <3>1, <1>3, <2>4 DEF BoundariesIInv, BoundariesInOrder
    <3>. QED  BY <3>2, <3>3, <3>4, <3>5, <3>6
  <2>7. EndsHaveBeginnings'
    <3>. SUFFICES ASSUME NEW t \in Turns \ (evicted \cup unheard)
         PROVE  /\ turns[t] = "running" => FirstDue(t) \/ \E i \in DOMAIN boundaries' : Opens(i, t)'
                /\ \A i \in DOMAIN boundaries' : Closes(i, t)' =>
                     FirstDue(t) \/ \E j \in DOMAIN boundaries' : j < i /\ Opens(j, t)'
                /\ \A e \in finishing' : e.turn = t /\ Waits(e) => FirstDue(t)
      BY <1>1, <1>6 DEF EndsHaveBeginnings, Waits, FirstDue
    <3>2. ASSUME NEW i \in DOMAIN boundaries, Opens(i, t)
          PROVE  i - 1 \in DOMAIN boundaries' /\ Opens(i - 1, t)'
      BY <2>1, <3>2, <1>2 DEF Opens
    <3>3. turns[t] = "running" => FirstDue(t) \/ \E i \in DOMAIN boundaries' : Opens(i, t)'
      BY <3>2 DEF BoundariesIInv, EndsHaveBeginnings
    <3>4. ASSUME NEW i \in DOMAIN boundaries', Closes(i, t)'
          PROVE  FirstDue(t) \/ \E j \in DOMAIN boundaries' : j < i /\ Opens(j, t)'
      <4>1. FirstDue(t) \/ \E j \in DOMAIN boundaries : j < i + 1 /\ Opens(j, t)
        BY <3>4, <1>2, <1>4 DEF BoundariesIInv, EndsHaveBeginnings
      <4>2. \A j \in DOMAIN boundaries : (j < i + 1 /\ Opens(j, t)) =>
               (j - 1 < i /\ j - 1 \in DOMAIN boundaries' /\ Opens(j - 1, t)')
        BY <3>2, <1>2, <2>1
      <4>. QED  BY <4>1, <4>2
    <3>5. ASSUME NEW e \in finishing', e.turn = t, Waits(e) PROVE FirstDue(t)
      <4>1. CASE e \in finishing
        BY <4>1, <3>5 DEF BoundariesIInv, EndsHaveBeginnings
      <4>2. CASE e = d
        <5>1. Closes(1, t)
          BY <4>2, <3>5, <1>3, <2>1
        <5>. QED  BY <5>1, <1>2 DEF BoundariesIInv, EndsHaveBeginnings
      <4>. QED  BY <4>1, <4>2, <1>1, <1>6
    <3>. QED  BY <3>3, <3>4, <3>5
  <2>. QED  BY <1>1, <2>6, <2>7 DEF BoundariesIInv
<1>. QED  BY <1>5, <1>6

(* The first listing is taken; the oldest is evicted.                      *)
LEMMA StartedKeeps ==
  ASSUME IngestTypes, BoundariesIInv, NEW t \in Turns, NEW answer \in Answers, Started(t, answer)
  PROVE  BoundariesIInv'
<1>. DEFINE all == Append(order, t)
            out == IF Len(all) > MaxPending THEN {Head(all)} ELSE {}
            now == Listing(answer)
<1>1. /\ starting' = starting \ {t}
      /\ before' = [u \in Turns |-> IF u \in out THEN <<"none">>
                                    ELSE IF u = t THEN now ELSE before[u]]
      /\ evicted' = evicted \cup out
      /\ UNCHANGED <<turns, boundaries, finishing, skipped, unheard>>
  BY DEF Started, sandbox
<1>2. now # <<"none">>
  BY DEF Listing
<1>. HIDE DEF out, now
<1>3. \A u \in Turns \ evicted' : FirstDue(u) => FirstDue(u)'
  BY <1>1, <1>2 DEF FirstDue
<1>4. EndsHaveBeginnings'
  BY <1>1, <1>3 DEF BoundariesIInv, EndsHaveBeginnings, Opens, Closes, Waits
<1>5. BoundariesInOrder'
  BY <1>1 DEF BoundariesIInv, BoundariesInOrder, Closes, Waits
<1>. QED  BY <1>1, <1>4, <1>5 DEF BoundariesIInv

(* The end finds its first listing, unless it was evicted or unheard.      *)
LEMMA CompletedKeeps ==
  ASSUME IngestTypes, BoundariesIInv, NEW d \in finishing, Completed(d)
  PROVE  BoundariesIInv'
<1>. DEFINE t == d.turn
            had == before[t]
            new == [d EXCEPT !.first = had]
<1>1. /\ t \in Turns /\ Waits(d) /\ t \notin starting
      /\ before' = [before EXCEPT ![t] = <<"none">>]
      /\ skipped' = IF had = <<"none">> THEN skipped \cup {t} ELSE skipped
      /\ finishing' = (finishing \ {d}) \cup (IF Len(had) = 2 THEN {new} ELSE {})
      /\ UNCHANGED <<turns, boundaries, starting, evicted, unheard>>
  BY DEF Completed, MayFinish, Waits, IngestTypes, sandbox
<1>2. Len(had) = 2 => ~Waits(new)
  <2>1. new.first = had
    BY DEF IngestTypes
  <2>. QED  BY <2>1 DEF Waits
<1>. HIDE DEF new
<1>3. \A e \in finishing' : Waits(e) => e \in finishing /\ e # d
  BY <1>1, <1>2
<1>4. \A u \in Turns \ {t} : FirstDue(u) => FirstDue(u)'
  BY <1>1 DEF FirstDue, IngestTypes
<1>. HIDE DEF t
<1>5. /\ turns[t] = "over" /\ \A i \in DOMAIN boundaries : ~Closes(i, t)
      /\ \A e \in finishing' : Waits(e) => e.turn # t
  BY <1>1, <1>3 DEF BoundariesIInv, BoundariesInOrder, t
<1>6. BoundariesInOrder'
  BY <1>1, <1>3 DEF BoundariesIInv, BoundariesInOrder, Closes, Waits
<1>7. EndsHaveBeginnings'
  BY <1>1, <1>3, <1>4, <1>5 DEF BoundariesIInv, EndsHaveBeginnings, Opens, Closes, Waits
<1>8. had = <<"none">> => t \in evicted \cup unheard
  BY <1>1 DEF BoundariesIInv, EndsHaveBeginnings, FirstDue, t
<1>. QED  BY <1>1, <1>6, <1>7, <1>8 DEF BoundariesIInv

(* Steps that only touch what no longer waits for its turn.                *)
LEMMA BoundariesFrame ==
  ASSUME BoundariesIInv, UNCHANGED <<turns, boundaries, starting, before, skipped, evicted, unheard>>,
         \A e \in finishing' : Waits(e) => e \in finishing
  PROVE  BoundariesIInv'
<1>1. BoundariesInOrder'
  BY DEF BoundariesIInv, BoundariesInOrder, Closes, Waits
<1>2. EndsHaveBeginnings'
  BY DEF BoundariesIInv, EndsHaveBeginnings, Opens, Closes, Waits, FirstDue
<1>. QED  BY <1>1, <1>2 DEF BoundariesIInv

(* Every step keeps it.                                                    *)
LEMMA BoundariesStep ==
  ASSUME IngestTypes, BoundariesIInv, [IngestNext]_ingestVars
  PROVE  BoundariesIInv'
<1>. USE DEF sandbox, diff, pipeline, seen
<1>1. CASE \E t \in Turns : TurnStarts(t) \/ TurnEnds(t) \/ ProjectDeleted(t)
  BY <1>1, TurnStartsKeeps, TurnEndsKeeps, BoundariesFrame DEF ProjectDeleted
<1>2. CASE \E p \in Paths, c \in Contents : Write(p, c)
  BY <1>2, BoundariesFrame DEF Write
<1>3. CASE \E p \in Paths, t \in Turns : ToolCompletes(p, t) \/ MessageNames(p, t)
  BY <1>3, BoundariesFrame DEF ToolCompletes, MessageNames, Asked
<1>4. CASE \E p \in Paths : Promote(p)
  BY <1>4, BoundariesFrame DEF Promote, Asked
<1>5. CASE \E j \in jobs, ok \in BOOLEAN : Fetch(j, ok)
  BY <1>5, BoundariesFrame DEF Fetch
<1>6. CASE \E h \in lock : Record(h)
  BY <1>6, BoundariesFrame DEF Record
<1>7. CASE \E i \in DOMAIN rows : Untag(i)
  BY <1>7, BoundariesFrame DEF Untag
<1>8. CASE Resubscribe
  BY <1>8, BoundariesFrame DEF Resubscribe
<1>9. ASSUME NEW d \in finishing, DiffEnds(d) PROVE BoundariesIInv'
  BY <1>9, BoundariesFrame DEF DiffEnds
<1>10. ASSUME NEW d \in finishing, NEW answer \in Answers, Compared(d, answer) PROVE BoundariesIInv'
  <2>. DEFINE second == Listing(answer)
              todo == {p \in NewOrChanged(d.first[2], second[2]) : ~Denies(p)}
              first == <<"compared", second[2], d.first[2]>>
              new == [turn |-> d.turn, first |-> first, todo |-> todo]
  <2>1. finishing' \subseteq finishing \cup {new}
    BY <1>10 DEF Compared
  <2>2. new.first = first /\ first # <<"none">>
    OBVIOUS
  <2>. HIDE DEF new
  <2>3. \A e \in finishing' : Waits(e) => e \in finishing
    BY <2>1, <2>2 DEF Waits
  <2>. QED  BY <2>3, <1>10, BoundariesFrame DEF Compared
<1>11. ASSUME NEW d \in finishing, NEW p \in Paths, IngestOne(d, p) PROVE BoundariesIInv'
  <2>. DEFINE todo == d.todo \ {p}
              new == [d EXCEPT !.todo = todo]
  <2>1. finishing' \subseteq finishing \cup {new} /\ Len(d.first) = 3
    BY <1>11 DEF IngestOne
  <2>2. new.first = d.first
    BY DEF IngestTypes
  <2>. HIDE DEF new
  <2>3. \A e \in finishing' : Waits(e) => e \in finishing
    BY <2>1, <2>2 DEF Waits
  <2>. QED  BY <2>3, <1>11, BoundariesFrame DEF IngestOne
<1>12. CASE UNCHANGED ingestVars
  BY <1>12, BoundariesFrame DEF ingestVars
<1>. QED
  BY <1>1, <1>2, <1>3, <1>4, <1>5, <1>6, <1>7, <1>8, <1>9, <1>10, <1>11, <1>12, StartedKeeps,
     CompletedKeeps, DesynchronizedKeeps, ObserveKeeps DEF IngestNext

-----------------------------------------------------------------------------
(* What the diff found.                                                    *)

(* A listing is of the files as they were: what has changed was written    *)
(* since.                                                                  *)
Past(x) ==
  /\ x \in [Paths -> FileType \cup {Absent}]
  /\ \A p \in Paths : x[p] = disk[p] \/ x[p].writes < disk[p].writes

Good(p) == {disk[p].content, NoContent}
ItsJob(j, d, p) == j.path = p /\ j.turn = d.turn /\ j.by = "diff"

(* A file the turn changed is still to be ingested, or is being ingested,  *)
(* or was written again, or has its row, which nobody is about to spoil.   *)
Noticed(d, p) ==
  \/ p \in d.todo
  \/ \E j \in jobs : ItsJob(j, d, p)
  \/ disk[p] # d.first[2][p]
  \/ \E h \in lock : ItsJob(h.job, d, p) /\ h.content \in Good(p)
  \/ /\ \E i \in Of(p) : rows[i].content \in Good(p)
     /\ \A h \in lock : h.job.path = p => h.content \in Good(p)

ListingsArePast ==
  /\ \A t \in Turns : Len(before[t]) = 2 => Past(before[t][2])
  /\ \A d \in finishing :
       /\ Len(d.first) \in {2, 3} => Past(d.first[2])
       /\ Len(d.first) = 3 => Past(d.first[3])
ChangesAreNoticed ==
  \A d \in finishing : Len(d.first) = 3 =>
    \A p \in Paths \ Denied : d.first[2][p] # d.first[3][p] => Noticed(d, p)

(* A written file differs from every earlier listing of it.                *)
LEMMA PastStays ==
  ASSUME IngestTypes, NEW p \in Paths, NEW c \in Contents, Write(p, c)
  PROVE  /\ \A x : Past(x) => Past(x)' /\ x[p] # disk'[p]
         /\ \A q \in Paths \ {p} : disk'[q] = disk[q]
<1>. DEFINE n == disk[p].writes + 1
            new == [content |-> c, writes |-> n]
<1>1. disk' = [disk EXCEPT ![p] = new] /\ new.writes = n
  BY DEF Write
<1>2. \A z \in FileType \cup {Absent} : z.writes \in Nat
  BY DEF FileType, Absent
<1>. HIDE DEF new
<1>3. disk'[p].writes = disk[p].writes + 1 /\ \A q \in Paths \ {p} : disk'[q] = disk[q]
  BY <1>1 DEF IngestTypes
<1>4. disk[p].writes \in Nat
  BY <1>2 DEF IngestTypes
<1>5. ASSUME NEW x, Past(x) PROVE Past(x)' /\ x[p] # disk'[p]
  <2>1. x[p].writes \in Nat
    BY <1>2, <1>5 DEF Past
  <2>2. x[p].writes <= disk[p].writes
    BY <1>5, <1>4, <2>1 DEF Past
  <2>3. x[p].writes < disk'[p].writes
    BY <2>1, <2>2, <1>3, <1>4
  <2>4. x[p] # disk'[p]
    BY <2>1, <2>3
  <2>. QED  BY <2>3, <2>4, <1>3, <1>5 DEF Past
<1>. QED  BY <1>3, <1>5

(* A listing shows each file as it is, or leaves it out.                   *)
LEMMA ListedIsPast ==
  ASSUME IngestTypes, NEW answer \in Answers, Len(Listing(answer)) = 2
  PROVE  LET x == Listing(answer)[2]
         IN Past(x) /\ \A p \in Paths : x[p] \in {disk[p], Absent}
<1>. DEFINE x == [p \in Paths |-> IF answer # "all" /\ p \in Nested THEN Absent ELSE disk[p]]
<1>1. Listing(answer)[2] = x
  BY DEF Listing
<1>2. \A p \in Paths : x[p] = disk[p] \/ x[p] = Absent
  OBVIOUS
<1>3. x \in [Paths -> FileType \cup {Absent}]
  BY DEF IngestTypes
<1>4. \A p \in Paths : Absent = disk[p] \/ Absent.writes < disk[p].writes
  BY DEF IngestTypes, FileType, Absent
<1>. HIDE DEF x
<1>5. Past(x)
  BY <1>2, <1>3, <1>4 DEF Past
<1>. QED  BY <1>1, <1>2, <1>5

(* Writing a row keeps what a diff counts on.                              *)
LEMMA RowSeen ==
  ASSUME IngestTypes, NEW q, NEW c, RowWritten(q, c), rows' \in Seq(RowType), NEW p, NEW S,
         q = p => c \in S,
         q = p \/ \E i \in Of(p) : rows[i].content \in S
  PROVE  \E i \in Of(p)' : rows'[i].content \in S
<1>1. CASE \E r \in Of(q) :
       /\ DOMAIN rows' = DOMAIN rows
       /\ \A i \in DOMAIN rows : rows'[i].path = rows[i].path
       /\ \A i \in DOMAIN rows \ {r} : rows'[i].content = rows[i].content
       /\ rows'[r].content = c
       /\ rows[r].content = c \/ (rows[r].content = NoContent /\ Same(q, c) = {})
  BY <1>1 DEF Of
<1>2. CASE
     /\ Same(q, c) = {} /\ Same(q, NoContent) = {}
     /\ Len(rows') = Len(rows) + 1
     /\ \A i \in DOMAIN rows : rows'[i] = rows[i]
     /\ rows'[Len(rows) + 1].path = q /\ rows'[Len(rows) + 1].content = c
  <2>1. DOMAIN rows' = DOMAIN rows \cup {Len(rows) + 1}
    BY <1>2 DEF IngestTypes
  <2>. QED  BY <2>1, <1>2 DEF Of
<1>. QED  BY <1>1, <1>2 DEF RowWritten

(* Steps that only add jobs and move the diff along.                       *)
LEMMA NoticedFrame ==
  ASSUME UNCHANGED <<disk, lock, rows>>, jobs \subseteq jobs', NEW d, NEW e, NEW p,
         e.turn = d.turn, e.first = d.first, Noticed(d, p),
         p \in d.todo => p \in e.todo \/ \E j \in jobs' : ItsJob(j, d, p)
  PROVE  Noticed(e, p)'
BY DEF Noticed, ItsJob, Good, Of

(* What is past depends on the files only.                                 *)
LEMMA PastFrame == ASSUME disk' = disk, NEW x PROVE Past(x)' <=> Past(x)
BY DEF Past

(* Steps that leave the files, the pipeline and the listings alone.        *)
LEMMA NoticedQuiet ==
  ASSUME ListingsArePast, ChangesAreNoticed, UNCHANGED <<disk, lock, rows>>, jobs \subseteq jobs',
         \A t \in Turns : before'[t] = before[t] \/ Len(before'[t]) # 2,
         \A d \in finishing' : d \in finishing \/ Len(d.first) \notin {2, 3}
  PROVE  ListingsArePast' /\ ChangesAreNoticed'
<1>1. ListingsArePast'
  BY PastFrame DEF ListingsArePast
<1>2. ChangesAreNoticed'
  BY NoticedFrame DEF ChangesAreNoticed
<1>. QED  BY <1>1, <1>2

(* Every step keeps the listings past and the changes noticed.             *)
LEMMA NoticedStep ==
  ASSUME IngestTypes, OneOfEach, NewestIsFetched, ListingsArePast, ChangesAreNoticed,
         [IngestNext]_ingestVars
  PROVE  ListingsArePast' /\ ChangesAreNoticed'
<1>. USE DEF sandbox, diff, pipeline, seen
<1>1. CASE \E t \in Turns : TurnStarts(t) \/ TurnEnds(t) \/ ProjectDeleted(t)
  BY <1>1, NoticedQuiet DEF TurnStarts, TurnEnds, ProjectDeleted
<1>2. ASSUME NEW p \in Paths, NEW c \in Contents, Write(p, c)
      PROVE  ListingsArePast' /\ ChangesAreNoticed'
  <2>0. UNCHANGED <<finishing, before, lock, rows, jobs>>
    BY <1>2 DEF Write
  <2>1. ListingsArePast'
    BY <2>0, <1>2, PastStays DEF ListingsArePast
  <2>2. ASSUME NEW d \in finishing, Len(d.first) = 3, NEW q \in Paths \ Denied,
               d.first[2][q] # d.first[3][q]
        PROVE  Noticed(d, q)'
    <3>1. Noticed(d, q) /\ Past(d.first[2])
      BY <2>2 DEF ChangesAreNoticed, ListingsArePast
    <3>2. CASE q = p
      BY <3>1, <3>2, <1>2, PastStays DEF Noticed
    <3>3. CASE q # p
      <4>1. disk'[q] = disk[q]
        BY <3>3, <1>2, PastStays
      <4>. QED  BY <4>1, <3>1, <2>0 DEF Noticed, ItsJob, Good, Of
    <3>. QED  BY <3>2, <3>3
  <2>. QED  BY <2>0, <2>1, <2>2 DEF ChangesAreNoticed
<1>3. CASE \E p \in Paths, t \in Turns : ToolCompletes(p, t) \/ MessageNames(p, t)
  BY <1>3, NoticedQuiet DEF ToolCompletes, MessageNames, Asked
<1>4. CASE \E p \in Paths : Promote(p)
  BY <1>4, NoticedQuiet DEF Promote, Asked
<1>5. ASSUME NEW j \in jobs, NEW ok \in BOOLEAN, Fetch(j, ok)
      PROVE  ListingsArePast' /\ ChangesAreNoticed'
  <2>. DEFINE c == IF ok THEN disk[j.path].content ELSE NoContent
              h == [job |-> j, content |-> c]
  <2>1. /\ lock = {} /\ lock' = {h} /\ jobs' = jobs \ {j}
        /\ UNCHANGED <<disk, finishing, before, rows>>
    BY <1>5 DEF Fetch, Unlocked
  <2>2. h.job = j /\ h.content \in Good(j.path)
    BY DEF Good
  <2>. HIDE DEF h
  <2>3. ListingsArePast'
    BY <2>1, PastFrame DEF ListingsArePast
  <2>4. ASSUME NEW d \in finishing, Len(d.first) = 3, NEW q \in Paths \ Denied,
               d.first[2][q] # d.first[3][q]
        PROVE  Noticed(d, q)'
    <3>1. Noticed(d, q)
      BY <2>4 DEF ChangesAreNoticed
    <3>2. Good(q)' = Good(q) /\ Of(q)' = Of(q)
      BY <2>1 DEF Good, Of
    <3>. QED  BY <3>1, <3>2, <2>1, <2>2 DEF Noticed, ItsJob
  <2>. QED  BY <2>1, <2>3, <2>4 DEF ChangesAreNoticed
<1>6. ASSUME NEW h \in lock, Record(h)
      PROVE  ListingsArePast' /\ ChangesAreNoticed'
  <2>. DEFINE p == h.job.path
              c == h.content
  <2>1. /\ lock = {h} /\ lock' = {} /\ UNCHANGED <<disk, finishing, before, jobs>>
        /\ rows' = Written(p, c, h.job.turn)
    BY <1>6 DEF Record, IngestTypes
  <2>2. p \in Paths /\ c \in AnyContent /\ h.job.turn \in Turns \cup {NoTurn}
    BY DEF IngestTypes, HoldType, JobType
  <2>3. RowWritten(p, c) /\ rows' \in Seq(RowType)
    BY <2>1, <2>2, WrittenIs
  <2>4. c = h.content /\ p = h.job.path
    OBVIOUS
  <2>. HIDE DEF p, c
  <2>5. ListingsArePast'
    BY <2>1, PastFrame DEF ListingsArePast
  <2>6. ASSUME NEW d \in finishing, Len(d.first) = 3, NEW q \in Paths \ Denied,
               d.first[2][q] # d.first[3][q]
        PROVE  Noticed(d, q)'
    <3>1. Noticed(d, q)
      BY <2>6 DEF ChangesAreNoticed
    <3>2. CASE p = q /\ c \in Good(q)
      <4>1. \E i \in Of(q)' : rows'[i].content \in Good(q)
        BY <3>2, <2>3, RowSeen
      <4>. QED  BY <4>1, <2>1 DEF Noticed, Good
    <3>3. CASE p # q /\ \E i \in Of(q) : rows[i].content \in Good(q)
      <4>1. \E i \in Of(q)' : rows'[i].content \in Good(q)
        BY <3>3, <2>3, RowSeen
      <4>. QED  BY <4>1, <2>1 DEF Noticed, Good
    <3>4. CASE q \in d.todo \/ (\E j \in jobs : ItsJob(j, d, q)) \/ disk[q] # d.first[2][q]
      BY <3>4, <2>1 DEF Noticed, ItsJob
    <3>. QED  BY <3>1, <3>2, <3>3, <3>4, <2>1, <2>4 DEF Noticed, ItsJob
  <2>. QED  BY <2>1, <2>5, <2>6 DEF ChangesAreNoticed
<1>7. ASSUME NEW i \in DOMAIN rows, Untag(i)
      PROVE  ListingsArePast' /\ ChangesAreNoticed'
  <2>. DEFINE new == [rows[i] EXCEPT !.tagged = FALSE]
  <2>0. rows[i] \in RowType
    BY DEF IngestTypes
  <2>1. new.path = rows[i].path /\ new.content = rows[i].content
    BY <2>0 DEF RowType
  <2>2. rows' = [rows EXCEPT ![i] = new] /\ UNCHANGED <<disk, finishing, before, jobs, lock>>
    BY <1>7 DEF Untag
  <2>. HIDE DEF new
  <2>3. DOMAIN rows' = DOMAIN rows
        /\ \A k \in DOMAIN rows : rows'[k].path = rows[k].path /\ rows'[k].content = rows[k].content
    BY <2>1, <2>2
  <2>4. ListingsArePast'
    BY <2>2, PastFrame DEF ListingsArePast
  <2>5. \A d, p : Noticed(d, p) => Noticed(d, p)'
    BY <2>2, <2>3 DEF Noticed, ItsJob, Good, Of
  <2>. QED  BY <2>2, <2>4, <2>5 DEF ChangesAreNoticed
<1>8. CASE Desynchronized \/ Resubscribe
  BY <1>8, NoticedQuiet DEF Desynchronized, Resubscribe
<1>9. CASE Observe
  <2>. DEFINE b == Head(boundaries)
              d == [turn |-> b.turn, first |-> <<"none">>, todo |-> {}]
  <2>1. finishing' = finishing \/ finishing' = finishing \cup {d}
    BY <1>9 DEF Observe
  <2>2. Len(d.first) = 1
    OBVIOUS
  <2>. HIDE DEF d
  <2>3. \A e \in finishing' : e \in finishing \/ Len(e.first) \notin {2, 3}
    BY <2>1, <2>2
  <2>. QED  BY <2>3, <1>9, NoticedQuiet DEF Observe
<1>10. ASSUME NEW t \in Turns, NEW answer \in Answers, Started(t, answer)
       PROVE  ListingsArePast' /\ ChangesAreNoticed'
  <2>. DEFINE all == Append(order, t)
              out == IF Len(all) > MaxPending THEN {Head(all)} ELSE {}
              now == Listing(answer)
  <2>1. /\ before' = [u \in Turns |-> IF u \in out THEN <<"none">>
                                      ELSE IF u = t THEN now ELSE before[u]]
        /\ UNCHANGED <<disk, lock, rows, jobs, finishing>>
    BY <1>10 DEF Started
  <2>2. Len(now) = 2 => Past(now[2])
    BY ListedIsPast
  <2>. HIDE DEF out, now
  <2>3. \A u \in Turns : Len(before'[u]) = 2 => Past(before'[u][2])
    BY <2>1, <2>2 DEF ListingsArePast
  <2>4. ListingsArePast'
    BY <2>1, <2>3, PastFrame DEF ListingsArePast
  <2>5. ChangesAreNoticed'
    BY <2>1, NoticedFrame DEF ChangesAreNoticed
  <2>. QED  BY <2>4, <2>5
<1>11. ASSUME NEW d \in finishing, Completed(d)
       PROVE  ListingsArePast' /\ ChangesAreNoticed'
  <2>. DEFINE t == d.turn
              had == before[t]
              new == [d EXCEPT !.first = had]
  <2>1. /\ before' = [before EXCEPT ![t] = <<"none">>] /\ t \in Turns
        /\ finishing' = (finishing \ {d}) \cup (IF Len(had) = 2 THEN {new} ELSE {})
        /\ UNCHANGED <<disk, lock, rows, jobs>>
    BY <1>11 DEF Completed, IngestTypes
  <2>2. new.first = had
    BY DEF IngestTypes
  <2>. HIDE DEF new
  <2>3. \A u \in Turns : before'[u] = before[u] \/ Len(before'[u]) = 1
    BY <2>1 DEF IngestTypes
  <2>4. ListingsArePast'
    BY <2>1, <2>2, <2>3, PastFrame DEF ListingsArePast
  <2>5. \A e \in finishing' : Len(e.first) = 3 => e \in finishing
    BY <2>1, <2>2
  <2>6. ChangesAreNoticed'
    BY <2>1, <2>5, NoticedFrame DEF ChangesAreNoticed
  <2>. QED  BY <2>4, <2>6
<1>12. ASSUME NEW d \in finishing, DiffEnds(d)
       PROVE  ListingsArePast' /\ ChangesAreNoticed'
  BY <1>12, NoticedQuiet DEF DiffEnds
<1>13. ASSUME NEW d \in finishing, NEW answer \in Answers, Compared(d, answer)
       PROVE  ListingsArePast' /\ ChangesAreNoticed'
  <2>. DEFINE second == Listing(answer)
              todo == {p \in NewOrChanged(d.first[2], second[2]) : ~Denies(p)}
              first == <<"compared", second[2], d.first[2]>>
              new == [turn |-> d.turn, first |-> first, todo |-> todo]
  <2>1. /\ finishing' = (finishing \ {d}) \cup (IF Len(second) = 1 THEN {} ELSE {new})
        /\ UNCHANGED <<disk, lock, rows, jobs, before>>
        /\ Len(d.first) = 2
    BY <1>13 DEF Compared
  <2>2. CASE Len(second) = 1
    BY <2>1, <2>2, NoticedQuiet
  <2>3. CASE Len(second) # 1
    <3>1. Len(second) = 2
      BY <2>3 DEF Listing
    <3>. DEFINE x == second[2]
                y == d.first[2]
    <3>2. Past(x) /\ (\A p \in Paths : x[p] \in {disk[p], Absent}) /\ Past(y)
      BY <3>1, <2>1, ListedIsPast DEF ListingsArePast
    <3>3. new.first = first /\ Len(first) = 3 /\ first[2] = x /\ first[3] = y /\ new.todo = todo
      OBVIOUS
    <3>4. \A p \in Paths \ Denied : x[p] # Absent /\ y[p] # x[p] => p \in todo
      BY DEF NewOrChanged, Denies
    <3>. HIDE DEF new, first, todo, second
    <3>5. ASSUME NEW p \in Paths \ Denied, x[p] # y[p] PROVE Noticed(new, p)
      <4>1. CASE x[p] # Absent
        BY <4>1, <3>3, <3>4, <3>5 DEF Noticed
      <4>2. CASE x[p] = Absent
        <5>1. disk[p] # Absent
          <6>. SUFFICES ASSUME disk[p] = Absent PROVE FALSE
            OBVIOUS
          <6>1. y[p] # Absent /\ y[p] \in FileType
            BY <4>2, <3>5, <3>2 DEF Past
          <6>2. y[p].writes \in Nat /\ y[p].writes < 0
            BY <6>1, <3>2 DEF Past, FileType, Absent
          <6>. QED  BY <6>2
        <5>. QED  BY <5>1, <4>2, <3>3 DEF Noticed
      <4>. QED  BY <4>1, <4>2
    <3>6. finishing' = (finishing \ {d}) \cup {new}
      BY <2>1, <2>3
    <3>7. ListingsArePast'
      BY <2>1, <3>2, <3>3, <3>6, PastFrame DEF ListingsArePast
    <3>9. \A e, p : Noticed(e, p) => Noticed(e, p)'
      BY <2>1, NoticedFrame
    <3>10. ChangesAreNoticed'
      BY <3>3, <3>5, <3>6, <3>9 DEF ChangesAreNoticed
    <3>. QED  BY <3>7, <3>10
  <2>. QED  BY <2>2, <2>3
<1>14. ASSUME NEW d \in finishing, NEW p \in Paths, IngestOne(d, p)
       PROVE  ListingsArePast' /\ ChangesAreNoticed'
  <2>. DEFINE todo == d.todo \ {p}
              new == [d EXCEPT !.todo = todo]
              j == Job(p, d.turn, "diff")
  <2>1. /\ finishing' = (finishing \ {d}) \cup {new} /\ jobs' = jobs \cup {j}
        /\ UNCHANGED <<disk, lock, rows, before>>
    BY <1>14 DEF IngestOne
  <2>2. new.first = d.first /\ new.turn = d.turn /\ new.todo = todo
    BY DEF IngestTypes
  <2>3. ItsJob(j, d, p)
    BY DEF ItsJob, Job
  <2>. HIDE DEF new, j
  <2>4. ListingsArePast'
    BY <2>1, <2>2, PastFrame DEF ListingsArePast
  <2>5. \A q : Noticed(d, q) => Noticed(new, q)'
    BY <2>1, <2>2, <2>3, NoticedFrame
  <2>6. \A e, q : Noticed(e, q) => Noticed(e, q)'
    BY <2>1, NoticedFrame
  <2>7. ChangesAreNoticed'
    BY <2>1, <2>2, <2>5, <2>6 DEF ChangesAreNoticed
  <2>. QED  BY <2>4, <2>7
<1>15. CASE UNCHANGED ingestVars
  BY <1>15, NoticedQuiet DEF ingestVars
<1>. QED
  BY <1>1, <1>2, <1>3, <1>4, <1>5, <1>6, <1>7, <1>8, <1>9, <1>10, <1>11, <1>12, <1>13, <1>14, <1>15
     DEF IngestNext

(* For any instance, the end of a turn is compared with its beginning      *)
(* unless one of them was unheard or the beginning was evicted, and what   *)
(* changed in between has its artifact when the comparison is through, or  *)
(* was written again (SandboxDiffIngestor).                                *)
THEOREM EveryTurnIsDiffed == IngestSpec => []TurnsAreDiffed
<1>. DEFINE I == IngestIInv /\ BoundariesIInv /\ ListingsArePast /\ ChangesAreNoticed
<1>1. IngestInit => I
  <2>. SUFFICES ASSUME IngestInit PROVE I
    OBVIOUS
  <2>1. /\ finishing = {} /\ DOMAIN boundaries = {} /\ skipped = {}
        /\ \A t \in Turns : before[t] = <<"none">> /\ turns[t] = "fresh"
    BY DEF IngestInit
  <2>2. BoundariesIInv
    BY <2>1 DEF BoundariesIInv, BoundariesInOrder, EndsHaveBeginnings
  <2>3. ListingsArePast /\ ChangesAreNoticed
    BY <2>1 DEF ListingsArePast, ChangesAreNoticed
  <2>. QED  BY <2>2, <2>3, IngestStarts
<1>2. I /\ [IngestNext]_ingestVars => I'
  BY IngestStep, BoundariesStep, NoticedStep DEF IngestIInv
<1>3. I => TurnsAreDiffed
  <2>. SUFFICES ASSUME I PROVE TurnsAreDiffed
    OBVIOUS
  <2>1. ASSUME NEW d \in finishing, Done(d), NEW p \in Paths \ Denied, d.first[2][p] # d.first[3][p]
        PROVE  \/ disk[p] # d.first[2][p]
               \/ \E i \in Of(p) : rows[i].content \in {disk[p].content, NoContent}
    <3>1. Noticed(d, p)
      BY <2>1 DEF Done, ChangesAreNoticed
    <3>. QED  BY <3>1, <2>1 DEF Noticed, Done, Working, ItsJob, Good
  <2>. QED  BY <2>1 DEF TurnsAreDiffed, BoundariesIInv
<1>. QED  BY <1>1, <1>2, <1>3, PTL DEF IngestSpec

-----------------------------------------------------------------------------
(* Curation: the tags and the collections.                                 *)

Places == Nat \ {0}
Positions == UNION {[M -> Places] : M \in SUBSET Artifacts}
Arranged == [title : Titles, position : Positions]

(* The tags: functions of ids, one id for a name, carried by what exists.  *)
TagsKept ==
  /\ vocabulary \in [DOMAIN vocabulary -> Typed \cup {Refused}]
  /\ boards \subseteq Boards
  /\ \A t, u \in DOMAIN vocabulary : vocabulary[t] = vocabulary[u] => t = u
  /\ carried \subseteq Owners \X DOMAIN vocabulary

(* The positions of a collection: distinct, and none above some number.    *)
Distinct(pos) == \A a, b \in DOMAIN pos : pos[a] = pos[b] => a = b
Capped(pos) == \E n \in Nat : \A a \in DOMAIN pos : pos[a] <= n
Orderly(pos) == pos \in Positions /\ Distinct(pos) /\ Capped(pos)

PlacesKept ==
  /\ collections \in [DOMAIN collections -> Arranged]
  /\ \A c \in DOMAIN collections : Orderly(collections[c].position)

CurationIInv == TagsKept /\ PlacesKept

(* Members that stay keep their order and new ones come after them.        *)
InOrder(old, new) ==
  \A a \in DOMAIN old \cap DOMAIN new, b \in DOMAIN new :
    (b \in DOMAIN old => old[a] < old[b]) => new[a] < new[b]

(* The next position is above all that are taken.                          *)
LEMMA NextIsAbove ==
  ASSUME NEW pos \in Positions, Capped(pos)
  PROVE  NextPosition(pos) \in Places /\ \A a \in DOMAIN pos : pos[a] < NextPosition(pos)
<1>1. CASE DOMAIN pos = {}
  BY <1>1 DEF NextPosition, Places
<1>2. CASE DOMAIN pos # {}
  <2> DEFINE bounds == {n \in Nat : \A a \in DOMAIN pos : pos[a] <= n}
             top(n) == \A a \in DOMAIN pos : pos[a] <= n
             taken == {pos[a] : a \in DOMAIN pos}
  <2>1. PICK n \in bounds : \A m \in bounds : ~(<<m, n>> \in OpToRel(<, Nat))
    <3>1. bounds # {} /\ bounds \subseteq Nat
      BY DEF Capped
    <3> HIDE DEF bounds
    <3> QED BY <3>1, NatLessThanWellFounded, WFMin
  <2>2. ASSUME NEW m \in bounds PROVE n <= m
    <3>1. ~(<<m, n>> \in OpToRel(<, Nat)) /\ m \in Nat /\ n \in Nat
      BY <2>1
    <3> QED BY <3>1 DEF OpToRel
  <2>3. taken \subseteq Places
    BY DEF Positions
  <2>4. n \in taken
    <3>1. SUFFICES ASSUME n \notin taken PROVE FALSE
      OBVIOUS
    <3>2. \A a \in DOMAIN pos : pos[a] \in Places /\ pos[a] < n
      BY <2>3, <3>1 DEF Places
    <3>3. n > 0
      BY <1>2, <3>2 DEF Places
    <3>4. n - 1 \in bounds
      BY <3>2, <3>3 DEF Places
    <3> QED BY <2>2, <3>4
  <2> DEFINE k == CHOOSE m \in taken : top(m)
  <2>5. k \in taken /\ top(k)
    BY <2>4
  <2>6. NextPosition(pos) = k + 1
    BY <1>2 DEF NextPosition
  <2> HIDE DEF k
  <2>7. k \in Places
    BY <2>3, <2>5
  <2> QED BY <2>3, <2>5, <2>6, <2>7 DEF Places
<1> QED BY <1>1, <1>2

(* Additions are numbered on, each on its own.                             *)
LEMMA AdditionsFollow ==
  ASSUME NEW pos, Orderly(pos), NEW ids \in Seq(Artifacts)
  PROVE  Orderly(Appended(pos, ids)) /\ InOrder(pos, Appended(pos, ids))
<1> DEFINE new == Appended(pos, ids)
           first(a) == CHOOSE i \in DOMAIN ids : ids[i] = a
           preceding(a) == {j \in 1 .. first(a) - 1 : ids[j] \notin DOMAIN pos}
           next == NextPosition(pos)
           added == Range(ids) \ DOMAIN pos
<1>1. next \in Places /\ \A a \in DOMAIN pos : pos[a] \in Places /\ pos[a] < next
  BY NextIsAbove DEF Orderly, Positions
<1>2. \A a \in added : first(a) \in 1 .. Len(ids) /\ ids[first(a)] = a
  BY DEF Range
<1> HIDE DEF first
<1>3. \A a \in added :
        /\ IsFiniteSet(preceding(a)) /\ Cardinality(preceding(a)) \in Nat
        /\ Cardinality(preceding(a)) <= Len(ids)
  <2> TAKE a \in added
  <2> DEFINE k == first(a) - 1
  <2>1. k \in Nat /\ k <= Len(ids) /\ Len(ids) \in Nat
    BY <1>2
  <2>2. IsFiniteSet(1 .. k) /\ Cardinality(1 .. k) = k
    <3> HIDE DEF k
    <3> QED BY <2>1, FS_Interval
  <2>3. preceding(a) \subseteq 1 .. k
    OBVIOUS
  <2> HIDE DEF k, preceding
  <2>4. IsFiniteSet(preceding(a)) /\ Cardinality(preceding(a)) <= Cardinality(1 .. k)
    BY <2>2, <2>3, FS_Subset
  <2>5. Cardinality(preceding(a)) \in Nat
    BY <2>4, FS_CardinalityType
  <2> QED BY <2>1, <2>2, <2>4, <2>5
<1>5. \A a, b \in added : first(a) < first(b) => Cardinality(preceding(a)) < Cardinality(preceding(b))
  <2> SUFFICES ASSUME NEW a \in added, NEW b \in added, first(a) < first(b)
               PROVE  Cardinality(preceding(a)) < Cardinality(preceding(b))
    OBVIOUS
  <2>1. preceding(a) \subseteq preceding(b)
    BY <1>2
  <2>2. first(a) \in preceding(b) /\ first(a) \notin preceding(a)
    BY <1>2
  <2> HIDE DEF preceding
  <2>3. Cardinality(preceding(a)) <= Cardinality(preceding(b)) /\ Cardinality(preceding(a)) # Cardinality(preceding(b))
    BY <1>3, <2>1, <2>2, FS_Subset
  <2> QED BY <1>3, <2>3
<1>6. \A a, b \in added : Cardinality(preceding(a)) = Cardinality(preceding(b)) => a = b
  <2> SUFFICES ASSUME NEW a \in added, NEW b \in added, a # b
               PROVE  Cardinality(preceding(a)) # Cardinality(preceding(b))
    OBVIOUS
  <2> HIDE DEF preceding
  <2>1. first(a) < first(b) \/ first(b) < first(a)
    BY <1>2
  <2> QED BY <1>3, <1>5, <2>1
<1>7. /\ DOMAIN new = DOMAIN pos \cup Range(ids)
      /\ \A a \in DOMAIN pos : new[a] = pos[a]
      /\ \A a \in added : new[a] = next + Cardinality(preceding(a))
  BY DEF Appended, first
<1>8. new = [a \in DOMAIN new |-> new[a]]
  BY DEF Appended
<1> HIDE DEF new, preceding, next
<1>9. DOMAIN new = DOMAIN pos \cup added
  BY <1>7
<1>10. \A a \in DOMAIN new : new[a] \in Places
  BY <1>1, <1>3, <1>7, <1>9 DEF Places
<1>11. new \in Positions
  <2>1. DOMAIN new \subseteq Artifacts
    BY <1>7 DEF Orderly, Positions, Range
  <2>2. new \in [DOMAIN new -> Places]
    BY <1>8, <1>10
  <2> QED BY <2>1, <2>2 DEF Positions
<1>12. Distinct(new)
  <2> SUFFICES ASSUME NEW a \in DOMAIN new, NEW b \in DOMAIN new, new[a] = new[b] PROVE a = b
    BY DEF Distinct
  <2>1. CASE a \in DOMAIN pos /\ b \in DOMAIN pos
    BY <1>7, <2>1 DEF Orderly, Distinct
  <2>2. CASE a \in added /\ b \in added
    BY <1>1, <1>3, <1>6, <1>7, <2>2 DEF Places
  <2>3. CASE a \in DOMAIN pos /\ b \in added
    BY <1>1, <1>3, <1>7, <2>3 DEF Places
  <2>4. CASE b \in DOMAIN pos /\ a \in added
    BY <1>1, <1>3, <1>7, <2>4 DEF Places
  <2> QED BY <1>9, <2>1, <2>2, <2>3, <2>4
<1>13. Capped(new)
  <2>1. next + Len(ids) \in Nat /\ Len(ids) \in Nat
    BY <1>1 DEF Places
  <2>2. \A a \in DOMAIN new : new[a] <= next + Len(ids)
    BY <1>1, <1>3, <1>7, <1>9, <2>1 DEF Places
  <2> QED BY <2>1, <2>2 DEF Capped
<1>14. InOrder(pos, new)
  BY <1>1, <1>3, <1>7, <1>9 DEF InOrder, Places
<1> QED BY <1>11, <1>12, <1>13, <1>14 DEF new, Orderly

(* It holds at the start.                                                  *)
LEMMA CurationInitIInv == CurationInit => CurationIInv
  BY DEF CurationInit, CurationIInv, TagsKept, PlacesKept, Owners, Empty

(* The tag of a name, whether it was there or is new.                      *)
LEMMA NamesStayUnique ==
  ASSUME TagsKept, NEW typed \in Typed, NEW t \in TagIds, GetOrCreate(Normal[typed], t)
  PROVE  /\ vocabulary' \in [DOMAIN vocabulary' -> Typed \cup {Refused}]
         /\ \A u, v \in DOMAIN vocabulary' : vocabulary'[u] = vocabulary'[v] => u = v
         /\ DOMAIN vocabulary \subseteq DOMAIN vocabulary' /\ t \in DOMAIN vocabulary'
<1>1. CASE Known(Normal[typed]) # {}
  BY <1>1 DEF GetOrCreate, TagsKept, Known
<1>2. CASE Known(Normal[typed]) = {}
  <2>1. vocabulary' = With(vocabulary, t, Normal[typed]) /\ t \notin DOMAIN vocabulary
    BY <1>2 DEF GetOrCreate
  <2>2. DOMAIN vocabulary' = DOMAIN vocabulary \cup {t}
    BY <2>1 DEF With
  <2>3. \A u \in DOMAIN vocabulary : vocabulary'[u] = vocabulary[u] /\ vocabulary[u] # Normal[typed]
    BY <1>2, <2>1 DEF With, Known
  <2>4. vocabulary'[t] = Normal[typed] /\ Normal[typed] \in Typed \cup {Refused}
    BY <2>1, TypedAssumption DEF With
  <2>5. vocabulary' \in [DOMAIN vocabulary' -> Typed \cup {Refused}]
    BY <2>1, <2>2, <2>4, TypedAssumption DEF With, TagsKept
  <2> QED BY <2>2, <2>3, <2>4, <2>5 DEF TagsKept
<1> QED BY <1>1, <1>2

(* A renamed tag takes its owners along, and nobody else.                  *)
NamesFollow(t, typed) ==
  \A o \in Owners :
    NamesOf(o)' = IF vocabulary[t] \in NamesOf(o)
                  THEN (NamesOf(o) \ {vocabulary[t]}) \cup {Normal[typed]} ELSE NamesOf(o)

(* A rename or a merge keeps the tags in order.                            *)
LEMMA RenameKeepsTags ==
  ASSUME TagsKept, NEW t \in DOMAIN vocabulary, NEW typed \in Typed, RenameTag(t, typed)
  PROVE  TagsKept' /\ NamesFollow(t, typed)
<1> DEFINE name == Normal[typed]
<1>1. boards' = boards /\ Owners' = Owners
  BY DEF RenameTag, Owners
<1>2. name \in Typed \cup {Refused} /\ name # vocabulary[t]
  BY TypedAssumption DEF RenameTag
<1>3. CASE Known(name) = {}
  <2>1. vocabulary' = With(vocabulary, t, name) /\ carried' = carried
    BY <1>3 DEF RenameTag
  <2>2. /\ DOMAIN vocabulary' = DOMAIN vocabulary
        /\ vocabulary'[t] = name /\ \A u \in DOMAIN vocabulary \ {t} : vocabulary'[u] = vocabulary[u]
    BY <2>1 DEF With
  <2>3. \A u \in DOMAIN vocabulary : vocabulary[u] # name
    BY <1>3 DEF Known
  <2>4. TagsKept'
    BY <1>1, <1>2, <2>1, <2>2, <2>3 DEF TagsKept, With
  <2>5. ASSUME NEW o \in Owners
        PROVE  NamesOf(o)' = IF vocabulary[t] \in NamesOf(o)
                             THEN (NamesOf(o) \ {vocabulary[t]}) \cup {name} ELSE NamesOf(o)
    <3>1. NamesOf(o)' = {vocabulary'[u] : u \in {x \in DOMAIN vocabulary : <<o, x>> \in carried}}
      BY <2>1, <2>2 DEF NamesOf
    <3>2. NamesOf(o) = {vocabulary[u] : u \in {x \in DOMAIN vocabulary : <<o, x>> \in carried}}
      BY DEF NamesOf
    <3>3. \A u \in DOMAIN vocabulary : vocabulary[u] = vocabulary[t] => u = t
      BY DEF TagsKept
    <3>4. vocabulary[t] \in NamesOf(o) <=> <<o, t>> \in carried
      BY <3>2, <3>3
    <3>5. CASE <<o, t>> \notin carried
      <4>1. \A u \in {x \in DOMAIN vocabulary : <<o, x>> \in carried} : vocabulary'[u] = vocabulary[u]
        BY <2>2, <3>5
      <4>2. NamesOf(o)' = NamesOf(o)
        BY <3>1, <3>2, <4>1
      <4> QED BY <3>4, <3>5, <4>2
    <3>6. CASE <<o, t>> \in carried
      <4>1. \A n : n \in NamesOf(o)' => n = name \/ (n \in NamesOf(o) /\ n # vocabulary[t])
        BY <2>2, <3>1, <3>2, <3>3
      <4>2. \A n : n = name \/ (n \in NamesOf(o) /\ n # vocabulary[t]) => n \in NamesOf(o)'
        BY <2>2, <3>1, <3>2, <3>6
      <4> QED BY <3>4, <3>6, <4>1, <4>2
    <3> QED BY <3>5, <3>6
  <2> QED BY <2>4, <2>5 DEF NamesFollow
<1>4. CASE Known(name) # {}
  <2>1. PICK u \in Known(name) : carried' = Moved(t, u)
    BY <1>4 DEF RenameTag
  <2>2. vocabulary' = Without(vocabulary, t)
    BY <1>4 DEF RenameTag
  <2>3. u \in DOMAIN vocabulary /\ vocabulary[u] = name /\ u # t
    BY <1>2, <2>1 DEF Known
  <2>4. /\ DOMAIN vocabulary' = DOMAIN vocabulary \ {t}
        /\ \A v \in DOMAIN vocabulary \ {t} : vocabulary'[v] = vocabulary[v]
    BY <2>2 DEF Without
  <2>5. \A o \in Owners, v \in DOMAIN vocabulary' :
          <<o, v>> \in carried' <=> <<o, v>> \in carried \/ (v = u /\ <<o, t>> \in carried)
    BY <2>1, <2>3, <2>4 DEF Moved, Tagged
  <2>6. carried' \subseteq Owners \X DOMAIN vocabulary'
    <3>1. ASSUME NEW j \in carried, j[2] # t PROVE j \in Owners \X DOMAIN vocabulary'
      <4>1. j \in Owners \X DOMAIN vocabulary
        BY DEF TagsKept
      <4> QED BY <2>4, <3>1, <4>1
    <3>2. ASSUME NEW o \in Tagged(t) PROVE <<o, u>> \in Owners \X DOMAIN vocabulary'
      BY <2>3, <2>4 DEF Tagged
    <3> QED BY <2>1, <3>1, <3>2 DEF Moved
  <2>7. TagsKept'
    BY <1>1, <2>2, <2>4, <2>6 DEF TagsKept, Without
  <2>8. ASSUME NEW o \in Owners
        PROVE  NamesOf(o)' = IF vocabulary[t] \in NamesOf(o)
                             THEN (NamesOf(o) \ {vocabulary[t]}) \cup {name} ELSE NamesOf(o)
    <3>1. \A v \in DOMAIN vocabulary : vocabulary[v] = vocabulary[t] => v = t
      BY DEF TagsKept
    <3>2. vocabulary[t] \in NamesOf(o) <=> <<o, t>> \in carried
      BY <3>1 DEF NamesOf
    <3>3. NamesOf(o)' = {vocabulary[v] : v \in {x \in DOMAIN vocabulary \ {t} :
                           <<o, x>> \in carried \/ (x = u /\ <<o, t>> \in carried)}}
      BY <2>4, <2>5 DEF NamesOf
    <3> QED BY <2>3, <3>1, <3>2, <3>3 DEF NamesOf
  <2> QED BY <2>7, <2>8 DEF NamesFollow
<1> QED BY <1>3, <1>4

(* The actions on tags.                                                    *)
TagSteps ==
  \/ \E typed \in Typed, t \in TagIds :
       \/ CreateTag(typed, t) \/ RenameTag(t, typed)
       \/ \E o \in Owners : Attach(o, typed, t)
       \/ \E S \in (SUBSET Artifacts) \ {{}}, remove \in Typed : ApplyBulk(S, typed, remove, t)
  \/ \E o \in Owners, typed \in Typed : Detach(o, typed)
  \/ \E t \in TagIds : DeleteTag(t)
  \/ \E p \in Boards : BoardDeleted(p)

(* So does every other step on tags.                                       *)
LEMMA TagStepsKeep ==
  ASSUME TagsKept, TagSteps
  PROVE  TagsKept' /\ collections' = collections
<1>1. ASSUME NEW typed \in Typed, NEW t \in TagIds, CreateTag(typed, t)
      PROVE  TagsKept' /\ collections' = collections
  <2>1. GetOrCreate(Normal[typed], t) /\ carried' = carried /\ boards' = boards
    BY <1>1 DEF CreateTag
  <2> QED BY <1>1, <2>1, NamesStayUnique DEF CreateTag, TagsKept, Owners
<1>2. ASSUME NEW typed \in Typed, NEW t \in TagIds, RenameTag(t, typed)
      PROVE  TagsKept' /\ collections' = collections
  BY <1>2, RenameKeepsTags DEF RenameTag
<1>3. ASSUME NEW typed \in Typed, NEW t \in TagIds, NEW o \in Owners, Attach(o, typed, t)
      PROVE  TagsKept' /\ collections' = collections
  <2>1. GetOrCreate(Normal[typed], t) /\ carried' = carried \cup {<<o, t>>} /\ boards' = boards
    BY <1>3 DEF Attach
  <2> QED BY <1>3, <2>1, NamesStayUnique DEF Attach, TagsKept, Owners
<1>4. ASSUME NEW typed \in Typed, NEW t \in TagIds, NEW S \in (SUBSET Artifacts) \ {{}},
             NEW remove \in Typed, ApplyBulk(S, typed, remove, t)
      PROVE  TagsKept' /\ collections' = collections
  <2>1. /\ GetOrCreate(Normal[typed], t) /\ boards' = boards
        /\ carried' \subseteq carried \cup {<<a, t>> : a \in S}
    BY <1>4 DEF ApplyBulk
  <2> QED BY <1>4, <2>1, NamesStayUnique DEF ApplyBulk, TagsKept, Owners
<1>5. ASSUME NEW o \in Owners, NEW typed \in Typed, Detach(o, typed)
      PROVE  TagsKept' /\ collections' = collections
  BY <1>5 DEF Detach, TagsKept, Owners
<1>6. ASSUME NEW t \in TagIds, DeleteTag(t)
      PROVE  TagsKept' /\ collections' = collections
  BY <1>6 DEF DeleteTag, TagsKept, Owners, Without
<1>7. ASSUME NEW p \in Boards, BoardDeleted(p)
      PROVE  TagsKept' /\ collections' = collections
  BY <1>7 DEF BoardDeleted, TagsKept, Owners
<1> QED BY <1>1, <1>2, <1>3, <1>4, <1>5, <1>6, <1>7 DEF TagSteps

(* What happens to the positions of the collections that stay.             *)
OrderKept ==
  \A c \in DOMAIN collections \cap DOMAIN collections' :
    \/ \E ids \in Orders : Reorder(c, ids)
    \/ InOrder(collections[c].position, collections'[c].position)

(* What is not touched is in order.                                        *)
LEMMA UntouchedOrder ==
  \A c \in DOMAIN collections : InOrder(collections[c].position, collections[c].position)
  BY DEF InOrder

(* A collection gets other positions that are orderly.                     *)
LEMMA NewPositions ==
  ASSUME PlacesKept, NEW c \in DOMAIN collections, NEW pos, Orderly(pos),
         collections' = [collections EXCEPT ![c].position = pos]
  PROVE  /\ PlacesKept' /\ DOMAIN collections' = DOMAIN collections
         /\ collections'[c].position = pos
         /\ \A d \in DOMAIN collections \ {c} : collections'[d] = collections[d]
  BY DEF PlacesKept, Arranged, Orderly

CollectionSteps ==
  \E c \in CollectionIds :
    \/ \E title \in Titles : CreateCollection(title, c) \/ UpdateCollection(c, title)
    \/ DeleteCollection(c)
    \/ \E ids \in Selections : Add(c, ids)
    \/ \E a \in Artifacts : RemoveMember(c, a)
    \/ \E ids \in Orders : Reorder(c, ids)

(* A new collection is orderly ...                                         *)
LEMMA EmptyIsOrderly == Orderly(Empty)
<1>1. DOMAIN Empty = {} /\ Empty \in [{} -> Places]
  BY DEF Empty
<1> QED BY <1>1 DEF Orderly, Positions, Distinct, Capped

(* ... and making it leaves the others alone.                              *)
LEMMA CreatedIsOrderly ==
  ASSUME PlacesKept, NEW c, c \notin DOMAIN collections, NEW title \in Titles, NEW pos, Orderly(pos),
         collections' = With(collections, c, [title |-> title, position |-> pos])
  PROVE  PlacesKept' /\ OrderKept
<1>1. /\ DOMAIN collections' = DOMAIN collections \cup {c}
      /\ collections'[c] = [title |-> title, position |-> pos]
      /\ \A d \in DOMAIN collections : collections'[d] = collections[d]
  BY DEF With
<1>2. [title |-> title, position |-> pos] \in Arranged
  BY DEF Arranged, Orderly
<1>3. collections' \in [DOMAIN collections' -> Arranged]
  BY <1>1, <1>2 DEF PlacesKept, With
<1>4. PlacesKept'
  BY <1>1, <1>3 DEF PlacesKept
<1>5. OrderKept
  BY <1>1, UntouchedOrder DEF OrderKept
<1> QED BY <1>4, <1>5

(* What is added goes behind what is there.                                *)
LEMMA AddKeeps ==
  ASSUME PlacesKept, NEW c \in DOMAIN collections, NEW ids \in Seq(Artifacts),
         collections' = [collections EXCEPT ![c].position = Appended(@, ids)]
  PROVE  PlacesKept' /\ OrderKept
<1> DEFINE pos == collections[c].position
           new == Appended(pos, ids)
<1>1. Orderly(new) /\ InOrder(pos, new)
  BY AdditionsFollow DEF PlacesKept
<1>2. collections' = [collections EXCEPT ![c].position = new]
  BY DEF PlacesKept, Arranged
<1> HIDE DEF new
<1>3. /\ PlacesKept' /\ DOMAIN collections' = DOMAIN collections
      /\ collections'[c].position = new
      /\ \A d \in DOMAIN collections \ {c} : collections'[d] = collections[d]
  BY <1>1, <1>2, NewPositions
<1> QED BY <1>1, <1>3, UntouchedOrder DEF OrderKept

(* Every step on collections keeps them orderly.                           *)
LEMMA CollectionStepsKeep ==
  ASSUME PlacesKept, CollectionSteps
  PROVE  /\ PlacesKept' /\ OrderKept
         /\ UNCHANGED <<vocabulary, carried, boards>>
<1>1. PICK c \in CollectionIds :
        \/ \E title \in Titles : CreateCollection(title, c) \/ UpdateCollection(c, title)
        \/ DeleteCollection(c)
        \/ \E ids \in Selections : Add(c, ids)
        \/ \E a \in Artifacts : RemoveMember(c, a)
        \/ \E ids \in Orders : Reorder(c, ids)
  BY DEF CollectionSteps
<1>2. ASSUME NEW title \in Titles, CreateCollection(title, c)
      PROVE  PlacesKept' /\ OrderKept
  BY <1>2, EmptyIsOrderly, CreatedIsOrderly DEF CreateCollection
<1>3. ASSUME NEW title \in Titles, UpdateCollection(c, title)
      PROVE  PlacesKept' /\ OrderKept
  <2>1. c \in DOMAIN collections /\ collections' = [collections EXCEPT ![c].title = title]
    BY <1>3 DEF UpdateCollection
  <2>2. DOMAIN collections' = DOMAIN collections
    BY <2>1
  <2>3. \A d \in DOMAIN collections :
          collections'[d] \in Arranged /\ collections'[d].position = collections[d].position
    BY <2>1 DEF PlacesKept, Arranged
  <2>4. collections' \in [DOMAIN collections' -> Arranged]
    BY <2>1, <2>2, <2>3
  <2>5. PlacesKept'
    BY <2>2, <2>3, <2>4 DEF PlacesKept
  <2> QED BY <2>2, <2>3, <2>5, UntouchedOrder DEF OrderKept
<1>4. ASSUME DeleteCollection(c)
      PROVE  PlacesKept' /\ OrderKept
  <2>1. collections' = Without(collections, c)
    BY <1>4 DEF DeleteCollection
  <2>2. \A d \in DOMAIN collections' : d \in DOMAIN collections /\ collections'[d] = collections[d]
    BY <2>1 DEF Without
  <2>3. PlacesKept'
    BY <2>1, <2>2 DEF PlacesKept, Without
  <2> QED BY <2>2, <2>3, UntouchedOrder DEF OrderKept
<1>5. ASSUME NEW ids \in Selections, Add(c, ids)
      PROVE  PlacesKept' /\ OrderKept
  <2>1. ids \in Seq(Artifacts)
    <3>1. PICK p \in Artifacts, q \in Artifacts : ids = <<p>> \/ ids = <<p, q>>
      BY DEF Selections
    <3>2. \A a, b \in Artifacts : <<a>> \in Seq(Artifacts) /\ <<a, b>> \in Seq(Artifacts)
      OBVIOUS
    <3> QED BY <3>1, <3>2
  <2> QED BY <1>5, <2>1, AddKeeps DEF Add
<1>6. ASSUME NEW a \in Artifacts, RemoveMember(c, a)
      PROVE  PlacesKept' /\ OrderKept
  <2> DEFINE pos == collections[c].position
             new == Without(pos, a)
  <2>1. c \in DOMAIN collections /\ collections' = [collections EXCEPT ![c].position = new]
    BY <1>6 DEF RemoveMember, PlacesKept, Arranged
  <2>2. Orderly(pos)
    BY <2>1 DEF PlacesKept
  <2>3. DOMAIN new = DOMAIN pos \ {a} /\ \A b \in DOMAIN new : new[b] = pos[b]
    BY DEF Without
  <2>4. new \in [DOMAIN new -> Places] /\ DOMAIN new \subseteq Artifacts
    BY <2>2, <2>3 DEF Without, Orderly, Positions
  <2> HIDE DEF new
  <2>5. Orderly(new) /\ InOrder(pos, new)
    BY <2>2, <2>3, <2>4 DEF Orderly, Positions, Distinct, Capped, InOrder
  <2>6. /\ PlacesKept' /\ DOMAIN collections' = DOMAIN collections
        /\ collections'[c].position = new
        /\ \A d \in DOMAIN collections \ {c} : collections'[d] = collections[d]
    BY <2>1, <2>5, NewPositions
  <2> QED BY <2>5, <2>6, UntouchedOrder DEF OrderKept
<1>7. ASSUME NEW ids \in Orders, Reorder(c, ids)
      PROVE  PlacesKept' /\ OrderKept
  <2> DEFINE pos == collections[c].position
             new == [a \in DOMAIN pos |->
                       IF a \in Range(ids) THEN CHOOSE i \in DOMAIN ids : ids[i] = a ELSE pos[a]]
  <2>1. c \in DOMAIN collections /\ collections' = [collections EXCEPT ![c].position = new]
    BY <1>7 DEF Reorder, PlacesKept, Arranged
  <2>2. PICK n \in 1 .. Cardinality(Artifacts) : ids \in [1 .. n -> Artifacts]
    BY DEF Orders
  <2>3. \A a \in DOMAIN pos : new[a] \in 1 .. n /\ ids[new[a]] = a
    BY <1>7, <2>2 DEF Reorder, ExactlyMembers, Members, Range
  <2>4. DOMAIN new = DOMAIN pos /\ new = [a \in DOMAIN new |-> new[a]] /\ DOMAIN pos \subseteq Artifacts
    BY <2>1 DEF PlacesKept, Orderly, Positions
  <2> HIDE DEF new
  <2>5. n \in Nat
    BY <2>2
  <2>6. new \in [DOMAIN new -> Places]
    BY <2>3, <2>4, <2>5 DEF Places
  <2>7. Orderly(new)
    BY <2>3, <2>4, <2>5, <2>6 DEF Orderly, Positions, Distinct, Capped
  <2>8. /\ PlacesKept' /\ DOMAIN collections' = DOMAIN collections
        /\ \A d \in DOMAIN collections \ {c} : collections'[d] = collections[d]
    BY <2>1, <2>7, NewPositions
  <2> QED BY <1>7, <2>8, UntouchedOrder DEF OrderKept
<1>8. UNCHANGED <<vocabulary, carried, boards>>
  BY <1>1 DEF CreateCollection, UpdateCollection, DeleteCollection, Add, RemoveMember, Reorder
<1> QED BY <1>1, <1>2, <1>3, <1>4, <1>5, <1>6, <1>7, <1>8

(* So does a promotion, which tags and collects.                           *)
LEMMA PromoteKeeps ==
  ASSUME CurationIInv, NEW a \in Artifacts, NEW typed \in Typed, NEW t \in TagIds,
         NEW title \in Titles, NEW c \in CollectionIds, PromoteArranges(a, typed, t, title, c)
  PROVE  CurationIInv' /\ OrderKept
<1>1. TagsKept /\ PlacesKept
  BY DEF CurationIInv
<1>2. /\ GetOrCreate(Normal[typed], t) /\ carried' = carried \cup {<<a, t>>} /\ boards' = boards
  BY DEF PromoteArranges
<1>3. TagsKept'
  BY <1>1, <1>2, NamesStayUnique DEF TagsKept, Owners
<1>4. <<a>> \in Seq(Artifacts)
  OBVIOUS
<1>5. CASE Titled(title) = {}
  <2>1. /\ c \notin DOMAIN collections
        /\ collections' = With(collections, c, [title |-> title, position |-> Appended(Empty, <<a>>)])
    BY <1>5 DEF PromoteArranges
  <2>2. Orderly(Appended(Empty, <<a>>))
    BY <1>4, EmptyIsOrderly, AdditionsFollow
  <2> QED BY <1>1, <1>3, <2>1, <2>2, CreatedIsOrderly DEF CurationIInv
<1>6. CASE Titled(title) # {}
  <2>1. c \in DOMAIN collections /\ collections' = [collections EXCEPT ![c].position = Appended(@, <<a>>)]
    BY <1>6 DEF PromoteArranges, Titled
  <2> QED BY <1>1, <1>3, <1>4, <2>1, AddKeeps DEF CurationIInv
<1> QED BY <1>5, <1>6

(* Every step keeps it.                                                    *)
LEMMA CurationStepKeeps ==
  ASSUME CurationIInv, [CurationNext]_curationVars
  PROVE  CurationIInv' /\ OrderKept
<1>1. CASE UNCHANGED curationVars
  BY <1>1, UntouchedOrder
     DEF curationVars, CurationIInv, TagsKept, PlacesKept, Owners, OrderKept, InOrder
<1>2. CASE TagSteps
  <2>1. TagsKept' /\ collections' = collections
    BY <1>2, TagStepsKeep DEF CurationIInv
  <2> QED BY <2>1, UntouchedOrder DEF CurationIInv, PlacesKept, OrderKept
<1>3. CASE CollectionSteps
  <2>1. PlacesKept' /\ OrderKept /\ UNCHANGED <<vocabulary, carried, boards>>
    BY <1>3, CollectionStepsKeep DEF CurationIInv
  <2> QED BY <2>1 DEF CurationIInv, TagsKept, Owners
<1>4. ASSUME NEW typed \in Typed, NEW t \in TagIds, NEW a \in Artifacts, NEW title \in Titles,
             NEW c \in CollectionIds, PromoteArranges(a, typed, t, title, c)
      PROVE  CurationIInv' /\ OrderKept
  BY <1>4, PromoteKeeps
<1>5. ASSUME CurationNext
      PROVE  \/ TagSteps \/ CollectionSteps
             \/ \E typed \in Typed, t \in TagIds, a \in Artifacts, title \in Titles, c \in CollectionIds :
                  PromoteArranges(a, typed, t, title, c)
  BY <1>5 DEF CurationNext, TagSteps, CollectionSteps
<1> QED BY <1>1, <1>2, <1>3, <1>4, <1>5

(* It holds in every reachable state.                                      *)
LEMMA CurationHolds == CurationSpec => []CurationIInv
<1>1. CurationIInv /\ [CurationNext]_curationVars => CurationIInv'
  BY CurationStepKeeps
<1> QED BY CurationInitIInv, <1>1, PTL DEF CurationSpec

(* For any artifacts, projects, tags and typed names: a renamed or merged  *)
(* tag takes exactly its owners along, no two tags share a name, and what  *)
(* carries a tag and the tag exist (rename, get_or_create, apply_bulk).    *)
THEOREM OwnersFollowTheirTags == CurationSpec => RenamesKeepOwners
<1>1. CurationIInv /\ CurationIInv' /\ [CurationNext]_curationVars =>
        [/\ \A t \in DOMAIN vocabulary, typed \in Typed : RenameTag(t, typed) =>
              \A o \in Owners :
                NamesOf(o)' = IF vocabulary[t] \in NamesOf(o)
                              THEN (NamesOf(o) \ {vocabulary[t]}) \cup {Normal[typed]} ELSE NamesOf(o)
         /\ \A t, u \in DOMAIN vocabulary' : vocabulary'[t] = vocabulary'[u] => t = u
         /\ \A j \in carried' : j[1] \in Owners' /\ j[2] \in DOMAIN vocabulary']_curationVars
  <2>1. ASSUME CurationIInv, NEW t \in DOMAIN vocabulary, NEW typed \in Typed, RenameTag(t, typed)
        PROVE  NamesFollow(t, typed)
    BY <2>1, RenameKeepsTags DEF CurationIInv
  <2>2. CurationIInv' => /\ \A t, u \in DOMAIN vocabulary' : vocabulary'[t] = vocabulary'[u] => t = u
                         /\ \A j \in carried' : j[1] \in Owners' /\ j[2] \in DOMAIN vocabulary'
    BY DEF CurationIInv, TagsKept
  <2> QED BY <2>1, <2>2 DEF NamesFollow
<1> QED BY <1>1, CurationHolds, PTL DEF CurationSpec, RenamesKeepOwners

(* For any artifacts, collections and selections: but for a reorder of the *)
(* whole, members keep their order, new ones come after them and no two    *)
(* share a position (add_to_collection, reorder_collection).               *)
THEOREM OrderStaysTheOperators == CurationSpec => OrderIsTheOperators
<1>1. CurationIInv /\ CurationIInv' /\ [CurationNext]_curationVars =>
        [\A c \in DOMAIN collections \cap DOMAIN collections' :
           LET old == collections[c].position
               new == collections'[c].position
           IN /\ \A a, b \in DOMAIN new : new[a] = new[b] => a = b
              /\ (~ \E ids \in Orders : Reorder(c, ids)) =>
                   \A a \in DOMAIN old \cap DOMAIN new, b \in DOMAIN new :
                     (b \in DOMAIN old => old[a] < old[b]) => new[a] < new[b]]_curationVars
  <2>1. CurationIInv /\ [CurationNext]_curationVars => OrderKept
    BY CurationStepKeeps
  <2>2. CurationIInv' => \A c \in DOMAIN collections' : Distinct(collections'[c].position)
    BY DEF CurationIInv, PlacesKept, Orderly
  <2> QED BY <2>1, <2>2 DEF OrderKept, InOrder, Distinct
<1> QED BY <1>1, CurationHolds, PTL DEF CurationSpec, OrderIsTheOperators
=============================================================================
