------------------------------- MODULE MCLibrary -------------------------------
(***************************************************************************)
(* How files become artifacts, how the operator arranges them, how an app  *)
(* reads the library while it changes, and what is filed in projects; each *)
(* on its own small instance: `part' says which one a behaviour is about.  *)
(***************************************************************************)
EXTENDS ArtifactIngest, Curation, ArtifactListing, ProjectFiling, TLC

CONSTANTS draft, Draft, final, blank

VARIABLE part

Init ==
  /\ part \in {"ingest", "curation", "listing", "filing"}
  /\ IngestInit /\ CurationInit /\ ListingInit /\ FilingInit

libraryVars == <<part, ingestVars, curationVars, listingVars, filingVars>>

(* Bound: a behaviour has a failure or an ingestion asked for outside of   *)
(* diffs, not both.                                                        *)
OneTrouble == failures = 0 \/ asked = 0

(* Bound: a behaviour has an artifact or a copy, not both: no operation    *)
(* reads one of them to change the other.                                  *)
OneReference == files = <<>> \/ copies = {}

Next ==
  \/ /\ part = "ingest" /\ IngestNext /\ OneTrouble'
     /\ UNCHANGED <<part, curationVars, listingVars, filingVars>>
  \/ /\ part = "curation" /\ CurationNext
     /\ UNCHANGED <<part, ingestVars, listingVars, filingVars>>
  \/ /\ part = "listing" /\ ListingNext
     /\ UNCHANGED <<part, ingestVars, curationVars, filingVars>>
  \/ /\ part = "filing" /\ FilingNext /\ OneReference'
     /\ UNCHANGED <<part, ingestVars, curationVars, listingVars>>

Spec == Init /\ [][Next]_libraryVars

-----------------------------------------------------------------------------
NormalNames == draft :> draft @@ Draft :> draft @@ final :> final @@ blank :> Refused
HomeOf == [s \in Sessions |-> IF s = "s1" THEN "default" ELSE "work"]
SomePaths == {<<"d", "e", "f">>, <<"d", "g">>, <<"h">>}
Kinds == [p \in SomePaths |-> IF p = <<"h">> THEN "image" ELSE "text"]
Wanted == {[latest |-> TRUE, starred |-> FALSE, kind |-> AnyKind],
           [latest |-> FALSE, starred |-> TRUE, kind |-> "text"]}
OneIgnored == {<<"h">>}

Symmetry == Permutations(Turns) \cup Permutations(Contents) \cup Permutations(Projects)
=============================================================================
