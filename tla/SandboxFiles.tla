------------------------------ MODULE SandboxFiles ------------------------------
(***************************************************************************)
(* One file of the sandbox and everybody who writes it: the editor's       *)
(* GET and PUT /sandbox/text (gateway/api/sandbox_text.py), the seeding of *)
(* a project's HERMES.md (domain/project_workspace.py), and the agent,     *)
(* which edits files on its own.  The gateway reaches the file through one *)
(* of two backends (domain/sandbox_fs.py): the direct one works in worker  *)
(* threads of its own process, so the steps of two saves interleave, and   *)
(* it names its temporary file after the target and the process, so two    *)
(* saves of one file share it; the other asks Hermes, one request a step.  *)
(*                                                                         *)
(* A file is an inode and its text; a save that opened the temporary file  *)
(* goes on writing to that inode wherever it has been renamed to.          *)
(* Permission, size and path checks that refuse a request before it reads  *)
(* the file are one Refused step.                                          *)
(***************************************************************************)
EXTENDS Naturals, FiniteSets

CONSTANTS
  Savers,          (* requests that may be in flight at once               *)
  Texts,           (* what the app and the agent write                     *)
  Binary,          (* a text of Texts the read route calls binary          *)
  Seed,            (* INSTRUCTIONS_SEED                                    *)
  MaxSaves, MaxEdits, MaxErrors                            (* bounds       *)

ASSUME SaversAssumption == IsFiniteSet(Savers)
ASSUME TextsAssumption == {"", "torn", Seed} \cap Texts = {} /\ Binary \in Texts

Inodes == 0 .. Cardinality(Savers) + 1
Nowhere == Cardinality(Savers) + 2           (* no such file               *)
NoSave == [at |-> "none"]
AnyText == "any"                             (* a write without condition  *)

VARIABLES
  direct,    \* the direct backend is installed
  text,      \* the text of each inode
  target,    \* the inode the file's name stands for
  temp,      \* the inode of the temporary name
  save,      \* what each request is about
  held,      \* every text the file had since the request began
  together,  \* two saves have been writing at once
  saves, edits, errors

sandboxVars == <<direct, text, target, temp, save, held, together, saves, edits, errors>>
fileVars == <<text, target, temp>>

SandboxInit ==
  /\ direct \in BOOLEAN
  /\ text = [i \in Inodes |-> ""]
  /\ target = Nowhere /\ temp = Nowhere
  /\ save = [s \in Savers |-> NoSave]
  /\ held = [s \in Savers |-> {}]
  /\ together = FALSE
  /\ saves = 0 /\ edits = 0 /\ errors = 0

TextAt(i) == IF i = Nowhere THEN "" ELSE text[i]
Current == TextAt(target)
Editable(t) == t # Binary
Busy == {s \in Savers : save[s] # NoSave}
(* In the worker thread, past the comparison.                              *)
Writing == {s \in Savers : save[s].at \in {"open", "fill", "swap"}}
Opened == {save[s].inode : s \in {w \in Savers : save[w].at \in {"fill", "swap"}}}
Unused == CHOOSE i \in Inodes : i \notin Opened \cup {target, temp}

(* Every step keeps `held` and `together` up to date.                      *)
SaveNoted ==
  /\ held' = [s \in Savers |-> IF save'[s] = NoSave THEN {}
                               ELSE held[s] \cup {IF target' = Nowhere THEN "" ELSE text'[target']}]
  /\ together' = (together \/ Cardinality(Writing') > 1)
SaveGoes(s, at) == save' = [save EXCEPT ![s].at = at]
SaveEnds(s) == save' = [save EXCEPT ![s] = NoSave]
Errs == errors < MaxErrors /\ errors' = errors + 1

-----------------------------------------------------------------------------
(* The requests.                                                           *)

(* PUT: the app read some text, shown by its hash, and sends another.      *)
SaveAsks(s, expected, content, at) ==
  /\ save[s] = NoSave
  /\ saves < MaxSaves
  /\ saves' = saves + 1
  /\ save' = [save EXCEPT ![s] =
       [at |-> at, expects |-> expected, condition |-> expected, writes |-> content,
        inode |-> Nowhere]]
  /\ UNCHANGED <<direct, fileVars, edits, errors>>
  /\ SaveNoted

Put(s) == \E expected \in (Texts \cup {Seed}) \ {Binary}, content \in Texts \ {Binary} :
            SaveAsks(s, expected, content, "read")
(* ensure_instructions_file, once the directory is made.                   *)
Seeds(s) == SaveAsks(s, AnyText, Seed, "exists")

(* The request is refused, or Hermes is not reached.                       *)
Refused(s) ==
  /\ save[s].at \in {"read", "exists"}
  /\ Errs
  /\ save' = IF save[s].at = "exists" THEN [save EXCEPT ![s].at = "send"]
             ELSE [save EXCEPT ![s] = NoSave]
  /\ UNCHANGED <<direct, fileVars, saves, edits>>
  /\ SaveNoted

(* instructions_file_exists                                                *)
Exists(s) ==
  /\ save[s].at = "exists"
  /\ IF target = Nowhere THEN SaveGoes(s, "send") ELSE SaveEnds(s)
  /\ UNCHANGED <<direct, fileVars, saves, edits, errors>>
  /\ SaveNoted

(* write_sandbox_text's own comparison: 404, or 409 and the app reloads.   *)
MatchesItself(s) == target # Nowhere /\ Editable(Current)
Matches(s) == target # Nowhere /\ Editable(Current) /\ Current = save[s].expects
ReadCurrent(s) ==
  /\ save[s].at = "read"
  /\ save' = [save EXCEPT ![s] =
       IF Matches(s) THEN [@ EXCEPT !.at = "send", !.condition = Current] ELSE NoSave]
  /\ UNCHANGED <<direct, fileVars, saves, edits, errors>>
  /\ SaveNoted

(* Hermes writes the text as it is told; its answer may be lost.           *)
WriteByHermes(s) ==
  /\ save[s].at = "send" /\ ~direct
  /\ \/ SaveGoes(s, "reread") /\ UNCHANGED errors
     \/ SaveEnds(s) /\ Errs
  /\ target' = IF target = Nowhere THEN Unused ELSE target
  /\ text' = [text EXCEPT ![target'] = save[s].writes]
  /\ UNCHANGED <<direct, temp, saves, edits>>
  /\ SaveNoted
NotWrittenByHermes(s) ==
  /\ save[s].at = "send" /\ ~direct
  /\ Errs /\ SaveEnds(s)
  /\ UNCHANGED <<direct, fileVars, saves, edits>>
  /\ SaveNoted

-----------------------------------------------------------------------------
(* _write_text_sync, in a worker thread.                                   *)

Compare(s) ==
  /\ save[s].at = "send" /\ direct
  /\ IF save[s].condition \in {AnyText, Current} THEN SaveGoes(s, "open") ELSE SaveEnds(s)
  /\ UNCHANGED <<direct, fileVars, saves, edits, errors>>
  /\ SaveNoted

(* tmp.write_text opens the temporary name and empties it ...              *)
TempName == temp
Open(s) ==
  /\ save[s].at = "open"
  /\ LET i == IF TempName = Nowhere THEN Unused ELSE TempName IN
       /\ text' = [text EXCEPT ![i] = ""]
       /\ temp' = i
       /\ save' = [save EXCEPT ![s].at = "fill", ![s].inode = i]
  /\ UNCHANGED <<direct, target, saves, edits, errors>>
  /\ SaveNoted

(* ... and writes from its start: over what another save had written there *)
(* the longer of the two shows through.                                    *)
Fill(s) ==
  /\ save[s].at = "fill"
  /\ SaveGoes(s, "swap")
  /\ \E t \in {save[s].writes} \cup
             (IF text[save[s].inode] \in {"", save[s].writes} THEN {} ELSE {"torn"}) :
       text' = [text EXCEPT ![save[s].inode] = t]
  /\ UNCHANGED <<direct, target, temp, saves, edits, errors>>
  /\ SaveNoted

(* os.replace moves whatever has the temporary name; with none, a 500.     *)
Swap(s) ==
  /\ save[s].at = "swap"
  /\ IF temp = Nowhere THEN SaveEnds(s) /\ UNCHANGED target
     ELSE SaveGoes(s, "reread") /\ target' = temp
  /\ temp' = Nowhere
  /\ UNCHANGED <<direct, text, saves, edits, errors>>
  /\ SaveNoted

(* The disk is full or not writable: the temporary file is removed.        *)
SaveWriteFails(s) ==
  /\ save[s].at \in {"open", "fill", "swap"}
  /\ Errs /\ SaveEnds(s)
  /\ temp' = Nowhere
  /\ UNCHANGED <<direct, text, target, saves, edits>>
  /\ SaveNoted

(* The answer shows what the backend holds by now.                         *)
Reread(s) ==
  /\ save[s].at = "reread"
  /\ SaveEnds(s)
  /\ UNCHANGED <<direct, fileVars, saves, edits, errors>>
  /\ SaveNoted

-----------------------------------------------------------------------------
(* The agent edits the file, or deletes it; the process dies, and its      *)
(* successor has the same number, as the one process of a container has.   *)

AgentEdits ==
  /\ edits < MaxEdits /\ edits' = edits + 1
  /\ \E t \in Texts :
       /\ target' = IF target = Nowhere THEN Unused ELSE target
       /\ text' = [text EXCEPT ![target'] = t]
  /\ UNCHANGED <<direct, temp, save, saves, errors>>
  /\ SaveNoted

AgentDeletes ==
  /\ edits < MaxEdits /\ edits' = edits + 1
  /\ target # Nowhere
  /\ target' = Nowhere
  /\ UNCHANGED <<direct, text, temp, save, saves, errors>>
  /\ SaveNoted

Dies ==
  /\ Busy # {}
  /\ Errs
  /\ save' = [s \in Savers |-> NoSave]
  /\ UNCHANGED <<direct, fileVars, saves, edits>>
  /\ SaveNoted

SandboxNext ==
  \/ AgentEdits \/ AgentDeletes \/ Dies
  \/ \E s \in Savers :
       \/ Put(s) \/ Seeds(s) \/ Refused(s) \/ Exists(s) \/ ReadCurrent(s)
       \/ WriteByHermes(s) \/ NotWrittenByHermes(s)
       \/ Compare(s) \/ Open(s) \/ Fill(s) \/ Swap(s) \/ SaveWriteFails(s) \/ Reread(s)

SandboxSpec == SandboxInit /\ [][SandboxNext]_sandboxVars

-----------------------------------------------------------------------------
(* A save that has gone on to its write was of a text the file really had  *)
(* at some time since the request came in, whichever backend writes and    *)
(* whoever else does: no save is blind (write_sandbox_text).  And as long  *)
(* as no two saves have been in the worker threads at once the file is     *)
(* whole: it never shows half a write, not after a write that failed nor   *)
(* after the death of a process that left its temporary file behind for    *)
(* the next (test_write_replaces_atomically).                              *)
SavesAreSafe ==
  /\ \A s \in Savers :
       save[s].at \in {"send", "open", "fill", "swap", "reread"}
         => save[s].expects \in held[s] \cup {AnyText}
  /\ ~together /\ target # Nowhere => text[target] \in Texts \cup {Seed}

(* What the direct backend promises beyond Hermes's: the text it replaces  *)
(* is the text it compared.                                                *)
Replaces(s) == save[s].at = "swap" /\ save'[s].at = "reread"
ComparedIsReplaced ==
  [][\A s \in Savers : Replaces(s)
        => save[s].condition \in {AnyText, Current}]_sandboxVars
=============================================================================
