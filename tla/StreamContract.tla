--------------------------- MODULE StreamContract ---------------------------
(***************************************************************************)
(* What the gateway's event stream promises one app, without queues,       *)
(* history buffers or sockets (docs/STREAM_RECOVERY.md states it in        *)
(* prose).  The stream numbers its frames 1, 2, 3, ... within an epoch.    *)
(* An app that has not been told to reload believes that it holds every    *)
(* frame up to  known[c].upTo  of the epoch  known[c].epoch, and the       *)
(* stream may extend that belief only by the very next frame.  Whenever    *)
(* the stream cannot do so it has to tell the app, and a told app trusts   *)
(* nothing until it has reloaded the authoritative transcript.             *)
(***************************************************************************)
EXTENDS Naturals

CONSTANTS Clients     \* the apps that may hold an event socket

VARIABLES epoch,      \* the epoch that numbers the frames now
          published,  \* how many frames of this epoch have been numbered
          known,      \* [Clients -> [epoch: Nat, upTo: Nat]], each app's belief
          told        \* [Clients -> BOOLEAN], the apps that owe a reload

vars == <<epoch, published, known, told>>

Init ==
  /\ epoch = 1
  /\ published = 0
  /\ known = [c \in Clients |-> [epoch |-> 0, upTo |-> 0]]
  /\ told = [c \in Clients |-> TRUE]

Publish ==
  /\ published' = published + 1
  /\ UNCHANGED <<epoch, known, told>>

(* The process is replaced: the numbers start again under a new epoch.     *)
Restart ==
  /\ epoch' = epoch + 1
  /\ published' = 0
  /\ UNCHANGED <<known, told>>

(* The only way an app that trusts its transcript learns anything: the     *)
(* next frame, of the epoch it already follows.                            *)
Deliver(c) ==
  /\ ~told[c]
  /\ known[c].epoch = epoch
  /\ known[c].upTo < published
  /\ known' = [known EXCEPT ![c].upTo = @ + 1]
  /\ UNCHANGED <<epoch, published, told>>

(* The app is told that its transcript may have a hole.  Until it reloads  *)
(* it may be handed any frame of the current epoch.                        *)
Tell(c) ==
  /\ told' = [told EXCEPT ![c] = TRUE]
  /\ \E n \in 0..published :
       known' = [known EXCEPT ![c] = [epoch |-> epoch, upTo |-> n]]
  /\ UNCHANGED <<epoch, published>>

Reload(c) ==
  /\ told[c]
  /\ known[c].epoch = epoch
  /\ known' = [known EXCEPT ![c].upTo = published]
  /\ told' = [told EXCEPT ![c] = FALSE]
  /\ UNCHANGED <<epoch, published>>

Next ==
  \/ Publish
  \/ Restart
  \/ \E c \in Clients : Deliver(c) \/ Tell(c) \/ Reload(c)

Spec == Init /\ [][Next]_vars
=============================================================================
