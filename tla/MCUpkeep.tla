-------------------------------- MODULE MCUpkeep --------------------------------
(***************************************************************************)
(* The gateway's own timers and background tasks: the sweep that copies    *)
(* sessions, the tasks that deliver uploads, and the passes that keep a    *)
(* connection to every profile; each on its own small instance: `part'     *)
(* says which one a behaviour is about.                                    *)
(***************************************************************************)
EXTENDS Snapshots, AttachmentOrchestrator, ProfileConnections

CONSTANTS document, image

NoneOrP == {{}, {"p"}}

VARIABLE part

upkeepVars == <<part, snapshotVars, uploadVars, profileVars>>

(* All sessions, or all but the last, are of the default profile.          *)
Init ==
  /\ part \in {"snapshots", "uploads", "profiles"}
  /\ SnapshotInit /\ UploadInit /\ ProfilesInit
  /\ part # "uploads" => direct
  /\ part = "profiles" <=> listed # {}
  /\ foreign \in {{}, {N}} /\ (part # "snapshots" => foreign = {})

OfSnapshots(A) ==
  part = "snapshots" /\ A /\ UNCHANGED <<part, uploadVars, profileVars>>
OfUploads(A) ==
  part = "uploads" /\ A /\ UNCHANGED <<part, snapshotVars, profileVars>>
OfProfiles(A) ==
  part = "profiles" /\ A /\ UNCHANGED <<part, snapshotVars, uploadVars>>

Next ==
  \/ OfSnapshots(SnapshotNext) \/ OfUploads(UploadNext)
  \/ OfProfiles(ProfilesNext)

(* The fairness of SnapshotFair, UploadFair and ProfilesFair.              *)
Fairness ==
  /\ WF_upkeepVars(OfSnapshots(SweepStep))
  /\ WF_upkeepVars(OfUploads(\E swept \in BOOLEAN : Startup(swept)))
  /\ \A a \in Attachments : WF_upkeepVars(OfUploads(TaskStep(a)))
  /\ WF_upkeepVars(OfProfiles(TimerFires))
  /\ \A b \in Passes :
       /\ WF_upkeepVars(OfProfiles(NextLoop(b)))
       /\ WF_upkeepVars(OfProfiles(\E p \in Profiles :
                          TearDown(b, p) \/ Launch(b, p) \/ GoneAlready(b, p)))
       /\ WF_upkeepVars(OfProfiles(Stop(b))) /\ WF_upkeepVars(OfProfiles(Reap(b)))
       /\ WF_upkeepVars(OfProfiles(Spawn(b))) /\ WF_upkeepVars(OfProfiles(Connected(b)))
       /\ WF_upkeepVars(OfProfiles(Died(b)))

Spec == Init /\ [][Next]_upkeepVars /\ Fairness
=============================================================================
