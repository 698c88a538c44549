-------------------------- MODULE ProfileConnections --------------------------
(***************************************************************************)
(* The dashboards and connections the gateway keeps, one for each profile  *)
(* that Hermes lists (gateway/domain/profile_connection.py).  The routes   *)
(* that create, rename and delete profiles (ProfileAdmin) ask for a pass   *)
(* of their own.                                                           *)
(*                                                                         *)
(* Passes are not serialized: a route's pass and the timer's interleave at *)
(* every await.  The default profile's connection is the shared one, has   *)
(* no process and is never torn down while Hermes lists it; it is left to  *)
(* EventBroadcaster and HermesConnection, and its renaming, which changes  *)
(* a display name only, is left out.                                       *)
(***************************************************************************)
EXTENDS Naturals, FiniteSets

CONSTANTS
  Profiles,        (* names of profiles other than the default             *)
  Listings,        (* what Hermes may list at first                        *)
  Processes,       (* process ids of one profile's dashboards, reused      *)
  Requests,        (* routes that may wait for a pass at once              *)
  Timer,           (* the pass of the reconciliation timer                 *)
  Nobody,
  ReapOrphans,     (* launched through docker exec, with a reaper          *)
  MaxReconciles, MaxProfileFaults                          (* bounds       *)

ASSUME PassesAssumption == IsFiniteSet(Requests)

Passes == {Timer} \cup Requests

VARIABLES
  listed,        \* the profiles Hermes lists
  dashboards,    \* the isolated dashboards that run for each profile
  connections,   \* ProfileConnectionManager._connections
  pass,          \* where each pass of reconcile() is
  asks,          \* which routes wait for a pass of their own
  unreaped,      \* launches since the last reap that worked whose own failed
  spent          \* what the bounds have left

profileVars ==
  <<listed, dashboards, connections, pass, asks, unreaped, spent>>

AtRest == [at |-> "rest", phase |-> "start", wanted |-> {}, todo |-> {},
           seen |-> <<>>, name |-> Nobody, process |-> Nobody]
Nothing == [x \in {} |-> 0]

ProfilesInit ==
  /\ listed \in Listings
  /\ dashboards = [p \in Profiles |-> {}]
  /\ connections = Nothing
  /\ pass = [b \in Passes |-> AtRest]
  /\ asks = [r \in Requests |-> FALSE]
  /\ unreaped = [p \in Profiles |-> 0]
  /\ spent = [requests |-> 0, faults |-> 0]

-----------------------------------------------------------------------------
(* The processes.                                                          *)

IsAlive(p, i) == i \in dashboards[p]

(* A reaped profile loses every isolated dashboard, whoever launched it.   *)
LeftByProcess(p, i) == dashboards[p] \ {i}
Left(p, i) == IF ReapOrphans THEN {} ELSE dashboards[p] \ {i}
Reaped(p, i) ==
  /\ dashboards' = [dashboards EXCEPT ![p] = Left(p, i)]
  /\ unreaped' = [unreaped EXCEPT ![p] = 0]

(* reap() swallows its own failure, a timeout and an answer it does not    *)
(* understand; some of the dashboards may be gone then, or none.           *)
NotReaped(p) ==
  /\ ReapOrphans
  /\ \E left \in SUBSET dashboards[p] : dashboards' = [dashboards EXCEPT ![p] = left]

(* An id may be reused once nothing refers to it.                          *)
Unused(p, i) ==
  /\ i \notin dashboards[p]
  /\ p \in DOMAIN connections => connections[p] # i
  /\ \A b \in Passes : /\ pass[b].name = p => pass[b].process # i
                       /\ p \in DOMAIN pass[b].seen => pass[b].seen[p] # i

Fail ==
  /\ spent.faults < MaxProfileFaults
  /\ spent' = [spent EXCEPT !.faults = @ + 1]

-----------------------------------------------------------------------------
(* One pass of reconcile().                                                *)

(* What profiles.list answers may be old by the time it arrives.           *)
Begin(b) ==
  /\ pass[b].at = "rest"
  /\ pass' = [pass EXCEPT ![b] = [AtRest EXCEPT
       !.at = "next", !.wanted = listed, !.todo = listed]]
  /\ UNCHANGED <<listed, dashboards, connections, unreaped, spent>>

TimerFires == Begin(Timer) /\ UNCHANGED asks

(* The names of a loop that need nothing when their turn comes; any of     *)
(* them may come before the one that does.                                 *)
AllOf(b) == pass[b].todo
Here(b) == pass[b].todo \cap DOMAIN connections
Running(b) == {p \in pass[b].todo : IsAlive(p, pass[b].seen[p])}
Wanted(b) == pass[b].todo \cap pass[b].wanted
Idle(b) == CASE pass[b].phase = "start"  -> Here(b)
             [] pass[b].phase = "revive" -> Running(b)
             [] pass[b].phase = "remove" -> Wanted(b)
Due(b) == pass[b].todo \ Idle(b)

Turn(b, p, at) ==
  /\ pass[b].at = "next"
  /\ p \in Due(b)
  /\ \E skipped \in SUBSET Idle(b) :
       pass' = [pass EXCEPT ![b] = [pass[b] EXCEPT
         !.at = at, !.name = IF at = "next" THEN Nobody ELSE p,
         !.todo = pass[b].todo \ (skipped \cup {p}),
         !.process = IF at = "stop" THEN connections[p] ELSE Nobody]]
  /\ UNCHANGED <<listed, dashboards, asks, unreaped, spent>>

(* _teardown pops the connection that has the name now, if one has.        *)
TearDown(b, p) ==
  /\ pass[b].phase # "start" /\ p \in DOMAIN connections
  /\ Turn(b, p, "stop")
  /\ connections' = [q \in DOMAIN connections \ {p} |-> connections[q]]
Launch(b, p) ==
  /\ pass[b].phase = "start" \/ (pass[b].phase = "revive" /\ p \notin DOMAIN connections)
  /\ Turn(b, p, "reap")
  /\ UNCHANGED connections
GoneAlready(b, p) ==
  /\ pass[b].phase = "remove" /\ p \notin DOMAIN connections
  /\ Turn(b, p, "next")
  /\ UNCHANGED connections

(* Each loop runs over what is there when it begins.                       *)
NextLoop(b) ==
  /\ pass[b].at = "next" /\ Due(b) = {}
  /\ pass' = [pass EXCEPT ![b] =
       CASE pass[b].phase = "start" ->
              [AtRest EXCEPT !.at = "next", !.phase = "revive",
                 !.wanted = pass[b].wanted, !.todo = DOMAIN connections,
                 !.seen = connections]
         [] pass[b].phase = "revive" ->
              [AtRest EXCEPT !.at = "next", !.phase = "remove",
                 !.wanted = pass[b].wanted, !.todo = DOMAIN connections]
         [] OTHER -> AtRest]
  /\ UNCHANGED <<listed, dashboards, connections, asks, unreaped, spent>>

(* stop(): the process, then the profile's orphans; then _start for one    *)
(* that is to be revived.  A process launched through docker exec outlives *)
(* its client, so that only the reap ends it.                              *)
Stop(b) ==
  LET p == pass[b].name IN
  /\ pass[b].at = "stop"
  /\ \/ Reaped(p, pass[b].process) /\ UNCHANGED spent
     \/ NotReaped(p) /\ Fail /\ UNCHANGED unreaped
  /\ pass' = [pass EXCEPT ![b] = IF pass[b].phase = "revive"
       THEN [pass[b] EXCEPT !.at = "reap", !.process = Nobody]
       ELSE [pass[b] EXCEPT !.at = "next", !.process = Nobody, !.name = Nobody]]
  /\ UNCHANGED <<listed, connections, asks>>

(* launch(): reap, spawn, read the ready line; then connect.  It spawns    *)
(* whatever became of the reap.                                            *)
Reap(b) ==
  LET p == pass[b].name IN
  /\ pass[b].at = "reap"
  /\ \/ Reaped(p, Nobody) /\ UNCHANGED spent
     \/ NotReaped(p) /\ Fail /\ unreaped' = [unreaped EXCEPT ![p] = @ + 1]
  /\ pass' = [pass EXCEPT ![b].at = "spawn"]
  /\ UNCHANGED <<listed, connections, asks>>

(* Ids are alike: any unused one will do.                                  *)
Spawn(b) ==
  LET p == pass[b].name
      i == CHOOSE j \in Processes : Unused(p, j) IN
  /\ pass[b].at = "spawn"
  /\ \E j \in Processes : Unused(p, j)
  /\ dashboards' = [dashboards EXCEPT ![p] = @ \cup {i}]
  /\ pass' = [pass EXCEPT ![b].at = "boot", ![b].process = i]
  /\ UNCHANGED <<listed, connections, asks, unreaped, spent>>

(* The connection takes the name, whichever was there.                     *)
Connected(b) ==
  LET p == pass[b].name IN
  /\ pass[b].at = "boot"
  /\ IsAlive(pass[b].name, pass[b].process)
  /\ connections' = [q \in DOMAIN connections \cup {p} |->
                       IF q = p THEN pass[b].process ELSE connections[q]]
  /\ pass' = [pass EXCEPT ![b].at = "next", ![b].name = Nobody, ![b].process = Nobody]
  /\ UNCHANGED <<listed, dashboards, asks, unreaped, spent>>

(* It exited before it was ready.                                          *)
Died(b) ==
  /\ pass[b].at = "boot"
  /\ ~IsAlive(pass[b].name, pass[b].process)
  /\ pass' = [pass EXCEPT ![b].at = "next", ![b].name = Nobody, ![b].process = Nobody]
  /\ UNCHANGED <<listed, dashboards, connections, asks, unreaped, spent>>

(* It was not ready in time.  A kill of docker exec does not reach it.     *)
TimedOut(b) ==
  /\ pass[b].at = "boot"
  /\ Fail
  /\ dashboards' = [dashboards EXCEPT ![pass[b].name] =
                      IF ReapOrphans THEN @ ELSE @ \ {pass[b].process}]
  /\ pass' = [pass EXCEPT ![b].at = "next", ![b].name = Nobody, ![b].process = Nobody]
  /\ UNCHANGED <<listed, connections, asks, unreaped>>

(* It was ready, and the gateway could not connect to it.                  *)
Refused(b) ==
  /\ pass[b].at = "boot"
  /\ Fail
  /\ \/ Reaped(pass[b].name, pass[b].process)
     \/ NotReaped(pass[b].name) /\ UNCHANGED unreaped
  /\ pass' = [pass EXCEPT ![b].at = "next", ![b].name = Nobody, ![b].process = Nobody]
  /\ UNCHANGED <<listed, connections, asks>>

-----------------------------------------------------------------------------
(* The routes (ProfileAdmin) that change what Hermes lists and then ask    *)
(* for a pass; when the route fails, or the operator uses Hermes's own     *)
(* commands, none follows.                                                 *)

(* A pass whose profiles.list fails does nothing, like one not asked for.  *)
Changes(r) ==
  /\ ~asks[r] /\ pass[r].at = "rest"
  /\ spent.requests < MaxReconciles
  /\ spent' = [spent EXCEPT !.requests = @ + 1]
  /\ \E p, q \in Profiles :
       \/ p \notin listed /\ listed' = listed \cup {p}
       \/ p \in listed /\ listed' = listed \ {p}
       \/ p \in listed /\ q \notin listed /\ listed' = (listed \ {p}) \cup {q}
  /\ asks' \in {asks, [asks EXCEPT ![r] = TRUE]}
  /\ UNCHANGED <<dashboards, connections, pass, unreaped>>

RouteAsks(r) ==
  /\ asks[r]
  /\ Begin(r)
  /\ asks' = [asks EXCEPT ![r] = FALSE]

-----------------------------------------------------------------------------
(* A dashboard that exits, and a gateway that is restarted.                *)

Exits(p, i) ==
  /\ IsAlive(p, i)
  /\ Fail
  /\ dashboards' = [dashboards EXCEPT ![p] = @ \ {i}]
  /\ UNCHANGED <<listed, connections, pass, asks, unreaped>>

(* Dashboards outlive a gateway that is killed.                            *)
ProfilesRestart ==
  /\ Fail
  /\ connections' = Nothing
  /\ pass' = [b \in Passes |-> AtRest]
  /\ asks' = [r \in Requests |-> FALSE]
  /\ UNCHANGED <<listed, dashboards, unreaped>>

PassStep(b) ==
  \/ NextLoop(b) \/ Stop(b) \/ Reap(b) \/ Spawn(b)
  \/ Connected(b) \/ Died(b) \/ TimedOut(b) \/ Refused(b)
  \/ \E p \in Profiles : TearDown(b, p) \/ Launch(b, p) \/ GoneAlready(b, p)

ProfilesNext ==
  \/ TimerFires \/ ProfilesRestart
  \/ \E b \in Passes : PassStep(b)
  \/ \E r \in Requests : Changes(r) \/ RouteAsks(r)
  \/ \E p \in Profiles, i \in Processes : Exits(p, i)

-----------------------------------------------------------------------------
Served(p) == p \in DOMAIN connections /\ connections[p] \in dashboards[p]

(* However passes overlap, and however often the gateway restarts, no      *)
(* profile has more isolated dashboards than there are passes, and one for *)
(* each launch since the last reap that worked whose own reap failed: a    *)
(* reap ends what all earlier launches left (SubprocessProfileLauncher,    *)
(* B-165), and a launch whose reap failed goes ahead.                      *)
FewDashboards ==
  ReapOrphans => \A p \in Profiles :
    Cardinality(dashboards[p]) <= Cardinality(Passes) + unreaped[p]

(* A profile that stays listed ends up with a connection to a dashboard    *)
(* that runs, and one that is gone ends up without a connection, whatever  *)
(* stale passes did meanwhile (reconcile).                                 *)
ProfilesFollowHermes ==
  \A p \in Profiles :
    /\ <>[](p \in listed) => <>[]Served(p)
    /\ <>[](p \notin listed) => <>[](p \notin DOMAIN connections)

ProfilesSpec == ProfilesInit /\ [][ProfilesNext]_profileVars

(* The timer's task runs, and every await ends.                            *)
PassFairness(b) ==
  /\ WF_profileVars(NextLoop(b))
  /\ WF_profileVars(\E p \in Profiles :
                       TearDown(b, p) \/ Launch(b, p) \/ GoneAlready(b, p))
  /\ WF_profileVars(Stop(b)) /\ WF_profileVars(Reap(b)) /\ WF_profileVars(Spawn(b))
  /\ WF_profileVars(Connected(b)) /\ WF_profileVars(Died(b))
ProfilesFair ==
  ProfilesSpec /\ WF_profileVars(TimerFires) /\ \A b \in Passes : PassFairness(b)
=============================================================================
