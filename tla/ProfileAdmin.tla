------------------------------ MODULE ProfileAdmin ------------------------------
(***************************************************************************)
(* The routes that create, rename, delete and configure Hermes profiles    *)
(* (gateway/api/profile_admin.py), and the cache that tells a rewrite      *)
(* which endpoint a profile's model is on (domain/profile_endpoint.py).    *)
(*                                                                         *)
(* Hermes keeps the profiles.  A handler reads them, awaits, and acts on   *)
(* what it read; handlers interleave at every await.  Descriptions, and    *)
(* clone_from, whose result is Hermes's alone, are left out.               *)
(***************************************************************************)
EXTENDS Naturals

CONSTANTS
  AgentNames,      (* names of profiles other than the default             *)
  FirstAgents,     (* those there are to begin with                        *)
  Hosted,          (* providers every profile knows                        *)
  UserDefined,     (* providers a profile's own config.yaml must define    *)
  Mirrorable,      (* those with an api_url, and a slug the CLI can take   *)
  Admins,          (* requests that may be in flight at once               *)
  Ttl,             (* CACHE_TTL_S                                          *)
  CallTimeout,     (* how long a call may take, reconnecting included      *)
  MaxAdminWrites, MaxLost, MaxNow                               (* bounds       *)

ASSUME MirrorableAssumption == Mirrorable \subseteq UserDefined
ASSUME TtlAssumption == Ttl \in Nat /\ CallTimeout \in Nat /\ MaxNow \in Nat

Providers == Hosted \cup UserDefined
NoCall == [at |-> "none"]

VARIABLES
  agents,    \* Hermes's profiles: provider, its writer, providers defined, time
  call,      \* what each handler is about
  answered,  \* the writes that were answered without an error
  endpoints, \* profile_endpoint_cache
  resolving, \* resolve_profile_endpoint between its awaits
  used,      \* the endpoint a rewrite was last given, and for which profile
  now, writes, lost

adminVars == <<agents, call, answered, endpoints, resolving, used, now, writes, lost>>
requestVars == <<call, answered, writes>>
rewriteVars == <<endpoints, resolving, used>>

AdminInit ==
  /\ \E p \in Hosted :
       agents = [n \in FirstAgents |->
                   [provider |-> p, by |-> 0, defined |-> {}, since |-> 0]]
  /\ call = [r \in Admins |-> NoCall]
  /\ answered = {}
  /\ endpoints = [n \in {} |-> 0]
  /\ resolving = NoCall /\ used = NoCall
  /\ now = 0 /\ writes = 0 /\ lost = 0

There(n) == n \in DOMAIN agents

-----------------------------------------------------------------------------
(* The routes.                                                             *)

(* The checks a handler makes on the rows it reads.                        *)
Accepts(op, n, to) ==
  /\ op = "create" <=> ~There(n)
  /\ op = "rename" => ~There(to)

AdminAsks(r, op, n, to, p) ==
  /\ call[r] = NoCall
  /\ writes < MaxAdminWrites
  /\ Accepts(op, n, to)
  /\ call' = [call EXCEPT ![r] =
       [at |-> "write", op |-> op, name |-> n, to |-> to, provider |-> p,
        number |-> writes + 1]]
  /\ writes' = writes + 1
  /\ UNCHANGED <<agents, answered, rewriteVars, now, lost>>

CreateProfile(r) == \E n \in AgentNames, p \in Providers : AdminAsks(r, "create", n, n, p)
SetModel(r) == \E n \in AgentNames, p \in Providers : AdminAsks(r, "model", n, n, p)
Rename(r) == \E n, to \in AgentNames, p \in Hosted :
               n # to /\ AdminAsks(r, "rename", n, to, p)
Delete(r) == \E n \in AgentNames, p \in Hosted : AdminAsks(r, "delete", n, n, p)

(* A profile renamed under its writer is no longer the one the writer is   *)
(* about: the provider then goes to whoever has the name.                  *)
WriterOf(n) == IF \E r \in Admins : call[r].at = "mirror" /\ call[r].number = agents[n].by
               THEN 0 ELSE agents[n].by

(* What Hermes makes of the write, if it can.                              *)
Applies(c) == Accepts(c.op, c.name, c.to)
Applied(c) ==
  LET model(d) == [provider |-> c.provider, by |-> c.number, defined |-> d, since |-> now]
      rest == DOMAIN agents \ {c.name} IN
  CASE c.op = "create" ->
         [n \in rest \cup {c.name} |-> IF n = c.name THEN model({}) ELSE agents[n]]
    [] c.op = "model" -> [agents EXCEPT ![c.name] = model(@.defined)]
    [] c.op = "rename" ->
         [n \in rest \cup {c.to} |-> IF n = c.to
              THEN [agents[c.name] EXCEPT !.since = now, !.by = WriterOf(c.name)]
              ELSE agents[n]]
    [] c.op = "delete" -> [n \in rest |-> agents[n]]

(* The provider must also be in the profile's own configuration.  One that *)
(* cannot be mirrored is skipped, and the route goes on as if it had been. *)
MustMirrorOnCreate(c) == c.op = "create" /\ c.provider \in Mirrorable
MustMirror(c) == c.op \in {"create", "model"} /\ c.provider \in Mirrorable

AdminGoes(r, at) == call' = [call EXCEPT ![r].at = at] /\ UNCHANGED answered
AdminEnds(r, well) ==
  /\ call' = [call EXCEPT ![r] = NoCall]
  /\ answered' = IF well THEN answered \cup {call[r].number} ELSE answered
Loses == lost < MaxLost /\ lost' = lost + 1

Write(r) ==
  /\ call[r].at = "write" /\ Applies(call[r])
  /\ agents' = Applied(call[r])
  /\ AdminGoes(r, IF MustMirror(call[r]) THEN "mirror" ELSE "read")
  /\ UNCHANGED <<rewriteVars, now, writes, lost>>

(* Refused, not delivered, or the reply is lost: a 502, nothing undone.    *)
AdminWriteFails(r) ==
  /\ call[r].at = "write"
  /\ IF Applies(call[r]) THEN Loses /\ agents' \in {agents, Applied(call[r])}
     ELSE UNCHANGED <<agents, lost>>
  /\ AdminEnds(r, FALSE)
  /\ UNCHANGED <<rewriteVars, now, writes>>

(* `config set` for the profile that has the name by now.                  *)
Mirror(r) ==
  /\ call[r].at = "mirror" /\ There(call[r].name)
  /\ agents' = [agents EXCEPT ![call[r].name].defined = @ \cup {call[r].provider}]
  /\ AdminGoes(r, "read")
  /\ UNCHANGED <<rewriteVars, now, writes, lost>>
MirrorFails(r) ==
  /\ call[r].at = "mirror"
  /\ IF There(call[r].name) THEN Loses ELSE UNCHANGED lost
  /\ AdminEnds(r, FALSE)
  /\ UNCHANGED <<agents, rewriteVars, now, writes>>

(* The connections' pass (ProfileConnections), then the row is read back.  *)
ReadBack(r) ==
  /\ call[r].at = "read"
  /\ AdminEnds(r, call[r].op = "delete" \/ There(call[r].to))
  /\ UNCHANGED <<agents, rewriteVars, now, writes, lost>>

-----------------------------------------------------------------------------
(* A rewrite asks which endpoint its profile is on.                        *)

Fresh(n) == n \in DOMAIN endpoints /\ now - endpoints[n].at < Ttl
Uses(n, p) == used' = [at |-> "used", name |-> n, provider |-> p, now |-> now]

Hit(n) ==
  /\ resolving = NoCall
  /\ Fresh(n)
  /\ Uses(n, endpoints[n].provider)
  /\ UNCHANGED <<agents, requestVars, endpoints, resolving, now, lost>>

Miss(n) ==
  /\ resolving = NoCall
  /\ ~Fresh(n)
  /\ resolving' = [at |-> "profiles", name |-> n, began |-> now, asked |-> now]
  /\ UNCHANGED <<agents, requestVars, endpoints, used, now, lost>>

(* profiles.list answers; model.options is asked next.                     *)
ProfilesRead ==
  /\ resolving.at = "profiles"
  /\ resolving' = IF There(resolving.name)
       THEN [at |-> "options", name |-> resolving.name, began |-> resolving.began,
             asked |-> now, provider |-> agents[resolving.name].provider]
       ELSE NoCall
  /\ UNCHANGED <<agents, requestVars, endpoints, used, now, lost>>

(* The entry is as old as the question, not as the answer.                 *)
EndpointStamp == resolving.began
OptionsRead ==
  /\ resolving.at = "options"
  /\ Uses(resolving.name, resolving.provider)
  /\ endpoints' = [n \in DOMAIN endpoints \cup {resolving.name} |->
       IF n = resolving.name THEN [provider |-> resolving.provider, at |-> EndpointStamp]
       ELSE endpoints[n]]
  /\ resolving' = NoCall
  /\ UNCHANGED <<agents, requestVars, now, lost>>

Tick ==
  /\ now < MaxNow
  /\ resolving # NoCall => now < resolving.asked + CallTimeout
  /\ now' = now + 1
  /\ UNCHANGED <<agents, requestVars, rewriteVars, lost>>

AdminNext ==
  \/ Tick \/ ProfilesRead \/ OptionsRead
  \/ \E r \in Admins :
       \/ CreateProfile(r) \/ SetModel(r) \/ Rename(r) \/ Delete(r)
       \/ Write(r) \/ AdminWriteFails(r) \/ Mirror(r) \/ MirrorFails(r) \/ ReadBack(r)
  \/ \E n \in AgentNames : Hit(n) \/ Miss(n)

AdminSpec == AdminInit /\ [][AdminNext]_adminVars

-----------------------------------------------------------------------------
(* A model that was chosen can be used: a model write that was answered    *)
(* without an error left a profile whose own configuration defines the     *)
(* provider, if it can be mirrored, whatever other writes came in between, *)
(* unless it was renamed under the handler                                 *)
(* (_mirror_provider_into_profile); and a rewrite goes to the endpoint of  *)
(* a model its profile has, or had less than the cache's lifetime ago, or  *)
(* a call's when that is longer: an answer may be late                     *)
(* (resolve_profile_endpoint).                                             *)
Staleness == IF CallTimeout < Ttl THEN Ttl ELSE CallTimeout + 1
ChosenModelsAreUsable ==
  /\ \A n \in DOMAIN agents :
       agents[n].provider \in Mirrorable /\ agents[n].by \in answered
         => agents[n].provider \in agents[n].defined
  /\ used # NoCall /\ There(used.name) /\ agents[used.name].provider # used.provider
       => agents[used.name].since + Staleness > used.now
=============================================================================
