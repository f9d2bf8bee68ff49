-------------------------------- MODULE Policy --------------------------------
(***************************************************************************)
(* Capability policy.  A tool call is judged against the intersection of   *)
(* four grants: the host ceiling, the user profile, the workspace trust    *)
(* and the override of the turn.  The first three and the override are     *)
(* resolved once, when the runner loads the turn; every proposed call of   *)
(* the turn is then judged at its own time.                                *)
(***************************************************************************)
EXTENDS Integers, Sequences

CONSTANTS
  Names,      \* path components and the names of exact scopes, "*" included
  Profiles,   \* grants a profile or a turn override may carry
  Requests,   \* effect sets that tools plan
  MaxTime     \* model bound on the clock

(* CapabilityMode, ordered.                                                *)
Observe == 0
Build   == 1
Operate == 2
Modes   == 0 .. 2

FsKinds    == {"read", "write", "delete"}
ExactKinds == {"network", "secrets", "external_write"}

(* A path scope is the sequence of its components: "*" is Star.  Optional  *)
(* values are sets of at most one element.                                 *)
Paths == Seq(Names)
Star  == <<"*">>

(* CapabilityGrant and EffectSet.                                          *)
IsGrant(g) ==
  /\ g \in [mode : Modes, fs : [FsKinds -> SUBSET Paths], process : BOOLEAN,
            exact : [ExactKinds -> SUBSET Names], expires : SUBSET Int]
  /\ \A x, y \in g.expires : x = y

Effects ==
  [fs : [FsKinds -> SUBSET Paths], resolved : BOOLEAN, process : BOOLEAN,
   exact : [ExactKinds -> SUBSET Names]]

ASSUME PolicyAssumption ==
  /\ "*" \in Names /\ MaxTime \in Nat
  /\ \A g \in Profiles : IsGrant(g)
  /\ \A e \in Requests : e \in Effects

-----------------------------------------------------------------------------
(* policy.rs: intersecting two grants.                                     *)

PrefixOf(p, q) == Len(p) <= Len(q) /\ \A k \in 1 .. Len(p) : p[k] = q[k]

PathContains(parent, child) == parent = Star \/ PrefixOf(parent, child)

IntersectExactScopes(l, r) ==
  IF "*" \in l THEN r ELSE IF "*" \in r THEN l ELSE l \cap r

IntersectPathScopesOneSided(l, r) ==
  {q \in r : \E p \in l : PathContains(p, q)}

IntersectPathScopes(l, r) ==
  {q \in r : \E p \in l : PathContains(p, q)}
    \cup {p \in l : \E q \in r : PathContains(q, p) /\ ~PathContains(p, q)}

Minimum(a, b) == IF a <= b THEN a ELSE b

Earliest(a, b) == {x \in a \cup b : \A y \in a \cup b : x <= y}

IntersectTwo(l, r) ==
  [mode    |-> Minimum(l.mode, r.mode),
   fs      |-> [k \in FsKinds |-> IntersectPathScopes(l.fs[k], r.fs[k])],
   process |-> l.process /\ r.process,
   exact   |-> [k \in ExactKinds |->
                  IntersectExactScopes(l.exact[k], r.exact[k])],
   expires |-> Earliest(l.expires, r.expires)]

IntersectGrants(g) ==
  IntersectTwo(IntersectTwo(IntersectTwo(g.host, g.user), g.project), g.turn)

(* evaluate_policy: one reason to refuse is enough.                        *)
PathScopeAllows(scopes, path) == \E s \in scopes : PathContains(s, path)

ExactScopeAllows(scopes, name) == "*" \in scopes \/ name \in scopes

ModeFor(k) ==
  IF k \in {"write", "delete"} THEN Build
  ELSE IF k = "external_write" THEN Operate ELSE Observe

Permits(g, e, now) ==
  /\ \A x \in g.expires : x > now
  /\ e.resolved
  /\ \A k \in FsKinds : \A path \in e.fs[k] :
       g.mode >= ModeFor(k) /\ PathScopeAllows(g.fs[k], path)
  /\ e.process => g.mode >= Build /\ g.process
  /\ \A k \in ExactKinds : \A name \in e.exact[k] :
       g.mode >= ModeFor(k) /\ ExactScopeAllows(g.exact[k], name)

ReadOnly(e) ==
  /\ e.fs["write"] = {} /\ e.fs["delete"] = {} /\ ~e.process
  /\ \A k \in ExactKinds : e.exact[k] = {}

EvaluatePolicy(g, e, now) ==
  IF ~Permits(IntersectGrants(g), e, now) THEN "deny"
  ELSE IF ReadOnly(e) THEN "allow" ELSE "ask"

-----------------------------------------------------------------------------
(* grants.rs: the four layers of a turn.  No layer stands for a grant that *)
(* takes nothing away; trust never adds network, secrets or external       *)
(* writes, and neither does a host mode.                                   *)

Grant(mode, side, exact) ==
  [mode    |-> mode,
   fs      |-> [k \in FsKinds |-> IF k = "read" \/ side THEN {Star} ELSE {}],
   process |-> side,
   exact   |-> [k \in ExactKinds |-> exact],
   expires |-> {}]

HostCeiling(mode) == Grant(mode, mode # Observe, {})

ProjectGrant(trusted) ==
  Grant(IF trusted THEN Build ELSE Observe, trusted, {})

IdentityGrant == Grant(Operate, TRUE, {"*"})

OrIdentity(layer) ==
  IF layer = {} THEN IdentityGrant ELSE CHOOSE g \in layer : TRUE

ResolveGrantLayers(mode, trusted, user, turn) ==
  [host |-> HostCeiling(mode), user |-> OrIdentity(user),
   project |-> ProjectGrant(trusted), turn |-> OrIdentity(turn)]

-----------------------------------------------------------------------------
(* The layers in use.                                                      *)

VARIABLES
  host,      \* the daemon's host_ceiling mode
  trusted,   \* durable trust of the workspace
  layers,    \* the layers of the running turn ({} before the first one)
  basis,     \* the trust they were resolved from
  now,
  judged     \* the last call judged, with its time and the decision

vars == <<host, trusted, layers, basis, now, judged>>

Options == {{}} \cup {{g} : g \in Profiles}

Init ==
  /\ host \in Modes
  /\ trusted = FALSE
  /\ layers = {} /\ basis = FALSE
  /\ now = 0
  /\ judged = {}

(* workspace/trust, in either direction.                                   *)
WorkspaceTrust ==
  /\ trusted' = ~trusted
  /\ UNCHANGED <<host, layers, basis, now, judged>>

(* RunContext::load and the registry section of run_inner; the runner      *)
(* passes no profile, the layer exists all the same.                       *)
LoadTurn ==
  /\ \E user, turn \in Options :
       layers' = {ResolveGrantLayers(host, trusted, user, turn)}
  /\ basis' = trusted
  /\ judged' = {}
  /\ UNCHANGED <<host, trusted, now>>

Judge(e) ==
  /\ \E g \in layers :
       judged' = {[effects |-> e, at |-> now,
                   decision |-> EvaluatePolicy(g, e, now)]}
  /\ UNCHANGED <<host, trusted, layers, basis, now>>

Tick ==
  /\ now < MaxTime
  /\ now' = now + 1
  /\ UNCHANGED <<host, trusted, layers, basis, judged>>

Next == WorkspaceTrust \/ LoadTurn \/ Tick \/ \E e \in Requests : Judge(e)

Spec == Init /\ [][Next]_vars

-----------------------------------------------------------------------------
(* The state keeps what the runner resolved and what policy answered.      *)
LayersResolved ==
  /\ host \in Modes /\ now \in Int /\ trusted \in BOOLEAN /\ basis \in BOOLEAN
  /\ \A g, h \in layers : g = h
  /\ \A g \in layers :
       /\ \E user, turn \in Options :
            g = ResolveGrantLayers(host, basis, user, turn)
       /\ \A j \in judged :
            /\ j.effects \in Effects /\ j.at \in Int
            /\ j.decision = EvaluatePolicy(g, j.effects, j.at)
  /\ layers = {} => judged = {}

(* The computed intersection is the exact meet of the layers: a call is    *)
(* let through if and only if every single layer would let it through.     *)
(* Wildcards, nested and equal path scopes, empty scopes and expiries that *)
(* pass between two calls of a turn make no difference (intersect_two,     *)
(* evaluate_policy).                                                       *)
DecisionIsMeet ==
  \A j \in judged, g \in layers :
    j.decision # "deny" <=>
      \A layer \in {g.host, g.user, g.project, g.turn} :
        Permits(layer, j.effects, j.at)

(* Whatever a profile or a turn override says: no call reaches network,    *)
(* secrets or external systems, and a turn loaded from an untrusted        *)
(* workspace or under an observe host is let through for reads only, never *)
(* with anything left to ask (host_ceiling, project_grant).                *)
NoAmbientAuthority ==
  \A j \in judged : j.decision # "deny" =>
    /\ \A k \in ExactKinds : j.effects.exact[k] = {}
    /\ ~basis \/ host = Observe => ReadOnly(j.effects) /\ j.decision = "allow"

=============================================================================
