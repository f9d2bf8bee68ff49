---------------------------- MODULE AccessProofs ----------------------------
(***************************************************************************)
(* What a call may reach, for every value of the constants.                *)
(*                                                                         *)
(* The intersection of grants is their exact meet, for all scopes, names,  *)
(* profiles and effects. The path case rests on two facts about prefixes:  *)
(* they are transitive, and two prefixes of one path are comparable.       *)
(*                                                                         *)
(* Reading and patching a file stay inside the tree while other programs   *)
(* rearrange it.                                                           *)
(*                                                                         *)
(* A search finds exactly the occurrences of its query, and the searches   *)
(* of a turn keep within their budgets. The argument about the matcher is  *)
(* that of Knuth, Morris and Pratt: what is matched is the longest prefix  *)
(* of the query that the text read so far ends with.                       *)
(***************************************************************************)
EXTENDS Access, SequenceTheorems, FiniteSetTheorems, WellFoundedInduction, TLAPS

-----------------------------------------------------------------------------
(* A prefix of a prefix is a prefix.                                       *)
LEMMA PrefixTransitive ==
  ASSUME NEW p \in Paths, NEW q \in Paths, NEW r \in Paths,
         PrefixOf(p, q), PrefixOf(q, r)
  PROVE  PrefixOf(p, r)
  BY DEF PrefixOf, Paths

(* Of two prefixes of one path, one is a prefix of the other.              *)
LEMMA PrefixesComparable ==
  ASSUME NEW p \in Paths, NEW q \in Paths, NEW r \in Paths,
         PrefixOf(p, r), PrefixOf(q, r)
  PROVE  PrefixOf(p, q) \/ PrefixOf(q, p)
  <1>1. Len(p) \in Nat /\ Len(q) \in Nat
    BY DEF Paths
  <1>2. CASE Len(p) <= Len(q)
    BY <1>1, <1>2 DEF PrefixOf
  <1>3. CASE Len(q) <= Len(p)
    BY <1>1, <1>3 DEF PrefixOf
  <1> QED BY <1>1, <1>2, <1>3

(* Arithmetic, kept apart from sequences.                                  *)
LEMMA AtMostOne == \A n \in Nat : n <= 1 => n = 0 \/ n = 1
  OBVIOUS

(* What contains the wildcard scope contains every path.                   *)
LEMMA AboveStar ==
  ASSUME NEW p \in Paths, NEW r \in Paths, PathContains(p, Star)
  PROVE  PathContains(p, r)
  <1>1. CASE p = Star
    BY <1>1 DEF PathContains
  <1>2. CASE p # Star /\ PrefixOf(p, Star)
    <2>1. Len(p) <= 1 /\ Len(p) \in Nat /\ \A k \in 1 .. Len(p) : p[k] = "*"
      BY <1>2 DEF PrefixOf, Star, Paths
    <2>2. Len(p) = 1 => p = Star
      BY <2>1 DEF Star, Paths
    <2>3. Len(p) = 0
      <3>1. Len(p) = 0 \/ Len(p) = 1
        BY <2>1, AtMostOne
      <3> QED BY <1>2, <2>2, <3>1
    <2> QED BY <2>3 DEF PathContains, PrefixOf, Paths
  <1> QED BY <1>1, <1>2 DEF PathContains

(* Containment of scopes is transitive, the wildcard included.             *)
LEMMA ContainsTransitive ==
  ASSUME NEW p \in Paths, NEW q \in Paths, NEW r \in Paths,
         PathContains(p, q), PathContains(q, r)
  PROVE  PathContains(p, r)
  <1>1. CASE q = Star
    BY <1>1, AboveStar
  <1>2. CASE q # Star
    BY <1>2, PrefixTransitive DEF PathContains
  <1> QED BY <1>1, <1>2

(* Two scopes that contain one path are comparable.                        *)
LEMMA ContainersComparable ==
  ASSUME NEW p \in Paths, NEW q \in Paths, NEW r \in Paths,
         PathContains(p, r), PathContains(q, r)
  PROVE  PathContains(p, q) \/ PathContains(q, p)
  BY PrefixesComparable DEF PathContains

(* intersect_path_scopes computes the meet.                                *)
LEMMA PathMeet ==
  ASSUME NEW l \in SUBSET Paths, NEW r \in SUBSET Paths, NEW path \in Paths
  PROVE  PathScopeAllows(IntersectPathScopes(l, r), path) <=>
           PathScopeAllows(l, path) /\ PathScopeAllows(r, path)
  <1>1. ASSUME PathScopeAllows(IntersectPathScopes(l, r), path)
        PROVE  PathScopeAllows(l, path) /\ PathScopeAllows(r, path)
    <2>1. PICK s \in IntersectPathScopes(l, r) : PathContains(s, path)
      BY <1>1 DEF PathScopeAllows
    <2>2. CASE s \in r /\ \E p \in l : PathContains(p, s)
      BY <2>1, <2>2, ContainsTransitive DEF PathScopeAllows
    <2>3. CASE s \in l /\ \E q \in r : PathContains(q, s)
      BY <2>1, <2>3, ContainsTransitive DEF PathScopeAllows
    <2> QED BY <2>2, <2>3 DEF IntersectPathScopes
  <1>2. ASSUME PathScopeAllows(l, path), PathScopeAllows(r, path)
        PROVE  PathScopeAllows(IntersectPathScopes(l, r), path)
    <2>1. PICK p \in l : PathContains(p, path)
      BY <1>2 DEF PathScopeAllows
    <2>2. PICK q \in r : PathContains(q, path)
      BY <1>2 DEF PathScopeAllows
    <2>3. CASE PathContains(p, q)
      BY <2>2, <2>3 DEF PathScopeAllows, IntersectPathScopes
    <2>4. CASE PathContains(q, p) /\ ~PathContains(p, q)
      BY <2>1, <2>4 DEF PathScopeAllows, IntersectPathScopes
    <2> QED BY <2>1, <2>2, <2>3, <2>4, ContainersComparable
  <1> QED BY <1>1, <1>2

(* intersect_exact_scopes computes the meet.                               *)
LEMMA ExactMeet ==
  ASSUME NEW l, NEW r, NEW name
  PROVE  ExactScopeAllows(IntersectExactScopes(l, r), name) <=>
           ExactScopeAllows(l, name) /\ ExactScopeAllows(r, name)
  BY DEF ExactScopeAllows, IntersectExactScopes

(* The earlier of two expiries is past exactly if one of them is.          *)
LEMMA EarliestOfTwo ==
  ASSUME NEW x \in Int, NEW y \in Int, NEW n \in Int
  PROVE  (\A z \in Earliest({x}, {y}) : z > n) <=> x > n /\ y > n
  <1>1. CASE x <= y
    <2>1. x \in Earliest({x}, {y})
      BY <1>1 DEF Earliest
    <2>2. \A z \in Earliest({x}, {y}) : z = x
      BY <1>1 DEF Earliest
    <2>3. x > n => y > n
      BY <1>1
    <2> QED BY ONLY <2>1, <2>2, <2>3
  <1>2. CASE y <= x
    <2>1. y \in Earliest({x}, {y})
      BY <1>2 DEF Earliest
    <2>2. \A z \in Earliest({x}, {y}) : z = y
      BY <1>2 DEF Earliest
    <2>3. y > n => x > n
      BY <1>2
    <2> QED BY ONLY <2>1, <2>2, <2>3
  <1>3. x <= y \/ y <= x
    OBVIOUS
  <1> QED BY <1>1, <1>2, <1>3, Zenon

(* The earlier of two optional expiries stands for both.                   *)
LEMMA ExpiryMeet ==
  ASSUME NEW a \in SUBSET Int, NEW b \in SUBSET Int, NEW n \in Int,
         \A x, y \in a : x = y, \A x, y \in b : x = y
  PROVE  /\ (\A x \in Earliest(a, b) : x > n) <=>
              (\A x \in a : x > n) /\ (\A x \in b : x > n)
         /\ Earliest(a, b) \in SUBSET Int
         /\ \A x, y \in Earliest(a, b) : x = y
  <1>1. Earliest(a, b) \in SUBSET Int /\ \A x, y \in Earliest(a, b) : x = y
    <2>1. Earliest(a, b) \in SUBSET Int
      BY DEF Earliest
    <2>2. ASSUME NEW x \in Earliest(a, b), NEW y \in Earliest(a, b)
          PROVE  x = y
      <3>1. x \in Int /\ y \in Int /\ x <= y /\ y <= x
        BY DEF Earliest
      <3> QED BY <3>1
    <2> QED BY <2>1, <2>2
  <1>2. CASE a = {}
    <2>1. \A x, y \in b : x <= y
      OBVIOUS
    <2>2. \A x : x \in Earliest(a, b) <=> x \in b
      BY <1>2, <2>1 DEF Earliest
    <2> QED BY <1>1, <1>2, <2>2
  <1>3. CASE b = {}
    <2>1. \A x, y \in a : x <= y
      OBVIOUS
    <2>2. \A x : x \in Earliest(a, b) <=> x \in a
      BY <1>3, <2>1 DEF Earliest
    <2> QED BY <1>1, <1>3, <2>2
  <1>4. CASE a # {} /\ b # {}
    <2>1. PICK x \in a, y \in b : TRUE
      BY <1>4
    <2>2. /\ \A z : z \in a <=> z = x
          /\ \A z : z \in b <=> z = y
          /\ x \in Int /\ y \in Int
      BY <2>1
    <2>4. (\A z \in Earliest({x}, {y}) : z > n) <=> x > n /\ y > n
      BY <2>2, EarliestOfTwo
    <2>5. a = {x} /\ b = {y}
      BY <2>2
    <2> QED BY <1>1, <2>4, <2>5
  <1> QED BY <1>2, <1>3, <1>4

-----------------------------------------------------------------------------
(* intersect_two returns a grant.                                          *)
LEMMA IntersectionIsGrant ==
  ASSUME NEW g, NEW h, IsGrant(g), IsGrant(h)
  PROVE  IsGrant(IntersectTwo(g, h))
  <1> DEFINE m == IntersectTwo(g, h)
  <1>1. m.expires \in SUBSET Int /\ \A x, y \in m.expires : x = y
    BY ExpiryMeet, 0 \in Int DEF IsGrant, IntersectTwo
  <1>2. m.mode \in Modes
    BY DEF IsGrant, IntersectTwo, Minimum, Modes
  <1>3. m.fs \in [FsKinds -> SUBSET Paths]
    BY DEF IsGrant, IntersectTwo, IntersectPathScopes
  <1>4. m.exact \in [ExactKinds -> SUBSET Names]
    BY DEF IsGrant, IntersectTwo, IntersectExactScopes
  <1> QED BY <1>1, <1>2, <1>3, <1>4 DEF IsGrant, IntersectTwo

(* A call passes the intersection of two grants exactly if it passes both. *)
LEMMA TwoMeet ==
  ASSUME NEW g, NEW h, IsGrant(g), IsGrant(h),
         NEW e \in Effects, NEW n \in Int
  PROVE  Permits(IntersectTwo(g, h), e, n) <=>
           Permits(g, e, n) /\ Permits(h, e, n)
  <1> DEFINE m == IntersectTwo(g, h)
  <1>1. (\A x \in m.expires : x > n) <=>
          (\A x \in g.expires : x > n) /\ (\A x \in h.expires : x > n)
    BY ExpiryMeet DEF IsGrant, IntersectTwo
  <1>2. \A v \in Modes : m.mode >= v <=> g.mode >= v /\ h.mode >= v
    BY DEF IsGrant, IntersectTwo, Minimum, Modes
  <1>3. \A k \in FsKinds : \A path \in e.fs[k] :
          PathScopeAllows(m.fs[k], path) <=>
            PathScopeAllows(g.fs[k], path) /\ PathScopeAllows(h.fs[k], path)
    <2> SUFFICES ASSUME NEW k \in FsKinds, NEW path \in e.fs[k]
                 PROVE  PathScopeAllows(m.fs[k], path) <=>
                          /\ PathScopeAllows(g.fs[k], path)
                          /\ PathScopeAllows(h.fs[k], path)
      OBVIOUS
    <2>1. /\ g.fs[k] \in SUBSET Paths /\ h.fs[k] \in SUBSET Paths
          /\ path \in Paths
      BY DEF IsGrant, Effects
    <2>2. m.fs[k] = IntersectPathScopes(g.fs[k], h.fs[k])
      BY DEF IntersectTwo
    <2> QED BY <2>1, <2>2, PathMeet
  <1>4. \A k \in ExactKinds : \A name \in e.exact[k] :
          ExactScopeAllows(m.exact[k], name) <=>
            ExactScopeAllows(g.exact[k], name) /\ ExactScopeAllows(h.exact[k], name)
    BY ExactMeet DEF IntersectTwo
  <1>5. m.process <=> g.process /\ h.process
    BY DEF IntersectTwo
  <1>6. \A k \in FsKinds \cup ExactKinds : ModeFor(k) \in Modes
    BY DEF ModeFor, Modes, Observe, Build, Operate
  <1>7. Build \in Modes
    BY DEF Build, Modes
  <1> SUFFICES Permits(m, e, n) <=> Permits(g, e, n) /\ Permits(h, e, n)
    OBVIOUS
  <1> HIDE DEF m
  <1>8. (\A k \in FsKinds : \A path \in e.fs[k] :
           m.mode >= ModeFor(k) /\ PathScopeAllows(m.fs[k], path)) <=>
        /\ \A k \in FsKinds : \A path \in e.fs[k] :
             g.mode >= ModeFor(k) /\ PathScopeAllows(g.fs[k], path)
        /\ \A k \in FsKinds : \A path \in e.fs[k] :
             h.mode >= ModeFor(k) /\ PathScopeAllows(h.fs[k], path)
    BY <1>2, <1>3, <1>6
  <1>9. (\A k \in ExactKinds : \A name \in e.exact[k] :
           m.mode >= ModeFor(k) /\ ExactScopeAllows(m.exact[k], name)) <=>
        /\ \A k \in ExactKinds : \A name \in e.exact[k] :
             g.mode >= ModeFor(k) /\ ExactScopeAllows(g.exact[k], name)
        /\ \A k \in ExactKinds : \A name \in e.exact[k] :
             h.mode >= ModeFor(k) /\ ExactScopeAllows(h.exact[k], name)
    BY <1>2, <1>4, <1>6
  <1>10. (e.process => m.mode >= Build /\ m.process) <=>
         /\ e.process => g.mode >= Build /\ g.process
         /\ e.process => h.mode >= Build /\ h.process
    BY <1>2, <1>5, <1>7
  <1> QED BY ONLY <1>1, <1>8, <1>9, <1>10 DEF Permits

(* The same for the four layers evaluate_policy intersects.                *)
LEMMA FourMeet ==
  ASSUME NEW g, IsGrant(g.host), IsGrant(g.user), IsGrant(g.project),
         IsGrant(g.turn), NEW e \in Effects, NEW n \in Int
  PROVE  Permits(IntersectGrants(g), e, n) <=>
           \A layer \in {g.host, g.user, g.project, g.turn} :
             Permits(layer, e, n)
  <1> DEFINE two == IntersectTwo(g.host, g.user)
             three == IntersectTwo(two, g.project)
  <1>1. IsGrant(two) /\ IsGrant(three)
    BY IntersectionIsGrant
  <1>2. Permits(two, e, n) <=> Permits(g.host, e, n) /\ Permits(g.user, e, n)
    BY TwoMeet
  <1>3. Permits(three, e, n) <=> Permits(two, e, n) /\ Permits(g.project, e, n)
    BY <1>1, TwoMeet
  <1>4. IntersectGrants(g) = IntersectTwo(three, g.turn)
    BY DEF IntersectGrants
  <1> HIDE DEF two, three
  <1>5. Permits(IntersectGrants(g), e, n) <=>
          Permits(three, e, n) /\ Permits(g.turn, e, n)
    BY <1>1, <1>4, TwoMeet
  <1> QED BY <1>2, <1>3, <1>5

-----------------------------------------------------------------------------
(* Every layer a turn can be given is a grant.                             *)
LEMMA LayersAreGrants ==
  ASSUME NEW mode \in Modes, NEW b \in BOOLEAN,
         NEW user \in Options, NEW turn \in Options
  PROVE  LET g == ResolveGrantLayers(mode, b, user, turn)
         IN /\ IsGrant(g.host) /\ IsGrant(g.user)
            /\ IsGrant(g.project) /\ IsGrant(g.turn)
  <1>1. ASSUME NEW m \in Modes, NEW side \in BOOLEAN, NEW x \in SUBSET Names
        PROVE  IsGrant(Grant(m, side, x))
    <2>1. Star \in Paths
      BY PolicyAssumption DEF Star, Paths
    <2> QED BY <2>1 DEF IsGrant, Grant
  <1>2. IsGrant(HostCeiling(mode)) /\ IsGrant(ProjectGrant(b))
    <2>1. Observe \in Modes /\ Build \in Modes /\ {} \in SUBSET Names
      BY DEF Observe, Build, Modes
    <2>2. (mode # Observe) \in BOOLEAN
      OBVIOUS
    <2>3. IsGrant(Grant(mode, mode # Observe, {}))
      BY <1>1, <2>1, <2>2
    <2>4. IsGrant(Grant(IF b THEN Build ELSE Observe, b, {}))
      BY <1>1, <2>1
    <2> QED BY <2>3, <2>4 DEF HostCeiling, ProjectGrant
  <1>3. IsGrant(IdentityGrant)
    <2>1. Operate \in Modes /\ {"*"} \in SUBSET Names /\ TRUE \in BOOLEAN
      BY PolicyAssumption DEF Operate, Modes
    <2> QED BY <1>1, <2>1 DEF IdentityGrant
  <1>4. ASSUME NEW o \in Options PROVE IsGrant(OrIdentity(o))
    <2>1. CASE o = {}
      BY <1>3, <2>1 DEF OrIdentity
    <2>2. CASE o # {}
      <3>1. PICK p \in Profiles : o = {p}
        BY <2>2 DEF Options
      <3>2. OrIdentity(o) = p
        BY <2>2, <3>1 DEF OrIdentity
      <3> QED BY <3>2, PolicyAssumption
    <2> QED BY <2>1, <2>2
  <1> QED BY <1>2, <1>4 DEF ResolveGrantLayers

(* The bookkeeping invariant: inductive as it stands.                      *)
LEMMA LayersStayResolved == LayersResolved /\ [Next]_vars => LayersResolved'
  <1> SUFFICES ASSUME LayersResolved, [Next]_vars PROVE LayersResolved'
    OBVIOUS
  <1>1. CASE WorkspaceTrust
    BY <1>1 DEF LayersResolved, WorkspaceTrust
  <1>2. CASE LoadTurn
    BY <1>2 DEF LayersResolved, LoadTurn
  <1>3. CASE Tick
    BY <1>3 DEF LayersResolved, Tick
  <1>4. ASSUME NEW e \in Requests, Judge(e) PROVE LayersResolved'
    BY <1>4, PolicyAssumption DEF LayersResolved, Judge
  <1>5. CASE UNCHANGED vars
    BY <1>5 DEF LayersResolved, vars
  <1> QED BY <1>1, <1>2, <1>3, <1>4, <1>5 DEF Next

(* In every reachable state the layers are those the runner resolved and   *)
(* the decision is evaluate_policy's.                                      *)
THEOREM AlwaysResolved == Spec => []LayersResolved
  <1>1. Init => LayersResolved
    <2> SUFFICES ASSUME Init PROVE LayersResolved
      OBVIOUS
    <2>1. host \in Modes /\ now \in Int
      BY DEF Init
    <2>2. trusted \in BOOLEAN /\ basis \in BOOLEAN
      BY Zenon DEF Init
    <2>3. layers = {} /\ judged = {}
      BY DEF Init
    <2> QED BY <2>1, <2>2, <2>3, Zenon DEF LayersResolved
  <1> QED BY <1>1, LayersStayResolved, PTL DEF Spec

(* evaluate_policy lets a call through exactly if each of the four layers  *)
(* would, for every set of scopes, every profile and every effect set.     *)
THEOREM PolicyIsMeet == Spec => []DecisionIsMeet
  <1>1. LayersResolved => DecisionIsMeet
    <2> SUFFICES ASSUME LayersResolved, NEW j \in judged, NEW g \in layers
                 PROVE  j.decision # "deny" <=>
                          \A layer \in {g.host, g.user, g.project, g.turn} :
                            Permits(layer, j.effects, j.at)
      BY DEF DecisionIsMeet
    <2>1. PICK user \in Options, turn \in Options :
            g = ResolveGrantLayers(host, basis, user, turn)
      BY DEF LayersResolved
    <2>2. /\ IsGrant(g.host) /\ IsGrant(g.user)
          /\ IsGrant(g.project) /\ IsGrant(g.turn)
      BY <2>1, LayersAreGrants DEF LayersResolved
    <2>3. /\ j.effects \in Effects /\ j.at \in Int
          /\ j.decision = EvaluatePolicy(g, j.effects, j.at)
      BY DEF LayersResolved
    <2>4. j.decision # "deny" <=>
            Permits(IntersectGrants(g), j.effects, j.at)
      BY <2>3 DEF EvaluatePolicy
    <2> QED BY <2>2, <2>3, <2>4, FourMeet
  <1> QED BY <1>1, AlwaysResolved, PTL

(* No profile or override can lift a turn above host mode and workspace    *)
(* trust, or give it network, secrets or external writes.                  *)
THEOREM CeilingsHold == Spec => []NoAmbientAuthority
  <1>1. LayersResolved /\ DecisionIsMeet => NoAmbientAuthority
    <2> SUFFICES ASSUME LayersResolved, DecisionIsMeet,
                        NEW j \in judged, j.decision # "deny"
                 PROVE  /\ \A k \in ExactKinds : j.effects.exact[k] = {}
                        /\ ~basis \/ host = Observe
                             => ReadOnly(j.effects) /\ j.decision = "allow"
      BY DEF NoAmbientAuthority
    <2>1. PICK g \in layers : TRUE
      BY DEF LayersResolved
    <2>2. g.host = HostCeiling(host) /\ g.project = ProjectGrant(basis)
      BY <2>1 DEF LayersResolved, ResolveGrantLayers
    <2>3. /\ Permits(HostCeiling(host), j.effects, j.at)
          /\ Permits(ProjectGrant(basis), j.effects, j.at)
      BY <2>1, <2>2 DEF DecisionIsMeet
    <2>4. \A k \in ExactKinds : j.effects.exact[k] = {}
      BY <2>3 DEF Permits, HostCeiling, Grant, ExactScopeAllows
    <2>5. ASSUME ~basis \/ host = Observe PROVE ReadOnly(j.effects)
      <3>1. CASE host = Observe
        BY <2>3, <2>4, <3>1
           DEF Permits, HostCeiling, Grant, PathScopeAllows, ReadOnly, FsKinds
      <3>2. CASE ~basis
        BY <2>3, <2>4, <3>2
           DEF Permits, ProjectGrant, Grant, PathScopeAllows, ReadOnly, FsKinds
      <3> QED BY <2>5, <3>1, <3>2
    <2>6. j.decision = EvaluatePolicy(g, j.effects, j.at)
      BY <2>1 DEF LayersResolved
    <2> QED BY <2>4, <2>5, <2>6 DEF EvaluatePolicy
  <1> QED BY <1>1, AlwaysResolved, PolicyIsMeet, PTL

-----------------------------------------------------------------------------
(* Reading and patching a file.                                            *)

(* What a name can lead to.                                                *)
Entries == {Disk!Missing, <<"link", "Out">>, <<"link", "out">>, <<"object", "Sub">>}
             \cup {<<"object", x>> : x \in Disk!Files}
(* What the name of the directory can lead to.                             *)
DirectoryEntries == {Disk!Missing, <<"link", "Out">>, <<"object", "Sub">>}

(* Types of the state of WorkspaceFiles; the directory is in one place.    *)
DiskTypes ==
  /\ entry \in [Disk!Dirs -> [Disk!EntryNames -> Entries]]
  /\ entry["Root"]["a"] \in DirectoryEntries
  /\ ~(Disk!Attached /\ Disk!Outside(entry))
  /\ length \in [Disk!Files -> Nat] /\ stamp \in [Disk!Files -> Nat]
  /\ op \in {"read", "patch"} /\ got \in [1 .. 2 -> Nat]
  /\ others \in Nat /\ looked \in 0 .. others

(* Before a file is open.                                                  *)
Early == {"resolve", "canonicalize", "resolved", "open_dir", "open_file"}
(* Steps of the reading of a file, which a patch does twice.               *)
Reading == {"opened", "read1", "read2", "fstat"}
(* Steps of a read only.                                                   *)
ReadStages == {"limit", "bounded", "last"}
(* Steps of a patch with a temporary file.                                 *)
Patching == {"synced", "parent", "again", "prepublish", "publish"}
(* A file is open.                                                         *)
Open == Reading \cup ReadStages \cup Patching \cup {"temp"}

(* Where an operation can be, and that it has a temporary file exactly     *)
(* from its creation to its end.                                           *)
Stage ==
  /\ pc \in Early \cup Open \cup {"published", "done", "error"}
  /\ pc \in ReadStages => op = "read"
  /\ pc \in Patching \cup {"temp", "published"} => op = "patch"
  /\ pc \in Patching => temp = "Sub"
  /\ pc \in Reading => temp = Disk!Nowhere \/ (temp = "Sub" /\ op = "patch" /\ pc # "opened")
  /\ pc \notin Reading \cup Patching => temp = Disk!Nowhere

(* What the directory holds while it is in the tree has been in the tree.  *)
TreeIsHosted ==
  pc \in Early \cup Open => \A x \in Disk!Contained(entry) : x \in hosted

(* The open directory is that of the tree, and the open file was in it,    *)
(* unless it had been moved out in between.                                *)
OpenIsInside ==
  /\ pc \in Early => file = Disk!Nowhere
  /\ pc = "open_file" => dir = "Sub" /\ (Disk!Outside(entry) => strayed = "walking")
  /\ pc \in Open => dir = "Sub" /\ file \in Disk!Files /\ (file \in hosted \/ strayed = "walking")

(* The open file has one entry, and a path outside only through it.        *)
KeptPlace ==
  /\ entry["Sub"]["f"] = <<"object", file>> /\ entry["Out"]["f"] # <<"object", file>>
  /\ file \in exposed => strayed # "no"

(* An unchanged stamp means that the file is as fstat saw it, and that a   *)
(* read has met nothing else; it is where it was opened, and only moving   *)
(* its directory gave it a path outside meanwhile.                         *)
StampTells ==
  pc \in Open =>
    /\ meta.stamp \in Nat /\ meta.stamp <= stamp[file]
    /\ meta.stamp = stamp[file] =>
         /\ length[file] = meta.len
         /\ pc \in {"read2", "bounded", "fstat"} => got[1] = meta.len
         /\ pc \in {"bounded", "fstat"} => got[2] = meta.len
         /\ op = "read" => KeptPlace

(* What was read of a file is within the limit.                            *)
WithinLimit == pc = "fstat" /\ op = "read" => got[2] <= Limit

(* Unless another program acted since the last look at the parent, it is   *)
(* still in the tree and holds the file; behind the last comparison the    *)
(* file has the content the patch was made for.                            *)
SinceLook ==
  others = looked =>
    /\ pc \in {"again", "prepublish", "publish"} \/ (pc \in Reading /\ temp = "Sub") => Disk!Attached
    /\ pc \in {"prepublish", "publish"} \/ (pc \in Reading /\ temp = "Sub") =>
         entry["Sub"]["f"] = <<"object", file>>
    /\ pc \in {"prepublish", "publish"} => length[file] = Disk!Base

(* The inductive invariant of WorkspaceFiles.                              *)
DiskInv ==
  DiskTypes /\ Stage /\ TreeIsHosted /\ OpenIsInside /\ StampTells /\ WithinLimit /\ SinceLook

(* The values of the functions in DiskTypes.                               *)
LEMMA FilesMapped ==
  ASSUME DiskTypes
  PROVE  /\ \A d \in Disk!Dirs, n \in Disk!EntryNames : entry[d][n] \in Entries
         /\ \A x \in Disk!Files : length[x] \in Nat /\ stamp[x] \in Nat
         /\ got[1] \in Nat /\ got[2] \in Nat
BY DEF DiskTypes

(* Links counts the names of a file.                                       *)
LEMMA LinksCounted == \A x : Disk!Links(x) = Cardinality(Disk!Places(x))
BY Zenon DEF Disk!Links, Disk!Cardinality, Cardinality

(* A file with a single link that is in the directory has no other entry.  *)
LEMMA OneName ==
  ASSUME NEW x, <<"Sub", "f">> \in Disk!Places(x), Disk!Links(x) <= 1
  PROVE  \A q \in Disk!Places(x) : q = <<"Sub", "f">>
<1> SUFFICES ASSUME NEW q \in Disk!Places(x), q # <<"Sub", "f">> PROVE FALSE
  OBVIOUS
<1> DEFINE p == <<"Sub", "f">>
           P == Disk!Places(x)
<1>1. IsFiniteSet(P)
  <2>1. IsFiniteSet(Disk!Dirs) /\ IsFiniteSet(Disk!EntryNames)
    <3>1. IsFiniteSet({}) BY FS_EmptySet
    <3>2. \A S, e : IsFiniteSet(S) => IsFiniteSet(S \cup {e}) BY FS_AddElement
    <3>3. Disk!Dirs = (({} \cup {"Root"}) \cup {"Sub"}) \cup {"Out"} BY DEF Disk!Dirs
    <3>4. Disk!EntryNames = (({} \cup {"a"}) \cup {"f"}) \cup {"moved"} BY DEF Disk!EntryNames
    <3>5. IsFiniteSet((({} \cup {"Root"}) \cup {"Sub"}) \cup {"Out"}) BY <3>1, <3>2
    <3>6. IsFiniteSet((({} \cup {"a"}) \cup {"f"}) \cup {"moved"}) BY <3>1, <3>2
    <3> QED BY <3>3, <3>4, <3>5, <3>6
  <2>2. IsFiniteSet(Disk!Dirs \X Disk!EntryNames) BY <2>1, FS_Product
  <2>3. P \subseteq Disk!Dirs \X Disk!EntryNames BY DEF Disk!Places
  <2> QED BY <2>2, <2>3, FS_Subset
<1>2. p # q OBVIOUS
<1>3. {p, q} \subseteq P OBVIOUS
<1>4. IsFiniteSet({p, q}) /\ Cardinality({p, q}) = 2
  <2>1. IsFiniteSet({p}) /\ Cardinality({p}) = 1 BY FS_Singleton
  <2>2. q \notin {p} BY <1>2
  <2>3. IsFiniteSet({p} \cup {q}) /\ Cardinality({p} \cup {q}) = 1 + 1
    BY <2>1, <2>2, FS_AddElement
  <2>4. {p} \cup {q} = {p, q} OBVIOUS
  <2> QED BY <2>3, <2>4
<1>5. Cardinality({p, q}) <= Cardinality(P) BY <1>1, <1>3, FS_Subset
<1>6. Cardinality(P) \in Nat BY <1>1, FS_CardinalityType
<1>7. Cardinality(P) <= 1 BY LinksCounted
<1> HIDE DEF P, p
<1> QED BY <1>4, <1>5, <1>6, <1>7

(* The invariant holds in the beginning.                                   *)
LEMMA DiskStart == Disk!Init => DiskInv
<1> SUFFICES ASSUME Disk!Init PROVE DiskInv OBVIOUS
<1>1. DiskTypes
  <2>1. \A d \in Disk!Dirs : entry[d] \in [Disk!EntryNames -> Entries]
    BY DEF Disk!Init, Entries, Disk!Dirs, Disk!EntryNames, Disk!Files
  <2>2. entry \in [Disk!Dirs -> [Disk!EntryNames -> Entries]] BY <2>1 DEF Disk!Init
  <2>3. entry["Root"]["a"] = <<"object", "Sub">> BY DEF Disk!Init, Disk!Dirs, Disk!EntryNames
  <2>4. got \in [1 .. 2 -> Nat]
    <3>1. got = <<0, 0>> BY DEF Disk!Init
    <3> QED BY <3>1
  <2>5. length \in [Disk!Files -> Nat] /\ stamp \in [Disk!Files -> Nat] BY DEF Disk!Init
  <2>6. op \in {"read", "patch"} /\ others \in Nat /\ looked \in 0 .. others BY DEF Disk!Init
  <2>7. ~Disk!Outside(entry)
    BY DEF Disk!Init, Disk!Outside, Disk!Dirs, Disk!EntryNames, Disk!Missing
  <2> QED BY <2>2, <2>3, <2>4, <2>5, <2>6, <2>7 DEF DiskTypes, DirectoryEntries
<1>2. entry["Sub"]["f"] = <<"object", "in">> BY DEF Disk!Init, Disk!Dirs, Disk!EntryNames
<1>3. pc = "resolve" BY DEF Disk!Init
<1>4. TreeIsHosted BY <1>2 DEF Disk!Init, TreeIsHosted, Disk!Contained, Disk!Files
<1>5. Stage BY <1>3 DEF Disk!Init, Stage, Early, Open, ReadStages, Patching, Reading
<1>6. OpenIsInside /\ StampTells /\ WithinLimit /\ SinceLook
  BY <1>3 DEF Disk!Init, OpenIsInside, StampTells, WithinLimit, SinceLook, Open, ReadStages,
      Patching, Reading
<1> QED BY <1>1, <1>4, <1>5, <1>6 DEF DiskInv

(* A step of the operation that touches no file keeps the types.           *)
LEMMA WorldRests ==
  ASSUME DiskTypes, UNCHANGED <<entry, length, stamp, others, op>>,
         looked' \in {looked, others}, got' \in [1 .. 2 -> Nat]
  PROVE  DiskTypes'
BY DEF DiskTypes, Disk!Attached, Disk!Outside

(* The steps of the operation keep the invariant.                          *)
LEMMA OperationStep ==
  ASSUME DiskInv, Disk!Operation PROVE DiskInv'
<1> USE DEF DiskInv
<1>1. ASSUME Disk!Error PROVE DiskInv'
  <2>1. DiskTypes' BY <1>1, WorldRests DEF Disk!Error, Disk!world, Disk!Held, DiskTypes
  <2> QED BY <1>1, <2>1 DEF Disk!Error, Disk!Goto, Stage, TreeIsHosted, OpenIsInside,
      StampTells, KeptPlace, WithinLimit,
        SinceLook, Early, Open, ReadStages, Patching, Reading
<1>2. ASSUME NEW from, NEW to, pc = from, Disk!Goto(to),
             UNCHANGED <<Disk!world, op, Disk!Held, temp>>,
             \/ from \in Early /\ to \in Early /\ to # "open_file"
             \/ from = "opened" /\ to = (IF op = "read" THEN "limit" ELSE "read1")
             \/ from = "limit" /\ to = "read1"
             \/ from = "last" /\ to = "done"
             \/ from = "synced" /\ to = "parent"
             \/ from = "prepublish" /\ to = "publish"
             \/ from = "published" /\ to = "done"
      PROVE  DiskInv'
  <2>1. DiskTypes' BY <1>2, WorldRests DEF Disk!world, Disk!Held, DiskTypes
  <2>2. Stage' BY <1>2 DEF Disk!Goto, Stage, Early, Open, ReadStages, Patching, Reading
  <2>3. TreeIsHosted'
    BY <1>2 DEF Disk!Goto, TreeIsHosted, Early, Open, ReadStages, Patching, Reading, Disk!world
  <2>4. OpenIsInside'
    BY <1>2 DEF Disk!Goto, OpenIsInside, Early, Open, ReadStages, Patching, Reading,
        Disk!world, Disk!Held
  <2>5. StampTells'
    BY <1>2 DEF Disk!Goto, StampTells, KeptPlace, Early, Open, ReadStages, Patching, Reading, Disk!world,
        Disk!Held
  <2>6. WithinLimit' BY <1>2 DEF Disk!Goto, WithinLimit, Early
  <2>7. SinceLook'
    BY <1>2 DEF Disk!Goto, SinceLook, Stage, Early, Reading, Disk!world, Disk!Held,
        Disk!Attached, Patching, Disk!Nowhere, ReadStages
  <2> QED BY <2>1, <2>2, <2>3, <2>4, <2>5, <2>6, <2>7
<1>3. CASE \/ Disk!Revalidate("resolve", "canonicalize") \/ Disk!Revalidate("resolved", "open_dir")
           \/ Disk!Revalidate("opened", IF op = "read" THEN "limit" ELSE "read1")
           \/ Disk!Revalidate("last", "done") \/ Disk!Revalidate("synced", "parent")
           \/ Disk!Revalidate("prepublish", "publish")
  BY <1>1, <1>2, <1>3 DEF Disk!Revalidate, Early
<1>4. CASE Disk!Resolve \/ Disk!CheckLimit \/ Disk!Return
  BY <1>1, <1>2, <1>4 DEF Disk!Resolve, Disk!CheckLimit, Disk!Return, Early
<1>5. CASE Disk!OpenDirectory
  <2>1. Disk!Opened("Root", "a") \in Disk!Dirs => Disk!Opened("Root", "a") = "Sub"
    BY DEF Disk!Opened, DiskTypes, DirectoryEntries, Disk!Dirs, Disk!Missing
  <2>2. CASE /\ pc = "open_dir" /\ dir' = "Sub" /\ Disk!Goto("open_file")
             /\ UNCHANGED <<Disk!world, op, file, meta, got, looked, temp>>
    <3>1. DiskTypes' BY <2>2, WorldRests DEF Disk!world, DiskTypes
    <3>2. ~Disk!Outside(entry)'
      <4>1. Disk!Attached
        BY <1>5, <2>2 DEF Disk!OpenDirectory, Disk!Opened, Disk!Error, Disk!Goto, Disk!Attached,
            DiskTypes, DirectoryEntries, Disk!Missing, Disk!Dirs
      <4> QED BY <2>2, <4>1 DEF DiskTypes, Disk!world, Disk!Outside
    <3> QED BY <2>2, <3>1, <3>2 DEF Disk!Goto, Stage, TreeIsHosted, OpenIsInside, StampTells, KeptPlace,
        WithinLimit,
        SinceLook, Early, Open, ReadStages, Patching, Reading, Disk!world
  <2> QED BY <1>1, <1>5, <2>1, <2>2 DEF Disk!OpenDirectory
<1>6. CASE Disk!OpenFile
  <2> DEFINE x == Disk!Opened(dir, "f")
  <2>1. CASE /\ pc = "open_file" /\ x \in Disk!Files /\ Disk!EnsureSingleLink(Disk!Fstat(x))
             /\ file' = x /\ meta' = Disk!Fstat(x)
             /\ exposed' = Disk!Exposed(entry)
             /\ Disk!Goto("opened")
             /\ UNCHANGED <<entry, root, length, stamp, hosted, strayed, others, op, dir, got,
                            looked, temp>>
    <3>1. DiskTypes' BY <2>1, WorldRests DEF DiskTypes
    <3>2. dir = "Sub" /\ (Disk!Outside(entry) => strayed = "walking") BY <2>1 DEF OpenIsInside
    <3>3. entry["Sub"]["f"] = <<"object", x>>
      <4>1. entry["Sub"]["f"] \in Entries BY FilesMapped DEF Disk!Dirs, Disk!EntryNames
      <4> QED BY <2>1, <3>2, <4>1 DEF Disk!Opened, Entries, Disk!Missing, Disk!Files
    <3>4. x \in hosted \/ strayed = "walking"
      BY <2>1, <3>2, <3>3 DEF TreeIsHosted, Disk!Contained, Early
    <3>5. /\ meta'.stamp = stamp[x] /\ meta'.len = length[x] /\ Disk!Links(x) <= 1
      BY <2>1 DEF Disk!Fstat, Disk!EnsureSingleLink
    <3>6. <<"Sub", "f">> \in Disk!Places(x) BY <3>3 DEF Disk!Places, Disk!Dirs, Disk!EntryNames
    <3>7. <<"Out", "f">> \notin Disk!Places(x)
      <4>1. \A q \in Disk!Places(x) : q = <<"Sub", "f">> BY <3>5, <3>6, OneName
      <4>2. <<"Out", "f">> # <<"Sub", "f">> OBVIOUS
      <4> QED BY <4>1, <4>2
    <3>8. entry["Out"]["f"] # <<"object", x>>
      BY <3>7 DEF Disk!Places, Disk!Dirs, Disk!EntryNames
    <3>9. x \in exposed' => strayed # "no" BY <2>1, <3>2, <3>8 DEF Disk!Exposed
    <3>10. stamp[x] \in Nat BY <2>1, FilesMapped
    <3> HIDE DEF x
    <3>11. StampTells'
      <4>1. KeptPlace' BY <2>1, <3>3, <3>8, <3>9 DEF KeptPlace
      <4> QED BY <2>1, <3>5, <3>10, <4>1 DEF StampTells, Disk!Goto
    <3>12. OpenIsInside' BY <2>1, <3>2, <3>4 DEF OpenIsInside, Disk!Goto, Early
    <3>13. Stage' BY <2>1 DEF Stage, Disk!Goto, Early, Open, ReadStages, Patching, Reading
    <3>14. TreeIsHosted' BY <2>1 DEF TreeIsHosted, Early
    <3>15. WithinLimit' BY <2>1 DEF WithinLimit, Disk!Goto
    <3>16. SinceLook'
      BY <2>1 DEF SinceLook, Disk!Goto, Stage, Early, Reading, Patching, Disk!Nowhere
    <3> QED BY <3>1, <3>11, <3>12, <3>13, <3>14, <3>15, <3>16
  <2> QED BY <1>1, <1>6, <2>1 DEF Disk!OpenFile
<1>7. CASE Disk!Read1 \/ Disk!Read2
  <2>1. pc \in {"read1", "read2"} /\ UNCHANGED <<Disk!world, op, dir, file, meta, looked, temp>>
    BY <1>7 DEF Disk!Read1, Disk!Read2, Disk!ReadPart
  <2>2. file \in Disk!Files /\ length[file] \in Nat
    BY <2>1, FilesMapped DEF OpenIsInside, Open, Reading
  <2>3. \/ pc = "read1" /\ pc' = "read2" /\ got'[1] = length[file]
        \/ /\ pc = "read2" /\ got'[1] = got[1] /\ got'[2] = length[file]
           /\ pc' = (IF op = "read" THEN "bounded" ELSE "fstat")
    BY <1>7 DEF Disk!Read1, Disk!Read2, Disk!ReadPart, Disk!Goto, DiskTypes
  <2>4. got' \in [1 .. 2 -> Nat]
    BY <1>7, <2>2 DEF Disk!Read1, Disk!Read2, Disk!ReadPart, DiskTypes
  <2>5. DiskTypes' BY <2>1, <2>4, WorldRests DEF Disk!world
  <2>6. Stage' BY <2>1, <2>3 DEF Stage, Early, Open, ReadStages, Patching, Reading
  <2>7. TreeIsHosted' BY <2>1 DEF TreeIsHosted, Open, Reading, Disk!world
  <2>8. OpenIsInside' BY <2>1, <2>3 DEF OpenIsInside, Early, Open, Reading, Disk!world
  <2>9. StampTells' BY <2>1, <2>3 DEF StampTells, KeptPlace, Open, Reading, Disk!world
  <2>10. WithinLimit' BY <2>1, <2>3 DEF WithinLimit
  <2>11. SinceLook' BY <2>1, <2>3 DEF SinceLook, Reading, Disk!world, Disk!Attached
  <2> QED BY <2>5, <2>6, <2>7, <2>8, <2>9, <2>10, <2>11
<1>8. CASE Disk!Bounded
  <2>1. CASE /\ pc = "bounded" /\ got[2] <= Limit /\ Disk!Goto("fstat")
             /\ UNCHANGED <<Disk!world, op, Disk!Held, temp>>
    <3>1. DiskTypes' BY <2>1, WorldRests DEF Disk!world, Disk!Held, DiskTypes
    <3>2. op = "read" /\ temp = Disk!Nowhere BY <2>1 DEF Stage, ReadStages, Reading, Patching
    <3>3. Stage' BY <2>1, <3>2 DEF Stage, Disk!Goto, Early, Open, ReadStages, Patching, Reading
    <3>4. TreeIsHosted' BY <2>1 DEF TreeIsHosted, Open, ReadStages, Disk!world
    <3>5. OpenIsInside' /\ StampTells'
      BY <2>1 DEF OpenIsInside, StampTells, KeptPlace, Disk!Goto, Early, Open, ReadStages, Reading,
          Disk!world, Disk!Held
    <3>6. WithinLimit' /\ SinceLook'
      BY <2>1, <3>2 DEF WithinLimit, SinceLook, Disk!Goto, Reading, Disk!world, Disk!Held,
          Disk!Nowhere
    <3> QED BY <3>1, <3>3, <3>4, <3>5, <3>6
  <2> QED BY <1>1, <1>8, <2>1 DEF Disk!Bounded
<1>9. CASE Disk!EnsureUnchanged
  <2>1. CASE /\ pc = "fstat" /\ Disk!Acceptable /\ UNCHANGED <<Disk!world, op, Disk!Held, temp>>
             /\ Disk!Goto(IF op = "read" THEN "last"
                          ELSE IF temp = Disk!Nowhere THEN "temp" ELSE "prepublish")
    <3>1. DiskTypes' BY <2>1, WorldRests DEF Disk!world, Disk!Held, DiskTypes
    <3>2. \/ op = "read" /\ temp = Disk!Nowhere /\ pc' = "last"
          \/ op = "patch" /\ temp = Disk!Nowhere /\ pc' = "temp"
          \/ op = "patch" /\ temp = "Sub" /\ pc' = "prepublish"
      <4>1. /\ temp = Disk!Nowhere \/ (temp = "Sub" /\ op = "patch")
            /\ op \in {"read", "patch"}
        BY <2>1 DEF Stage, Reading, DiskTypes
      <4>2. CASE op = "read" BY <2>1, <4>1, <4>2 DEF Disk!Goto
      <4>3. CASE op # "read" /\ temp = Disk!Nowhere BY <2>1, <4>1, <4>3 DEF Disk!Goto
      <4>4. CASE op # "read" /\ temp # Disk!Nowhere BY <2>1, <4>1, <4>4 DEF Disk!Goto
      <4> QED BY <4>2, <4>3, <4>4
    <3>3. Stage' BY <2>1, <3>2 DEF Stage, Early, Open, ReadStages, Patching, Reading
    <3>4. TreeIsHosted' BY <2>1, <3>2 DEF TreeIsHosted, Open, Reading, Disk!world
    <3>5. OpenIsInside' /\ StampTells'
      BY <2>1, <3>2 DEF OpenIsInside, StampTells, KeptPlace, Early, Open, ReadStages, Patching, Reading,
          Disk!world, Disk!Held
    <3>6. WithinLimit' BY <3>2 DEF WithinLimit
    <3>7. op = "patch" => length[file] = Disk!Base
      <4>1. meta.stamp = stamp[file] /\ (op = "patch" => got[2] = Disk!Base)
        BY <2>1 DEF Disk!Acceptable, Disk!Unchanged, Disk!Fstat
      <4> QED BY <2>1, <4>1 DEF StampTells, KeptPlace, Open, Reading
    <3>8. SinceLook'
      BY <2>1, <3>2, <3>7 DEF SinceLook, Reading, Disk!world, Disk!Held, Disk!Nowhere,
          Disk!Attached
    <3> QED BY <3>1, <3>3, <3>4, <3>5, <3>6, <3>8
  <2> QED BY <1>1, <1>9, <2>1 DEF Disk!EnsureUnchanged
<1>10. CASE Disk!CreateTemp
  <2>1. /\ pc = "temp" /\ temp' = "Sub" /\ pc' = "synced"
        /\ UNCHANGED <<Disk!world, op, Disk!Held>>
    BY <1>10 DEF Disk!CreateTemp, Disk!Goto, OpenIsInside, Open
  <2>2. DiskTypes' BY <2>1, WorldRests DEF Disk!world, Disk!Held, DiskTypes
  <2> QED BY <2>1, <2>2 DEF Stage, TreeIsHosted, OpenIsInside, StampTells, KeptPlace, WithinLimit,
        SinceLook, Early, Open, ReadStages, Patching, Reading, Disk!world, Disk!Held
<1>11. CASE Disk!VerifyParentDescriptor
  <2>1. CASE /\ pc = "parent" /\ Disk!Opened("Root", "a") = dir
             /\ looked' = others /\ Disk!Goto("again")
             /\ UNCHANGED <<Disk!world, op, dir, file, meta, got, temp>>
    <3>1. DiskTypes' BY <2>1, WorldRests DEF Disk!world, DiskTypes
    <3>2. Disk!Attached
      <4>1. dir = "Sub" BY <2>1 DEF OpenIsInside, Open, Patching
      <4> QED BY <2>1, <4>1 DEF Disk!Attached, Disk!Opened, DiskTypes, DirectoryEntries,
          Disk!Missing
    <3> QED BY <2>1, <3>1, <3>2 DEF Disk!Goto, Stage, TreeIsHosted, OpenIsInside, StampTells, KeptPlace,
        WithinLimit,
        SinceLook, Early, Open, ReadStages, Patching, Reading, Disk!world, Disk!Attached
  <2> QED BY <1>1, <1>11, <2>1 DEF Disk!VerifyParentDescriptor
<1>12. CASE Disk!OpenAgain
  <2> DEFINE x == Disk!Opened(dir, "f")
  <2>1. CASE /\ pc = "again" /\ x = file /\ Disk!EnsureSingleLink(Disk!Fstat(x))
             /\ meta' = Disk!Fstat(x) /\ Disk!Goto("read1")
             /\ UNCHANGED <<Disk!world, op, dir, file, got, looked, temp>>
    <3>1. DiskTypes' BY <2>1, WorldRests DEF Disk!world, DiskTypes
    <3>2. /\ dir = "Sub" /\ file \in Disk!Files /\ op = "patch" /\ temp = "Sub"
          /\ file \in hosted \/ strayed = "walking"
      BY <2>1 DEF OpenIsInside, Open, Patching, Stage
    <3>3. entry["Sub"]["f"] = <<"object", file>>
      <4>1. entry["Sub"]["f"] \in Entries BY FilesMapped DEF Disk!Dirs, Disk!EntryNames
      <4> QED BY <2>1, <3>2, <4>1 DEF Disk!Opened, Entries, Disk!Missing, Disk!Files
    <3>4. meta'.stamp = stamp[file] /\ meta'.len = length[file] /\ stamp[file] \in Nat
      BY <2>1, <3>2, FilesMapped DEF Disk!Fstat
    <3>5. Stage' BY <2>1, <3>2 DEF Stage, Disk!Goto, Early, Open, ReadStages, Patching, Reading
    <3>6. TreeIsHosted' BY <2>1 DEF TreeIsHosted, Open, Patching, Disk!world
    <3>7. OpenIsInside' BY <2>1, <3>2 DEF OpenIsInside, Disk!Goto, Disk!world, Early
    <3>8. StampTells' BY <2>1, <3>2, <3>4 DEF StampTells, KeptPlace, Disk!Goto, Disk!world
    <3>9. WithinLimit' BY <2>1 DEF WithinLimit, Disk!Goto
    <3>10. SinceLook' BY <2>1, <3>3 DEF SinceLook, Disk!Goto, Disk!world, Disk!Attached
    <3> QED BY <3>1, <3>5, <3>6, <3>7, <3>8, <3>9, <3>10
  <2> QED BY <1>1, <1>12, <2>1 DEF Disk!OpenAgain
<1>13. CASE Disk!Publish
  <2>1. /\ pc = "publish" /\ pc' = "published" /\ temp' = Disk!Nowhere /\ dir = "Sub"
        /\ entry' = [entry EXCEPT !["Sub"]["f"] = <<"object", "new">>]
        /\ UNCHANGED <<length, stamp, others, op, got, looked>>
    BY <1>13 DEF Disk!Publish, Disk!Goto, Disk!Held, OpenIsInside, Open, Patching
  <2>2. DiskTypes'
    <3>1. <<"object", "new">> \in Entries BY DEF Entries, Disk!Files
    <3>2. entry' \in [Disk!Dirs -> [Disk!EntryNames -> Entries]] BY <2>1, <3>1 DEF DiskTypes
    <3>3. entry'["Root"]["a"] = entry["Root"]["a"] /\ entry'["Out"]["moved"] = entry["Out"]["moved"]
      BY <2>1 DEF DiskTypes, Disk!Dirs, Disk!EntryNames
    <3> QED BY <2>1, <3>2, <3>3 DEF DiskTypes, Disk!Attached, Disk!Outside
  <2> QED BY <2>1, <2>2 DEF Stage, TreeIsHosted, OpenIsInside, StampTells, KeptPlace, WithinLimit,
        SinceLook, Early, Open, ReadStages, Patching, Reading
<1> QED BY <1>3, <1>4, <1>5, <1>6, <1>7, <1>8, <1>9, <1>10, <1>11, <1>12,
    <1>13 DEF Disk!Operation

(* What moving the directory changes.                                      *)
LEMMA DirectoryMoves ==
  ASSUME DiskTypes, Disk!MoveDirectory
  PROVE  /\ entry' \in [Disk!Dirs -> [Disk!EntryNames -> Entries]]
         /\ entry'["Root"]["a"] \in DirectoryEntries
         /\ ~(Disk!Attached' /\ Disk!Outside(entry'))
         /\ entry'["Sub"]["f"] = entry["Sub"]["f"] /\ entry'["Out"]["f"] = entry["Out"]["f"]
<1>1. /\ Disk!Missing \in Entries /\ <<"link", "Out">> \in Entries
      /\ <<"object", "Sub">> \in Entries
      /\ Disk!Missing \in DirectoryEntries /\ <<"link", "Out">> \in DirectoryEntries
      /\ <<"object", "Sub">> \in DirectoryEntries
      /\ Disk!Missing # <<"object", "Sub">> /\ <<"link", "Out">> # <<"object", "Sub">>
  BY DEF Entries, DirectoryEntries, Disk!Missing
<1> HIDE DEF Entries, DirectoryEntries
<1>2. /\ \A d \in Disk!Dirs, n \in Disk!EntryNames : entry[d][n] \in Entries
      /\ {"Root", "Sub", "Out"} = Disk!Dirs /\ {"a", "f", "moved"} = Disk!EntryNames
  BY DEF DiskTypes, Disk!Dirs, Disk!EntryNames
<1>3. PICK to \in {<<"Root", "a">>, <<"Root", "moved">>, <<"Out", "moved">>},
           left \in {Disk!Missing, <<"link", "Out">>} :
        entry' = [d \in Disk!Dirs |->
                    [n \in Disk!EntryNames |->
                       CASE <<d, n>> = to -> <<"object", "Sub">>
                         [] <<d, n>> # to /\ <<d, n>> = <<"Root", "a">> -> left
                         [] <<d, n>> # to /\ n = "moved" -> Disk!Missing
                         [] OTHER -> entry[d][n]]]
  BY DEF Disk!MoveDirectory
<1>4. ASSUME NEW d \in Disk!Dirs, NEW n \in Disk!EntryNames
      PROVE  /\ entry'[d][n] \in Entries
             /\ <<d, n>> = to => entry'[d][n] = <<"object", "Sub">>
             /\ <<d, n>> # to /\ <<d, n>> = <<"Root", "a">> => entry'[d][n] = left
             /\ <<d, n>> # to /\ <<d, n>> # <<"Root", "a">> /\ n = "moved" =>
                  entry'[d][n] = Disk!Missing
             /\ <<d, n>> # to /\ <<d, n>> # <<"Root", "a">> /\ n # "moved" =>
                  entry'[d][n] = entry[d][n]
  <2>1. entry'[d][n] = CASE <<d, n>> = to -> <<"object", "Sub">>
                         [] <<d, n>> # to /\ <<d, n>> = <<"Root", "a">> -> left
                         [] <<d, n>> # to /\ n = "moved" -> Disk!Missing
                         [] OTHER -> entry[d][n]
    BY <1>3
  <2>2. <<d, n>> = <<"Root", "a">> => n # "moved" OBVIOUS
  <2>3. CASE <<d, n>> = to BY <1>1, <2>1, <2>3
  <2>4. CASE <<d, n>> # to /\ <<d, n>> = <<"Root", "a">> BY <1>1, <2>1, <2>2, <2>4
  <2>5. CASE <<d, n>> # to /\ <<d, n>> # <<"Root", "a">> /\ n = "moved" BY <1>1, <2>1, <2>5
  <2>6. CASE <<d, n>> # to /\ <<d, n>> # <<"Root", "a">> /\ n # "moved" BY <1>2, <2>1, <2>6
  <2> QED BY <2>3, <2>4, <2>5, <2>6
<1>5. entry' \in [Disk!Dirs -> [Disk!EntryNames -> Entries]]
  <2>1. ASSUME NEW d \in Disk!Dirs PROVE entry'[d] \in [Disk!EntryNames -> Entries]
    BY <1>3, <1>4
  <2> QED BY <1>3, <2>1
<1>6. to = <<"Root", "a">> \/ <<"Root", "a">> # to OBVIOUS
<1>7. entry'["Root"]["a"] \in DirectoryEntries BY <1>1, <1>2, <1>4, <1>6
<1>8. ~(Disk!Attached' /\ Disk!Outside(entry'))
  <2>1. CASE to = <<"Root", "a">>
    <3>1. entry'["Out"]["moved"] = Disk!Missing BY <1>2, <1>4, <2>1
    <3> QED BY <1>1, <3>1 DEF Disk!Outside
  <2>2. CASE to # <<"Root", "a">>
    <3>1. entry'["Root"]["a"] = left BY <1>2, <1>4, <2>2
    <3> QED BY <1>1, <3>1 DEF Disk!Attached
  <2> QED BY <2>1, <2>2
<1>9. entry'["Sub"]["f"] = entry["Sub"]["f"] /\ entry'["Out"]["f"] = entry["Out"]["f"]
  <2>1. <<"Sub", "f">> # to /\ <<"Out", "f">> # to OBVIOUS
  <2> QED BY <1>2, <1>4, <2>1
<1> QED BY <1>5, <1>7, <1>8, <1>9

(* What moving the file changes.                                           *)
LEMMA FileMoves ==
  ASSUME DiskTypes, Disk!MoveFile
  PROVE  /\ entry' \in [Disk!Dirs -> [Disk!EntryNames -> Entries]]
         /\ entry'["Root"]["a"] = entry["Root"]["a"] /\ entry'["Out"]["moved"] = entry["Out"]["moved"]
<1>1. /\ Disk!Missing \in Entries /\ <<"link", "out">> \in Entries
  BY DEF Entries
<1>2. /\ entry \in [Disk!Dirs -> [Disk!EntryNames -> Entries]]
      /\ {"Root", "Sub", "Out"} = Disk!Dirs /\ {"a", "f", "moved"} = Disk!EntryNames
      /\ entry["Sub"]["f"] \in Entries /\ entry["Out"]["f"] \in Entries
  BY DEF DiskTypes, Disk!Dirs, Disk!EntryNames
<1>3. ASSUME NEW d \in {"Sub", "Out"}, NEW e \in Entries, entry' = [entry EXCEPT ![d]["f"] = e]
      PROVE  /\ entry' \in [Disk!Dirs -> [Disk!EntryNames -> Entries]]
             /\ entry'["Root"]["a"] = entry["Root"]["a"]
             /\ entry'["Out"]["moved"] = entry["Out"]["moved"]
  BY <1>2, <1>3
<1>4. ASSUME entry' = [entry EXCEPT !["Sub"]["f"] = entry["Out"]["f"], !["Out"]["f"] = Disk!Missing]
      PROVE  /\ entry' \in [Disk!Dirs -> [Disk!EntryNames -> Entries]]
             /\ entry'["Root"]["a"] = entry["Root"]["a"]
             /\ entry'["Out"]["moved"] = entry["Out"]["moved"]
  BY <1>1, <1>2, <1>4
<1> QED BY <1>1, <1>2, <1>3, <1>4 DEF Disk!MoveFile

(* Other programs keep the invariant.                                      *)
LEMMA OtherStep ==
  ASSUME DiskInv, Disk!OtherPrograms PROVE DiskInv'
<1> USE DEF DiskInv
<1> DEFINE Calm(x) ==
      stamp'[x] = stamp[x] =>
        /\ length'[x] = length[x]
        /\ entry'["Out"]["f"] = <<"object", x>> => entry["Out"]["f"] = <<"object", x>>
        /\ entry["Sub"]["f"] = <<"object", x>> => entry'["Sub"]["f"] = <<"object", x>>
<1>1. /\ others \in Nat /\ others' = others + 1 /\ looked' = looked /\ looked \in 0 .. others
      /\ UNCHANGED <<op, pc, dir, file, meta, got, temp>>
      /\ hosted' = hosted \cup Disk!Contained(entry')
      /\ exposed' = exposed \cup Disk!Exposed(entry')
      /\ strayed' = IF ~Disk!Outside(entry') \/ dir = Disk!Nowhere THEN strayed
                    ELSE IF file = Disk!Nowhere THEN "walking"
                    ELSE IF strayed = "no" THEN "reading" ELSE strayed
  BY DEF Disk!OtherPrograms, Disk!Held, DiskTypes
<1>2. /\ entry' \in [Disk!Dirs -> [Disk!EntryNames -> Entries]]
      /\ entry'["Root"]["a"] \in DirectoryEntries
      /\ ~(Disk!Attached' /\ Disk!Outside(entry'))
      /\ length' \in [Disk!Files -> Nat] /\ stamp' \in [Disk!Files -> Nat]
      /\ \A x \in Disk!Files : stamp'[x] >= stamp[x] /\ Calm(x)
  <2>0. \A x \in Disk!Files : length[x] \in Nat /\ stamp[x] \in Nat BY FilesMapped
  <2>1. CASE Disk!MoveDirectory
    <3>1. length' = length /\ stamp' = stamp BY <2>1 DEF Disk!MoveDirectory
    <3>2. /\ entry' \in [Disk!Dirs -> [Disk!EntryNames -> Entries]]
          /\ entry'["Root"]["a"] \in DirectoryEntries
          /\ ~(Disk!Attached' /\ Disk!Outside(entry'))
          /\ entry'["Sub"]["f"] = entry["Sub"]["f"] /\ entry'["Out"]["f"] = entry["Out"]["f"]
      BY <2>1, DirectoryMoves
    <3>3. length' \in [Disk!Files -> Nat] /\ stamp' \in [Disk!Files -> Nat] BY <3>1 DEF DiskTypes
    <3> QED BY <2>0, <3>1, <3>2, <3>3
  <2>2. CASE Disk!MoveRoot
    BY <2>0, <2>2 DEF Disk!MoveRoot, DiskTypes, Disk!Attached, Disk!Outside
  <2>3. ASSUME NEW y \in {"in", "out"}, Disk!Write(y)
        PROVE  /\ entry' = entry /\ length' \in [Disk!Files -> Nat]
               /\ stamp' \in [Disk!Files -> Nat]
               /\ \A x \in Disk!Files : /\ stamp'[x] >= stamp[x]
                                        /\ stamp'[x] = stamp[x] => length'[x] = length[x]
    BY <2>0, <2>3 DEF Disk!Write, Disk!Touch, DiskTypes, Disk!Files
  <2>4. CASE Disk!MoveFile
    <3> DEFINE T == {x \in Disk!Files : \E d \in {"Sub", "Out"} :
                            /\ entry[d]["f"] # entry'[d]["f"]
                            /\ x \in {Disk!Named(entry, d, "f"), Disk!Named(entry', d, "f")}}
    <3>1. /\ entry' \in [Disk!Dirs -> [Disk!EntryNames -> Entries]]
          /\ entry'["Root"]["a"] = entry["Root"]["a"] /\ entry'["Out"]["moved"] = entry["Out"]["moved"]
      BY <2>4, FileMoves
    <3>2. /\ stamp' = [x \in Disk!Files |-> IF x \in T THEN stamp[x] + 1 ELSE stamp[x]]
          /\ length' = length
      BY <2>4 DEF Disk!MoveFile, Disk!Touch
    <3>3. ASSUME NEW x \in Disk!Files, entry'["Out"]["f"] = <<"object", x>>,
                 entry["Out"]["f"] # <<"object", x>>
          PROVE  x \in T
      <4>1. Disk!Named(entry', "Out", "f") = x BY <3>3 DEF Disk!Named
      <4> QED BY <3>3, <4>1
    <3>31. ASSUME NEW x \in Disk!Files, entry["Sub"]["f"] = <<"object", x>>,
                  entry'["Sub"]["f"] # <<"object", x>>
           PROVE  x \in T
      <4>1. Disk!Named(entry, "Sub", "f") = x BY <3>31 DEF Disk!Named
      <4> QED BY <3>31, <4>1
    <3> HIDE DEF T
    <3>4. /\ stamp' \in [Disk!Files -> Nat]
          /\ \A x \in Disk!Files : stamp'[x] = IF x \in T THEN stamp[x] + 1 ELSE stamp[x]
      BY <2>0, <3>2
    <3>5. ASSUME NEW x \in Disk!Files
          PROVE  stamp'[x] >= stamp[x] /\ Calm(x)
      <4>1. stamp[x] \in Nat BY <2>0
      <4>2. CASE x \in T BY <3>4, <4>1, <4>2
      <4>3. CASE x \notin T BY <3>2, <3>3, <3>31, <3>4, <4>1, <4>3
      <4> QED BY <4>2, <4>3
    <3> QED BY <3>1, <3>2, <3>4, <3>5 DEF DiskTypes, Disk!Attached, Disk!Outside
  <2>5. CASE \E y \in {"in", "out"} : Disk!Write(y)
    BY <2>3, <2>5 DEF DiskTypes, Disk!Attached, Disk!Outside
  <2> QED BY <2>1, <2>2, <2>4, <2>5 DEF Disk!OtherPrograms
<1> HIDE DEF Calm
<1>3. DiskTypes' BY <1>1, <1>2 DEF DiskTypes
<1>4. Stage' BY <1>1 DEF Stage
<1>5. TreeIsHosted' BY <1>1 DEF TreeIsHosted
<1>51. \A x \in Disk!Files : x # Disk!Nowhere BY DEF Disk!Files, Disk!Nowhere
<1>6. OpenIsInside'
  <2>1. CASE pc \in Early BY <1>1, <2>1 DEF OpenIsInside, Early, Open, Reading, ReadStages, Patching,
      Disk!Nowhere
  <2>2. CASE pc \in Open
    <3>1. pc \notin Early BY <2>2 DEF Early, Open, Reading, ReadStages, Patching
    <3>2. dir = "Sub" /\ file \in Disk!Files /\ file # Disk!Nowhere
          /\ (file \in hosted \/ strayed = "walking")
      BY <1>51, <2>2 DEF OpenIsInside
    <3>3. strayed = "walking" => strayed' = "walking" BY <1>1, <3>2
    <3> QED BY <1>1, <3>1, <3>2, <3>3 DEF OpenIsInside, Early
  <2>3. CASE pc \notin Early \cup Open BY <1>1, <2>3 DEF OpenIsInside, Early
  <2> QED BY <2>1, <2>2, <2>3
<1>7. WithinLimit' BY <1>1 DEF WithinLimit
<1>8. SinceLook' BY <1>1 DEF SinceLook
<1>9. StampTells'
  <2> SUFFICES ASSUME pc \in Open
               PROVE  /\ meta.stamp \in Nat /\ meta.stamp <= stamp'[file]
                      /\ meta.stamp = stamp'[file] =>
                           /\ length'[file] = meta.len
                           /\ pc \in {"read2", "bounded", "fstat"} => got[1] = meta.len
                           /\ pc \in {"bounded", "fstat"} => got[2] = meta.len
                           /\ op = "read" => KeptPlace'
    BY <1>1 DEF StampTells
  <2>1. file \in Disk!Files BY DEF OpenIsInside
  <2>2. stamp[file] \in Nat /\ stamp'[file] \in Nat /\ stamp'[file] >= stamp[file]
    BY <1>2, <2>1, FilesMapped
  <2>3. meta.stamp \in Nat /\ meta.stamp <= stamp[file] BY DEF StampTells
  <2>4. ASSUME meta.stamp = stamp'[file]
        PROVE  /\ length'[file] = meta.len
               /\ pc \in {"read2", "bounded", "fstat"} => got[1] = meta.len
               /\ pc \in {"bounded", "fstat"} => got[2] = meta.len
               /\ op = "read" => KeptPlace'
    <3>1. meta.stamp = stamp[file] /\ stamp'[file] = stamp[file] BY <2>2, <2>3, <2>4
    <3>2. length'[file] = length[file]
      /\ (entry'["Out"]["f"] = <<"object", file>> => entry["Out"]["f"] = <<"object", file>>)
      /\ (entry["Sub"]["f"] = <<"object", file>> => entry'["Sub"]["f"] = <<"object", file>>)
      BY <1>2, <2>1, <3>1 DEF Calm
    <3>3. ASSUME op = "read" PROVE KeptPlace'
      <4>1. KeptPlace BY <3>1, <3>3 DEF StampTells
      <4>2. dir = "Sub" /\ dir # Disk!Nowhere /\ file # Disk!Nowhere
        BY <1>51, <2>1 DEF OpenIsInside, Disk!Nowhere
      <4>3. strayed # "no" => strayed' # "no" BY <1>1, <4>2
      <4>4. Disk!Outside(entry') => strayed' # "no" BY <1>1, <4>2
      <4>5. file \in Disk!Exposed(entry') => strayed' # "no"
        BY <3>2, <4>1, <4>4 DEF KeptPlace, Disk!Exposed
      <4> QED BY <1>1, <3>2, <4>1, <4>3, <4>5 DEF KeptPlace
    <3> QED BY <3>1, <3>2, <3>3 DEF StampTells
  <2> QED BY <2>2, <2>3, <2>4
<1> QED BY <1>3, <1>4, <1>5, <1>6, <1>7, <1>8, <1>9

(* The invariant of WorkspaceFiles is inductive.                           *)
LEMMA DiskStep == DiskInv /\ [Disk!Next]_(Disk!vars) => DiskInv'
<1>1. ASSUME DiskInv, UNCHANGED Disk!vars PROVE DiskInv'
  BY <1>1 DEF Disk!vars, DiskInv, DiskTypes, Stage, TreeIsHosted, OpenIsInside, StampTells,
      WithinLimit, KeptPlace, Disk!Outside, Disk!Contained, SinceLook, Disk!Attached
<1> QED BY <1>1, OperationStep, OtherStep DEF Disk!Next

(* What a read returns is the content its file had when it was opened,     *)
(* within the limit; the file has no entry of its own outside, was in the  *)
(* tree unless its directory was moved out between the two opens, and had  *)
(* no path outside unless its directory was moved out; whatever other      *)
(* programs rename, link and write and however often (read_limited,        *)
(* open_relative_nofollow, ensure_file_identity_unchanged).                *)
THEOREM ReadsStayInside == Disk!Spec => ReadsOnlyInside
<1>1. ASSUME DiskInv, Disk!Next, pc = "fstat", pc' = "last"
      PROVE  /\ got[1] = got[2] /\ got[1] = meta.len /\ got[2] <= Limit
             /\ \A p \in Disk!Places(file) : p[1] = "Sub"
             /\ file \notin hosted => strayed = "walking"
             /\ file \in exposed => strayed # "no"
  <2>1. Disk!EnsureUnchanged
    BY <1>1 DEF Disk!Next, Disk!Operation, Disk!OtherPrograms, Disk!Revalidate, Disk!Resolve,
        Disk!OpenDirectory, Disk!OpenFile, Disk!CheckLimit,
        Disk!Read1, Disk!Read2, Disk!ReadPart, Disk!Bounded, Disk!CreateTemp,
        Disk!VerifyParentDescriptor, Disk!OpenAgain, Disk!Publish, Disk!Return, Disk!Error, Disk!Goto
  <2>2. op = "read" /\ meta.stamp = stamp[file] /\ Disk!Links(file) <= 1
    BY <1>1, <2>1 DEF Disk!EnsureUnchanged, Disk!Error, Disk!Goto, Disk!Acceptable,
        Disk!Unchanged, Disk!Fstat, Disk!EnsureSingleLink
  <2>3. KeptPlace BY <1>1, <2>2 DEF DiskInv, StampTells, Open, Reading
  <2>4. <<"Sub", "f">> \in Disk!Places(file)
    BY <2>3 DEF KeptPlace, Disk!Places, Disk!Dirs, Disk!EntryNames
  <2>5. \A p \in Disk!Places(file) : p = <<"Sub", "f">> BY <2>2, <2>4, OneName
  <2>6. \A p \in Disk!Places(file) : p[1] = "Sub" BY <2>5
  <2> QED BY <1>1, <2>2, <2>3, <2>6
      DEF DiskInv, OpenIsInside, KeptPlace, StampTells, WithinLimit, Open, Reading
<1>2. DiskInv /\ [Disk!Next]_(Disk!vars) =>
        [pc = "fstat" /\ pc' = "last" =>
           /\ got[1] = got[2] /\ got[1] = meta.len /\ got[2] <= Limit
           /\ \A p \in Disk!Places(file) : p[1] = "Sub"
           /\ file \notin hosted => strayed = "walking"
           /\ file \in exposed => strayed # "no"]_(Disk!vars)
  BY <1>1
<1> QED BY <1>2, DiskStart, DiskStep, PTL DEF Disk!Spec, ReadsOnlyInside, Disk!ReadsOnlyInside

(* A patch replaces the file it examined, with the content it was made     *)
(* for, in the directory of the tree, unless another program acts after    *)
(* its last look at the parent; in no case does it leave a temporary file  *)
(* behind (apply_patch_dirfd_observed, DirectoryTempFile::drop).           *)
THEOREM PatchesAreWhole == Disk!Spec => PatchAllOrNothing
<1>1. ASSUME DiskInv, pc = "publish"
      PROVE  /\ dir = "Sub"
             /\ others = looked =>
                  /\ Disk!Attached /\ file \in hosted
                  /\ entry[dir]["f"] = <<"object", file>> /\ length[file] = Disk!Base
  <2>1. dir = "Sub" /\ file \in Disk!Files BY <1>1 DEF DiskInv, OpenIsInside, Open, Patching
  <2>2. ASSUME others = looked
        PROVE  /\ Disk!Attached /\ entry["Sub"]["f"] = <<"object", file>>
               /\ length[file] = Disk!Base
    BY <1>1, <2>2 DEF DiskInv, SinceLook
  <2>3. ASSUME others = looked PROVE file \in hosted
    <3>1. ~Disk!Outside(entry) BY <1>1, <2>2, <2>3 DEF DiskInv, DiskTypes
    <3>2. file \in Disk!Contained(entry) BY <2>1, <2>2, <2>3, <3>1 DEF Disk!Contained
    <3> QED BY <1>1, <3>2 DEF DiskInv, TreeIsHosted, Open, Patching
  <2> QED BY <2>1, <2>2, <2>3
<1>2. DiskInv /\ [Disk!Next]_(Disk!vars) =>
        [pc = "publish" /\ pc' = "published" =>
           /\ dir = "Sub"
           /\ others = looked =>
                /\ Disk!Attached /\ file \in hosted
                /\ entry[dir]["f"] = <<"object", file>> /\ length[file] = Disk!Base]_(Disk!vars)
  BY <1>1
<1>3. DiskInv => Disk!NoDebris BY DEF DiskInv, Stage, Disk!NoDebris, Reading, Patching
<1> QED BY <1>2, <1>3, DiskStart, DiskStep, PTL DEF Disk!Spec, Disk!ReplacesWhatItSaw,
    PatchAllOrNothing, Disk!PatchAllOrNothing

-----------------------------------------------------------------------------
(* Searching the tree.                                                     *)

(* The letters of queries and files.                                       *)
Letters == UNION {{t[n] : n \in 1 .. Len(t)} : t \in Queries \cup Contents}

(* Queries and texts are sequences, and no query is empty; a path occurs   *)
(* once in the tree; an operation is budgeted three times for each byte    *)
(* that may be read (SEARCH_OPERATION_MULTIPLIER is 4); the controls are   *)
(* sampled every so often.                                                 *)
SearchConstants ==
  /\ Queries \subseteq Seq(Letters) \ {<< >>} /\ Contents \subseteq Seq(Letters)
  /\ Tree \in Seq([path : Nat, depth : Nat, kind : {"file", "directory", "link"}])
  /\ \A m, n \in 1 .. Len(Tree) : Tree[m].path = Tree[n].path => m = n
  /\ Multiplier \in Nat /\ Multiplier >= 3 /\ MaxScanBytes \in Nat
  /\ Interval \in Nat \ {0} /\ SharedLimit \in Nat

(* Where a search can be.                                                  *)
Places == {"start", "step", "charge", "walk", "file", "end"}
(* What an operation can be paid for.                                      *)
Uses == {"prefix", "byte", "shrink", "cursor"}
(* How a search can end.                                                   *)
Results == {"none", "ok", "own", "shared", "matches", "depth", "files", "size", "scan", "output",
            "io", "cancelled", "deadline"}
(* A match that was reported.                                              *)
Matches == [path : Nat, offset : Nat, line : Nat, column : Nat]
(* A file the walk found.                                                  *)
Found == [path : Find!Paths, bytes : Nat]
(* A file that was read.                                                   *)
Reads == [path : Nat, text : Seq(Letters)]

(* Types of the local state of a search.                                   *)
Job == [pc : Places, at : Uses, query : Queries, prefix : Seq(Nat), index : Nat, matched : Nat,
        visited : Nat, todo : SUBSET Found, path : Nat, text : Seq(Letters), offset : Nat,
        cursor : Nat, line : Nat, lineStart : Nat, out : Seq(Matches), ops : Nat,
        nextCheck : Nat, scanned : Nat, current : Nat, result : Results, read : Seq(Reads),
        done : Nat]

(* The first m letters of q are the last m of the first n of t.            *)
Ends(q, m, t, n) == m <= n /\ \A i \in 1 .. m : q[i] = t[n - m + i]

(* The longest border of the first n letters of q has length m.            *)
Longest(q, n, m) == m < n /\ Ends(q, m, q, n) /\ \A b \in m + 1 .. n - 1 : ~Ends(q, b, q, n)

(* The first n letters of t end with the first m of q, and no longer       *)
(* prefix of q, of up to B letters, that they end with can be continued by *)
(* the next letter of t.                                                   *)
Candidate(q, m, t, n, B) ==
  Ends(q, m, t, n) /\ \A b \in m + 1 .. B : Ends(q, b, t, n) => q[b + 1] # t[n + 1]

(* The table p of prefixes is right for the first i letters of q and       *)
(* untouched behind them.                                                  *)
TableOf(q, p, i) ==
  /\ Len(p) = Len(q) /\ 1 <= i /\ i <= Len(q)
  /\ \A n \in 1 .. i : Longest(q, n, p[n])
  /\ \A n \in i + 1 .. Len(q) : p[n] = 0

(* The same for a search.                                                  *)
Table(j) == TableOf(j.query, j.prefix, j.index)

(* While the table is built: two operations for each letter, and d of them *)
(* not yet accounted for.                                                  *)
Building(j, d) ==
  /\ j.matched < j.index
  /\ j.done + j.matched + 2 <= 2 * j.index + d
  /\ j.scanned = 0
  /\ j.index < Len(j.query) => Candidate(j.query, j.matched, j.query, j.index, j.index - 1)

(* What the table and the files before the current one may have cost.      *)
Earlier(j) == 2 * Len(j.query) + 3 * (j.scanned - Len(j.text))

(* A path is queued once.                                                  *)
Distinct(j) == \A f, g \in j.todo : f.path = g.path => f = g

(* The walk queued the regular files among the entries visited.            *)
Walked(j) ==
  /\ j.visited <= Len(Tree) /\ j.read = << >> /\ j.out = << >> /\ Distinct(j)
  /\ {f.path : f \in j.todo} = {Tree[n].path : n \in {n \in 1 .. j.visited : Tree[n].kind = "file"}}

(* Every file of the tree has been read or is queued, in the order of      *)
(* paths.                                                                  *)
Queued(j) ==
  /\ {f.path : f \in j.todo} \cup {j.read[n].path : n \in 1 .. Len(j.read)} = Find!Paths
  /\ Distinct(j)
  /\ \A m, n \in 1 .. Len(j.read) : m < n => j.read[m].path < j.read[n].path
  /\ \A n \in 1 .. Len(j.read), f \in j.todo : j.read[n].path < f.path

(* Matches are reported in the order of paths and offsets.                 *)
InOrder(j) == \A m, n \in 1 .. Len(j.out) : m < n => Find!Before(j.out[m], j.out[n])

(* The matches reported.                                                   *)
Out(j) == {j.out[n] : n \in 1 .. Len(j.out)}

(* The occurrences in the first n files.                                   *)
Collected(j, n) == UNION {Find!Occurrences(j.read[i], j.query) : i \in 1 .. n}

(* The occurrence at offset o of r, with its line and column by            *)
(* definition.                                                             *)
Place(r, o) ==
  [path |-> r.path, offset |-> o,
   line |-> 1 + Cardinality(Find!Lines(r.text, o)),
   column |-> IF Find!Lines(r.text, o) = {} THEN o + 1
              ELSE o + 1 - (CHOOSE n \in Find!Lines(r.text, o) :
                              \A m \in Find!Lines(r.text, o) : m <= n)]

(* The occurrences in r that end within its first n letters.               *)
Hits(r, q, n) ==
  {Place(r, o) : o \in {o \in 0 .. Len(r.text) :
                          o + Len(q) <= n /\ Ends(q, Len(q), r.text, o + Len(q))}}

(* The file being searched.                                                *)
Current(j) == [path |-> j.path, text |-> j.text]

(* Up to the cursor c, the line counter is l and the line starts at s.     *)
Counted(t, c, l, s) ==
  /\ l = 1 + Cardinality(Find!Lines(t, c)) /\ s <= c
  /\ Find!Lines(t, c) = {} => s = 0
  /\ Find!Lines(t, c) # {} => s \in Find!Lines(t, c) /\ \A n \in Find!Lines(t, c) : n <= s

(* Within a file, of which n letters have been searched.                   *)
InFile(j, n) ==
  /\ Len(j.text) <= j.scanned /\ j.scanned <= MaxScanBytes
  /\ j.offset < Len(j.text) /\ j.index = Len(j.query) /\ Len(j.query) <= Len(j.text)
  /\ Queued(j) /\ InOrder(j) /\ Counted(j.text, j.cursor, j.line, j.lineStart)
  /\ Len(j.read) > 0 /\ j.read[Len(j.read)] = Current(j)
  /\ Out(j) = Collected(j, Len(j.read) - 1) \cup Hits(Current(j), j.query, n)

(* About to look at a byte: three operations for each byte, one of them    *)
(* for the cursor, and d of them not yet accounted for.                    *)
AtByte(j, d) ==
  /\ InFile(j, j.offset) /\ j.matched < Len(j.query)
  /\ j.cursor = 0 \/ j.cursor + Len(j.query) <= j.offset
  /\ j.done <= Earlier(j) + 2 * j.offset + d - j.matched + j.cursor
  /\ Candidate(j.query, j.matched, j.text, j.offset, Len(j.query) - 1)

(* A match was found and the cursor is on its way to it.                   *)
AtMatch(j, d) ==
  /\ InFile(j, j.offset) /\ j.matched = Len(j.query)
  /\ j.cursor + Len(j.query) <= j.offset + 1
  /\ j.done <= Earlier(j) + 2 * j.offset + 2 + d - j.matched + j.cursor
  /\ Ends(j.query, Len(j.query), j.text, j.offset + 1)

(* The byte has been looked at: what is matched is the longest prefix of   *)
(* the query that ends here.                                               *)
Passed(j) ==
  /\ InFile(j, j.offset + 1) /\ j.matched < Len(j.query)
  /\ j.cursor = 0 \/ j.cursor + Len(j.query) <= j.offset + 1
  /\ j.done <= Earlier(j) + 2 * j.offset + 2 - j.matched + j.cursor
  /\ Ends(j.query, j.matched, j.text, j.offset + 1)
  /\ \A b \in j.matched + 1 .. Len(j.query) - 1 : ~Ends(j.query, b, j.text, j.offset + 1)

(* Between two files.                                                      *)
Between(j) ==
  /\ j.scanned <= MaxScanBytes /\ j.done <= 2 * Len(j.query) + 3 * j.scanned
  /\ j.index = Len(j.query)

(* What the search is about to pay for is within its budget.               *)
Affordable(j, w) ==
  /\ w = "prefix" => Building(j, 0) /\ j.index < Len(j.query) /\ Walked(j)
  /\ w = "byte" => AtByte(j, 0)
  /\ w = "shrink" => /\ AtByte(j, 1) /\ j.matched > 0
                     /\ j.text[j.offset + 1] # j.query[j.matched + 1]
  /\ w = "cursor" => AtMatch(j, 0) /\ j.cursor + Len(j.query) < j.offset + 1

(* The search found all there is.                                          *)
Exact(j) ==
  /\ {j.read[n].path : n \in 1 .. Len(j.read)} = Find!Paths
  /\ Out(j) = Collected(j, Len(j.read)) /\ InOrder(j)

(* The invariant of one search.                                            *)
JobOK(j) ==
  /\ j \in Job /\ Table(j)
  /\ j.done <= j.ops /\ j.result # "own"
  /\ j.pc \in {"start", "step", "walk", "file"} => j.ops = j.done
  /\ j.pc = "charge" => j.ops = j.done + 1
  /\ j.pc = "start" => Building(j, 0) /\ Walked(j)
  /\ j.pc \in {"step", "charge"} => Affordable(j, j.at)
  /\ j.pc \in {"walk", "file"} => Between(j)
  /\ j.pc = "walk" => Walked(j)
  /\ j.pc = "file" => Queued(j) /\ InOrder(j) /\ Out(j) = Collected(j, Len(j.read))
  /\ j.result = "ok" => j.pc = "end" /\ Exact(j)

(* The next look at the controls is near; after a stop it is no further    *)
(* than Interval operations from it.                                       *)
Noticed(s) ==
  /\ stop = "no" => job[s].nextCheck <= job[s].ops + Interval
  /\ stop # "no" => /\ job[s].nextCheck <= stopAt[s] + Interval
                    /\ job[s].done < stopAt[s] + Interval

(* The inductive invariant of WorkspaceSearch.                             *)
SearchInv ==
  /\ job = [s \in Searches |-> job[s]] /\ \A s \in Searches : JobOK(job[s]) /\ Noticed(s)
  /\ stop \in {"no", "cancelled", "deadline"} /\ used \in Nat
  /\ stopAt \in [Searches -> Nat]
  /\ content \in [Find!Paths -> Contents]
  /\ IsFiniteSet(Find!Performed) /\ Find!BudgetHolds

(* A prefix can be extended exactly by the letter that follows.            *)
LEMMA EndsLonger ==
  ASSUME NEW q, NEW t, NEW m \in Nat, NEW n \in Nat
  PROVE  Ends(q, m + 1, t, n + 1) <=> Ends(q, m, t, n) /\ q[m + 1] = t[n + 1]
<1>1. ASSUME Ends(q, m + 1, t, n + 1) PROVE Ends(q, m, t, n) /\ q[m + 1] = t[n + 1]
  <2>1. \A i \in 1 .. m + 1 : q[i] = t[(n + 1) - (m + 1) + i] BY <1>1 DEF Ends
  <2>2. q[m + 1] = t[n + 1]
    <3>1. m + 1 \in 1 .. m + 1 /\ (n + 1) - (m + 1) + (m + 1) = n + 1 OBVIOUS
    <3> QED BY <2>1, <3>1
  <2>3. ASSUME NEW i \in 1 .. m PROVE q[i] = t[n - m + i]
    <3>1. i \in 1 .. m + 1 /\ (n + 1) - (m + 1) + i = n - m + i OBVIOUS
    <3> QED BY <2>1, <3>1
  <2> QED BY <1>1, <2>2, <2>3 DEF Ends
<1>2. ASSUME Ends(q, m, t, n), q[m + 1] = t[n + 1] PROVE Ends(q, m + 1, t, n + 1)
  <2>1. \A i \in 1 .. m : q[i] = t[n - m + i] BY <1>2 DEF Ends
  <2>2. ASSUME NEW i \in 1 .. m + 1 PROVE q[i] = t[(n + 1) - (m + 1) + i]
    <3>1. CASE i = m + 1
      <4>1. (n + 1) - (m + 1) + i = n + 1 BY <3>1
      <4> QED BY <4>1, <3>1, <1>2
    <3>2. CASE i # m + 1
      <4>1. i \in 1 .. m /\ (n + 1) - (m + 1) + i = n - m + i BY <3>2
      <4> QED BY <4>1, <2>1
    <3> QED BY <3>1, <3>2
  <2> QED BY <1>2, <2>2 DEF Ends
<1> QED BY <1>1, <1>2

(* A border of a prefix that the text ends with is a shorter prefix that   *)
(* it ends with, and conversely.                                           *)
LEMMA EndsTransitive ==
  ASSUME NEW q, NEW t, NEW b \in Nat, NEW m \in Nat, NEW n \in Nat, b <= m, Ends(q, m, t, n)
  PROVE  Ends(q, b, q, m) <=> Ends(q, b, t, n)
<1>1. \A i \in 1 .. m : q[i] = t[n - m + i] BY DEF Ends
<1>2. m <= n BY DEF Ends
<1>3. ASSUME NEW i \in 1 .. b PROVE q[m - b + i] = t[n - b + i]
  <2>1. m - b + i \in 1 .. m /\ n - m + (m - b + i) = n - b + i BY <1>2
  <2> QED BY <1>1, <2>1
<1> QED BY <1>2, <1>3 DEF Ends

(* Falling back to the longest border loses no candidate.                  *)
LEMMA FallBack ==
  ASSUME NEW q, NEW t, NEW m \in Nat, NEW n \in Nat, NEW B \in Nat, NEW p \in Nat,
         Candidate(q, m, t, n, B), q[m + 1] # t[n + 1], Longest(q, m, p)
  PROVE  Candidate(q, p, t, n, B)
<1>1. p < m /\ p <= m /\ Ends(q, p, q, m) /\ Ends(q, m, t, n) BY DEF Longest, Candidate
<1>2. Ends(q, p, t, n) BY <1>1, EndsTransitive
<1>3. ASSUME NEW b \in p + 1 .. B, Ends(q, b, t, n) PROVE q[b + 1] # t[n + 1]
  <2>1. b \in Nat BY <1>3
  <2>2. CASE b > m
    <3>1. b \in m + 1 .. B BY <2>2, <1>3
    <3> QED BY <3>1, <1>3 DEF Candidate
  <2>3. CASE b = m BY <2>3
  <2>4. CASE b < m
    <3>1. b \in p + 1 .. m - 1 /\ b <= m BY <2>4, <1>3
    <3>2. Ends(q, b, q, m) BY <3>1, <2>1, <1>1, <1>3, EndsTransitive
    <3> QED BY <3>1, <3>2 DEF Longest
  <2> QED BY <2>1, <2>2, <2>3, <2>4
<1> QED BY <1>2, <1>3 DEF Candidate

(* When the next letter continues the candidate, the longer prefix is the  *)
(* longest the text ends with.                                             *)
LEMMA GoesOn ==
  ASSUME NEW q, NEW t, NEW m \in Nat, NEW n \in Nat, NEW B \in Nat,
         Candidate(q, m, t, n, B), q[m + 1] = t[n + 1]
  PROVE  /\ Ends(q, m + 1, t, n + 1)
         /\ \A b \in m + 2 .. B + 1 : ~Ends(q, b, t, n + 1)
<1>1. Ends(q, m + 1, t, n + 1) BY EndsLonger DEF Candidate
<1>2. ASSUME NEW b \in m + 2 .. B + 1, Ends(q, b, t, n + 1) PROVE FALSE
  <2>1. PICK a \in Nat : a = b - 1 OBVIOUS
  <2>2. a \in m + 1 .. B /\ b = a + 1 BY <2>1
  <2>3. Ends(q, a, t, n) /\ q[a + 1] = t[n + 1] BY <2>2, <1>2, EndsLonger
  <2> QED BY <2>2, <2>3 DEF Candidate
<1> QED BY <1>1, <1>2

(* When not even the first letter continues, the text ends with no prefix. *)
LEMMA GoesNowhere ==
  ASSUME NEW q, NEW t, NEW n \in Nat, NEW B \in Nat,
         Candidate(q, 0, t, n, B), q[1] # t[n + 1]
  PROVE  /\ Ends(q, 0, t, n + 1)
         /\ \A b \in 1 .. B + 1 : ~Ends(q, b, t, n + 1)
<1>1. Ends(q, 0, t, n + 1) BY DEF Ends
<1>2. ASSUME NEW b \in 1 .. B + 1, Ends(q, b, t, n + 1) PROVE FALSE
  <2>1. PICK a \in Nat : a = b - 1 OBVIOUS
  <2>2. a \in 0 .. B /\ b = a + 1 BY <2>1
  <2>3. Ends(q, a, t, n) /\ q[a + 1] = t[n + 1] BY <2>2, <1>2, EndsLonger
  <2>4. CASE a = 0 BY <2>3, <2>4
  <2>5. CASE a # 0
    <3>1. a \in 0 + 1 .. B BY <2>5, <2>2
    <3> QED BY <3>1, <2>3 DEF Candidate
  <2> QED BY <2>4, <2>5
<1> QED BY <1>1, <1>2

(* An occurrence is a place where the whole query ends.                    *)
LEMMA OccursWhereEnds ==
  ASSUME NEW S, NEW q \in Seq(S), NEW t \in Seq(S), NEW o \in Nat, o + Len(q) <= Len(t)
  PROVE  SubSeq(t, o + 1, o + Len(q)) = q <=> Ends(q, Len(q), t, o + Len(q))
<1> DEFINE L == Len(q)
           u == SubSeq(t, o + 1, o + L)
<1>1. L \in Nat /\ Len(t) \in Nat OBVIOUS
<1>2. u \in Seq(S) /\ Len(u) = L /\ \A i \in 1 .. L : u[i] = t[o + i]
  <2>1. o + 1 \in 1 .. Len(t) + 1 /\ o + L \in o + 1 - 1 .. Len(t) BY <1>1
  <2>2. u = [i \in 1 .. L |-> t[o + i]]
    <3>1. (o + L) - (o + 1) + 1 = L BY <1>1
    <3> QED BY <3>1, <1>1
  <2>3. \A i \in 1 .. L : t[o + i] \in S BY <1>1
  <2> HIDE DEF u
  <2> QED BY <2>2, <2>3, <1>1, IsASeq
<1>3. Ends(q, L, t, o + L) <=> \A i \in 1 .. L : q[i] = t[o + i]
  <2>1. \A i \in 1 .. L : (o + L) - L + i = o + i BY <1>1
  <2> QED BY <1>1, <2>1 DEF Ends
<1> HIDE DEF u
<1>4. ASSUME \A i \in 1 .. L : q[i] = t[o + i] PROVE u = q
  BY <1>2, <1>4, SeqEqual
<1> QED BY <1>2, <1>3, <1>4 DEF u

(* One more letter adds the occurrence that ends with it, if there is one. *)
LEMMA HitsGrow ==
  ASSUME NEW r, NEW q, NEW n \in Nat, Len(q) \in Nat, Len(r.text) \in Nat, n < Len(r.text)
  PROVE  /\ Ends(q, Len(q), r.text, n + 1) =>
              Hits(r, q, n + 1) = Hits(r, q, n) \cup {Place(r, n + 1 - Len(q))}
         /\ ~Ends(q, Len(q), r.text, n + 1) => Hits(r, q, n + 1) = Hits(r, q, n)
<1> DEFINE L == Len(q)
           H(m) == {o \in 0 .. Len(r.text) : o + L <= m /\ Ends(q, L, r.text, o + L)}
<1>1. /\ Hits(r, q, n) = {Place(r, o) : o \in H(n)}
      /\ Hits(r, q, n + 1) = {Place(r, o) : o \in H(n + 1)}
  BY DEF Hits
<1>2. ASSUME Ends(q, L, r.text, n + 1) PROVE H(n + 1) = H(n) \cup {n + 1 - L}
  <2>1. L <= n + 1 /\ n + 1 - L \in 0 .. Len(r.text) /\ (n + 1 - L) + L = n + 1 BY <1>2 DEF Ends
  <2>2. ASSUME NEW o \in H(n + 1) PROVE o \in H(n) \cup {n + 1 - L} BY <2>2
  <2>3. n + 1 - L \in H(n + 1) BY <2>1, <1>2
  <2>4. H(n) \subseteq H(n + 1) OBVIOUS
  <2> QED BY <2>2, <2>3, <2>4
<1>3. ASSUME ~Ends(q, L, r.text, n + 1) PROVE H(n + 1) = H(n)
  <2>2. ASSUME NEW o \in H(n + 1) PROVE o \in H(n)
    <3>1. o + L # n + 1 BY <1>3, <2>2
    <3> QED BY <2>2, <3>1
  <2>4. H(n) \subseteq H(n + 1) OBVIOUS
  <2> QED BY <2>2, <2>4
<1> HIDE DEF H, L
<1>4. ASSUME Ends(q, L, r.text, n + 1)
      PROVE  Hits(r, q, n + 1) = Hits(r, q, n) \cup {Place(r, n + 1 - L)}
  BY <1>1, <1>2, <1>4, Zenon
<1>5. ASSUME ~Ends(q, L, r.text, n + 1) PROVE Hits(r, q, n + 1) = Hits(r, q, n)
  BY <1>1, <1>3, <1>5
<1> QED BY <1>4, <1>5 DEF L

(* Nothing occurs in less than its length.                                 *)
LEMMA HitsNone ==
  ASSUME NEW r, NEW q, NEW n \in Nat, Len(q) \in Nat, n < Len(q)
  PROVE  Hits(r, q, n) = {}
<1>1. {o \in 0 .. Len(r.text) : o + Len(q) <= n /\ Ends(q, Len(q), r.text, o + Len(q))} = {}
  OBVIOUS
<1> QED BY <1>1 DEF Hits

(* At the end of a file all occurrences have been passed.                  *)
LEMMA HitsAll ==
  ASSUME NEW r, NEW S, NEW q \in Seq(S), r.text \in Seq(S)
  PROVE  Hits(r, q, Len(r.text)) = Find!Occurrences(r, q)
<1> DEFINE T == r.text
           A == {o \in 0 .. Len(T) : o + Len(q) <= Len(T) /\ Ends(q, Len(q), T, o + Len(q))}
           B == {o \in 0 .. Len(T) : o + Len(q) <= Len(T) /\ SubSeq(T, o + 1, o + Len(q)) = q}
<1>1. Find!Occurrences(r, q) = {Place(r, o) : o \in B}
  BY Zenon DEF Find!Occurrences, Place, Find!Cardinality, Cardinality
<1>2. Hits(r, q, Len(r.text)) = {Place(r, o) : o \in A} BY DEF Hits
<1>3. \A o \in 0 .. Len(T) : o + Len(q) <= Len(T) =>
        (SubSeq(T, o + 1, o + Len(q)) = q <=> Ends(q, Len(q), T, o + Len(q)))
  <2> SUFFICES ASSUME NEW o \in 0 .. Len(T), o + Len(q) <= Len(T)
               PROVE  SubSeq(T, o + 1, o + Len(q)) = q <=> Ends(q, Len(q), T, o + Len(q))
    OBVIOUS
  <2>1. o \in Nat /\ T \in Seq(S) OBVIOUS
  <2> HIDE DEF T
  <2> QED BY <2>1, OccursWhereEnds
<1>4. A = B BY <1>3
<1> QED BY <1>1, <1>2, <1>4

(* Where an occurrence is.                                                 *)
LEMMA HitsPlaced ==
  ASSUME NEW r, NEW q, NEW n, NEW x \in Hits(r, q, n)
  PROVE  x.path = r.path /\ x.offset \in Nat /\ x.offset + Len(q) <= n
<1>1. PICK o \in 0 .. Len(r.text) : o + Len(q) <= n /\ x = Place(r, o) BY DEF Hits
<1>2. x.path = r.path /\ x.offset = o BY <1>1 DEF Place
<1>3. o \in Nat OBVIOUS
<1> QED BY <1>1, <1>2, <1>3

(* An occurrence carries the path of its file.                             *)
LEMMA OccursInFile ==
  ASSUME NEW r, NEW q, NEW x \in Find!Occurrences(r, q)
  PROVE  x.path = r.path
  BY DEF Find!Occurrences

(* The counters stay right when the cursor passes a letter.                *)
LEMMA LineCounted ==
  ASSUME NEW t, NEW c \in Nat, NEW l, NEW s \in Nat, Counted(t, c, l, s)
  PROVE  IF t[c + 1] = NL THEN Counted(t, c + 1, l + 1, c + 1) ELSE Counted(t, c + 1, l, s)
<1> DEFINE A == Find!Lines(t, c)
           B == Find!Lines(t, c + 1)
<1>1. A \subseteq 1 .. c /\ IsFiniteSet(A) /\ c + 1 \notin A /\ Cardinality(A) \in Nat
  <2>1. A \subseteq 1 .. c /\ c + 1 \notin A BY DEF Find!Lines
  <2>2. IsFiniteSet(1 .. c) BY FS_Interval
  <2> QED BY <2>1, <2>2, FS_Subset, FS_CardinalityType
<1>2. CASE t[c + 1] = NL
  <2>1. B = A \cup {c + 1} BY <1>2 DEF Find!Lines
  <2>2. Cardinality(B) = Cardinality(A) + 1 BY <1>1, <2>1, FS_AddElement
  <2>3. \A n \in B : n <= c + 1 BY <1>1, <2>1
  <2>4. c + 1 \in B BY <2>1
  <2> HIDE DEF A, B
  <2>5. l = 1 + Cardinality(A) BY DEF Counted, A
  <2>6. l + 1 = 1 + Cardinality(B) BY <2>2, <2>5, <1>1
  <2> QED BY <1>2, <2>3, <2>4, <2>6 DEF Counted, B
<1>3. CASE t[c + 1] # NL
  <2>1. B = A BY <1>3 DEF Find!Lines
  <2> QED BY <1>3, <2>1 DEF Counted
<1> QED BY <1>2, <1>3

(* At an occurrence the counters give its line and column.                 *)
LEMMA PlaceCounted ==
  ASSUME NEW t, NEW o \in Nat, NEW p, NEW l, NEW s \in Nat, Counted(t, o, l, s)
  PROVE  Place([path |-> p, text |-> t], o)
           = [path |-> p, offset |-> o, line |-> l, column |-> o - s + 1]
<1> DEFINE A == Find!Lines(t, o)
           g == CHOOSE n \in A : \A m \in A : m <= n
<1>1. A \subseteq Nat BY DEF Find!Lines
<1>2. CASE A = {}
  <2>1. s = 0 /\ o + 1 = o - s + 1 BY <1>2 DEF Counted
  <2> QED BY <1>2, <2>1 DEF Counted, Place
<1>3. CASE A # {}
  <2>1. s \in A /\ \A n \in A : n <= s BY <1>3 DEF Counted
  <2>2. g \in A /\ \A m \in A : m <= g BY <2>1
  <2>3. g \in Nat /\ g <= s /\ s <= g BY <2>1, <2>2, <1>1
  <2>4. g = s BY <2>3
  <2> HIDE DEF g
  <2>5. o + 1 - g = o - s + 1 BY <2>4
  <2> QED BY <1>3, <2>5 DEF Counted, Place, g
<1> QED BY <1>2, <1>3

(* The counters of operations are left alone.                              *)
Keeps(j, k) == k.done = j.done /\ k.ops = j.ops /\ k.nextCheck = j.nextCheck

(* The fields of a search.                                                 *)
LEMMA JobTyped ==
  ASSUME SearchConstants, NEW j \in Job
  PROVE  /\ j.query \in Seq(Letters) /\ Len(j.query) \in Nat /\ Len(j.query) > 0
         /\ j.prefix \in Seq(Nat) /\ j.index \in Nat /\ j.matched \in Nat /\ j.visited \in Nat
         /\ j.todo \subseteq Found /\ j.path \in Nat /\ j.text \in Seq(Letters)
         /\ Len(j.text) \in Nat
         /\ j.offset \in Nat /\ j.cursor \in Nat /\ j.line \in Nat /\ j.lineStart \in Nat
         /\ j.out \in Seq(Matches) /\ Len(j.out) \in Nat /\ j.ops \in Nat /\ j.nextCheck \in Nat
         /\ j.scanned \in Nat /\ j.current \in Nat /\ j.read \in Seq(Reads)
         /\ Len(j.read) \in Nat
         /\ j.done \in Nat /\ MaxScanBytes \in Nat
<1>1. j.query \in Queries /\ MaxScanBytes \in Nat BY DEF Job, SearchConstants
<1>2. j.query \in Seq(Letters) /\ j.query # << >> BY <1>1 DEF SearchConstants
<1>3. Len(j.query) \in Nat /\ Len(j.query) > 0 BY <1>2, EmptySeq
<1>4. /\ j.prefix \in Seq(Nat) /\ j.index \in Nat /\ j.matched \in Nat /\ j.visited \in Nat
      /\ j.todo \subseteq Found /\ j.path \in Nat /\ j.text \in Seq(Letters)
      /\ j.offset \in Nat /\ j.cursor \in Nat /\ j.line \in Nat /\ j.lineStart \in Nat
      /\ j.out \in Seq(Matches) /\ j.ops \in Nat /\ j.nextCheck \in Nat
      /\ j.scanned \in Nat /\ j.current \in Nat /\ j.read \in Seq(Reads) /\ j.done \in Nat
  BY DEF Job
<1>5. Len(j.text) \in Nat /\ Len(j.out) \in Nat /\ Len(j.read) \in Nat BY <1>4, LenProperties
<1> QED BY <1>1, <1>2, <1>3, <1>4, <1>5

(* Searches that differ only in their place and their counters.            *)
Alike(j, k) ==
  /\ k.query = j.query /\ k.prefix = j.prefix /\ k.index = j.index /\ k.matched = j.matched
  /\ k.visited = j.visited /\ k.todo = j.todo /\ k.path = j.path /\ k.text = j.text
  /\ k.offset = j.offset /\ k.cursor = j.cursor /\ k.line = j.line /\ k.lineStart = j.lineStart
  /\ k.out = j.out /\ k.scanned = j.scanned /\ k.read = j.read

(* They have the same table, files and matches.                            *)
LEMMA AlikeParts ==
  ASSUME NEW j, NEW k, Alike(j, k)
  PROVE  /\ Table(k) <=> Table(j)
         /\ Walked(k) <=> Walked(j)
         /\ Queued(k) <=> Queued(j)
         /\ InOrder(k) <=> InOrder(j)
         /\ Out(k) = Out(j)
         /\ Earlier(k) = Earlier(j)
         /\ \A n : Collected(k, n) = Collected(j, n)
         /\ \A n : InFile(k, n) <=> InFile(j, n)
<1>1. Table(k) <=> Table(j) BY Zenon DEF Table, Alike
<1>2. Walked(k) <=> Walked(j) BY Zenon DEF Walked, Alike, Distinct
<1>3. Queued(k) <=> Queued(j) BY DEF Queued, Alike, Distinct
<1>4. InOrder(k) <=> InOrder(j) BY Zenon DEF InOrder, Alike
<1>5. Out(k) = Out(j) BY Zenon DEF Out, Alike
<1>6. Earlier(k) = Earlier(j) BY Zenon DEF Earlier, Alike
<1>7. \A n : Collected(k, n) = Collected(j, n) BY Zenon DEF Collected, Alike
<1>8. Current(k) = Current(j) BY Zenon DEF Current, Alike
<1>9. \A n : InFile(k, n) <=> InFile(j, n)
  BY <1>3, <1>4, <1>5, <1>7, <1>8, Zenon DEF InFile, Alike
<1> QED BY <1>1, <1>2, <1>3, <1>4, <1>5, <1>6, <1>7, <1>9

(* They can afford the same.                                               *)
LEMMA AlikeAffordable ==
  ASSUME NEW j, NEW k, Alike(j, k), k.done = j.done, NEW w
  PROVE  /\ Affordable(k, w) <=> Affordable(j, w)
         /\ \A d : Building(k, d) <=> Building(j, d)
<1>1. \A d : Building(k, d) <=> Building(j, d) BY Zenon DEF Building, Alike
<1>2. \A d : AtByte(k, d) <=> AtByte(j, d) BY AlikeParts, Zenon DEF AtByte, Alike
<1>3. \A d : AtMatch(k, d) <=> AtMatch(j, d) BY AlikeParts, Zenon DEF AtMatch, Alike
<1>4. Walked(k) <=> Walked(j) BY AlikeParts
<1> QED BY <1>1, <1>2, <1>3, <1>4, Zenon DEF Affordable, Alike

(* A search that has not ended, with no operation outstanding.             *)
Running(j) == j \in Job /\ Table(j) /\ j.ops = j.done /\ j.result \notin {"own", "ok"}

(* A failure keeps the invariant.                                          *)
LEMMA FailOK ==
  ASSUME NEW j \in Job, Table(j), j.done <= j.ops, NEW w \in Results \ {"own", "ok"}
  PROVE  JobOK(Find!Fail(j, w)) /\ Keeps(j, Find!Fail(j, w))
<1>1. PICK k : k = Find!Fail(j, w) OBVIOUS
<1>2. k \in Job /\ k.pc = "end" /\ k.result = w /\ Alike(j, k) /\ Keeps(j, k)
  BY <1>1 DEF Find!Fail, Keeps, Job, Places, Alike
<1>3. Table(k) BY <1>2, AlikeParts
<1> QED BY <1>1, <1>2, <1>3 DEF JobOK, Keeps

(* Asking for an operation keeps it.                                       *)
LEMMA PayOK ==
  ASSUME SearchConstants, NEW j, Running(j), NEW w \in Uses, Affordable(j, w)
  PROVE  JobOK(Find!Pay(j, w)) /\ Keeps(j, Find!Pay(j, w))
<1>1. PICK k : k = Find!Pay(j, w) OBVIOUS
<1>2. /\ k \in Job /\ k.pc = "step" /\ k.at = w /\ Alike(j, k) /\ Keeps(j, k)
      /\ k.result = j.result
  BY <1>1 DEF Find!Pay, Running, Job, Places, Keeps, Alike
<1>3. Affordable(k, w) BY <1>2, AlikeAffordable DEF Keeps
<1>4. Table(k) BY <1>2, AlikeParts DEF Running
<1>5. k.done <= k.ops /\ k.ops = k.done BY <1>2, JobTyped DEF Running, Keeps
<1> QED BY <1>1, <1>2, <1>3, <1>4, <1>5 DEF JobOK, Running

(* So does the test of the loop that builds the table.                     *)
LEMMA BuildOrWalkOK ==
  ASSUME SearchConstants, NEW j, Running(j), Building(j, 0), Walked(j)
  PROVE  JobOK(Find!BuildOrWalk(j)) /\ Keeps(j, Find!BuildOrWalk(j))
<1>1. j \in Job BY DEF Running
<1>2. CASE j.index < Len(j.query)
  <2>1. Affordable(j, "prefix") BY <1>2 DEF Affordable
  <2> QED BY <2>1, <1>2, PayOK DEF Find!BuildOrWalk, Uses
<1>3. CASE ~ (j.index < Len(j.query))
  <2>1. PICK k : k = Find!BuildOrWalk(j) OBVIOUS
  <2>2. k \in Job /\ k.pc = "walk" /\ Alike(j, k) /\ Keeps(j, k) /\ k.result = j.result
    BY <2>1, <1>1, <1>3 DEF Find!BuildOrWalk, Job, Places, Keeps, Alike
  <2>3. Table(k) /\ Walked(k) BY <2>2, AlikeParts DEF Running
  <2>4. Between(k)
    <3>1. PICK L, i, m, d : L = Len(j.query) /\ i = j.index /\ m = j.matched /\ d = j.done
      OBVIOUS
    <3>2. /\ L \in Nat /\ i \in Nat /\ m \in Nat /\ d \in Nat /\ MaxScanBytes \in Nat
          /\ j.scanned = 0
          /\ m < i /\ d + m + 2 <= 2 * i + 0 /\ i <= L /\ ~ (i < L)
      BY <3>1, <1>1, <1>3, JobTyped DEF Running, Table, TableOf, Building
    <3>3. i = L /\ d <= 2 * L + 3 * 0 /\ 0 <= MaxScanBytes BY <3>2
    <3> QED BY <2>2, <3>1, <3>2, <3>3 DEF Between, Keeps, Alike
  <2>5. k.done <= k.ops /\ k.ops = k.done BY <2>2, JobTyped DEF Running, Keeps
  <2> QED BY <2>1, <2>2, <2>3, <2>4, <2>5 DEF JobOK, Running
<1> QED BY <1>2, <1>3

(* A search with another table.                                            *)
Rebuilt(j, m, p, i) == [j EXCEPT !.matched = m, !.prefix = p, !.index = i]

(* What that changes.                                                      *)
LEMMA RebuiltFields ==
  ASSUME NEW j, Running(j), NEW m \in Nat, NEW p \in Seq(Nat), NEW i \in Nat, NEW k,
         k = Rebuilt(j, m, p, i)
  PROVE  /\ k \in Job /\ k.matched = m /\ k.prefix = p /\ k.index = i
         /\ k.query = j.query /\ k.scanned = j.scanned /\ k.result = j.result /\ k.ops = k.done
         /\ Keeps(j, k) /\ (Walked(j) => Walked(k))
<1>1. j \in Job BY DEF Running
<1>2. /\ k \in Job /\ k.matched = m /\ k.prefix = p /\ k.index = i
      /\ k.query = j.query /\ k.scanned = j.scanned /\ k.result = j.result
      /\ k.visited = j.visited /\ k.read = j.read /\ k.out = j.out /\ k.todo = j.todo
      /\ Keeps(j, k)
  BY <1>1 DEF Rebuilt, Job, Keeps
<1>3. Walked(j) => Walked(k) BY <1>2, Zenon DEF Walked, Distinct
<1> QED BY <1>2, <1>3 DEF Running, Keeps

(* An equal letter extends the border of the prefix.                       *)
LEMMA TableGrows ==
  ASSUME NEW q, Len(q) \in Nat, NEW p \in Seq(Nat), NEW i \in Nat, NEW m \in Nat, m < i,
         i < Len(q),
         TableOf(q, p, i), Candidate(q, m, q, i, i - 1), q[m + 1] = q[i + 1],
         NEW r, r = [p EXCEPT ![i + 1] = m + 1]
  PROVE  r \in Seq(Nat) /\ TableOf(q, r, i + 1) /\ Candidate(q, m + 1, q, i + 1, i)
<1> DEFINE L == Len(q)
<1>1. /\ L \in Nat /\ Len(p) = L /\ 1 <= i
      /\ \A n \in 1 .. i : Longest(q, n, p[n])
      /\ \A n \in i + 1 .. L : p[n] = 0
  BY DEF TableOf
<1> HIDE DEF L
<1>2. r \in Seq(Nat) /\ Len(r) = L /\ \A n \in 1 .. L : r[n] = IF n = i + 1 THEN m + 1 ELSE p[n]
  <2>1. i + 1 \in 1 .. Len(p) /\ m + 1 \in Nat BY <1>1 DEF L
  <2>2. \A n \in 1 .. Len(p) : r[n] = IF n = i + 1 THEN m + 1 ELSE p[n] BY <2>1, SMTT(30)
  <2>3. r \in Seq(Nat) /\ Len(r) = Len(p) BY <2>1, ExceptSeq
  <2> QED BY <1>1, <2>2, <2>3
<1>3. i - 1 \in Nat /\ (i - 1) + 1 = i BY <1>1
<1>4. PICK B \in Nat : B = i - 1 BY <1>3
<1>5. Ends(q, m + 1, q, i + 1) /\ \A b \in m + 2 .. B + 1 : ~Ends(q, b, q, i + 1)
  BY <1>4, GoesOn
<1>6. \A b \in m + 2 .. i : ~Ends(q, b, q, i + 1) BY <1>3, <1>4, <1>5
<1>7. Longest(q, i + 1, m + 1)
  <2>1. m + 1 < i + 1 /\ (i + 1) - 1 = i /\ (m + 1) + 1 = m + 2 OBVIOUS
  <2> QED BY <1>5, <1>6, <2>1 DEF Longest
<1>8. TableOf(q, r, i + 1)
  <2>1. ASSUME NEW n \in 1 .. i + 1 PROVE Longest(q, n, r[n])
    <3>1. CASE n = i + 1 BY <3>1, <1>2, <1>7 DEF L
    <3>2. CASE n # i + 1
      <4>1. n \in 1 .. i /\ n \in 1 .. L BY <3>2 DEF L
      <4> QED BY <4>1, <3>2, <1>1, <1>2
    <3> QED BY <3>1, <3>2
  <2>2. ASSUME NEW n \in (i + 1) + 1 .. L PROVE r[n] = 0
    <3>1. n \in i + 1 .. L /\ n # i + 1 /\ n \in 1 .. L BY <1>1
    <3> QED BY <3>1, <1>1, <1>2
  <2> QED BY <1>1, <1>2, <2>1, <2>2 DEF TableOf, L
<1>9. Candidate(q, m + 1, q, i + 1, i)
  <2>1. (m + 1) + 1 = m + 2 OBVIOUS
  <2> QED BY <1>5, <1>6, <2>1 DEF Candidate
<1> QED BY <1>2, <1>8, <1>9

(* An entry of the table is a shorter prefix.                              *)
LEMMA TableFallsBack ==
  ASSUME NEW q, Len(q) \in Nat, NEW p \in Seq(Nat), NEW i \in Nat, NEW m \in Nat, m <= i,
         i <= Len(q), m > 0,
         TableOf(q, p, i)
  PROVE  p[m] \in Nat /\ p[m] < m /\ Longest(q, m, p[m])
<1>1. m \in 1 .. i /\ m \in 1 .. Len(p) BY DEF TableOf
<1> QED BY <1>1, ElementOfSeq DEF TableOf, Longest

(* A letter no border can be extended with has none.                       *)
LEMMA TableStays ==
  ASSUME NEW q, Len(q) \in Nat, NEW p \in Seq(Nat), NEW i \in Nat, i < Len(q),
         TableOf(q, p, i), Candidate(q, 0, q, i, i - 1), q[1] # q[i + 1]
  PROVE  TableOf(q, p, i + 1) /\ Candidate(q, 0, q, i + 1, i)
<1>1. 1 <= i BY DEF TableOf
<1>3. i - 1 \in Nat /\ (i - 1) + 1 = i BY <1>1
<1>4. PICK B \in Nat : B = i - 1 BY <1>3
<1>5. Ends(q, 0, q, i + 1) /\ \A b \in 1 .. B + 1 : ~Ends(q, b, q, i + 1)
  BY <1>4, GoesNowhere
<1>6. \A b \in 1 .. i : ~Ends(q, b, q, i + 1) BY <1>3, <1>4, <1>5
<1>7. Longest(q, i + 1, 0)
  <2>1. 0 < i + 1 /\ (i + 1) - 1 = i /\ 0 + 1 = 1 OBVIOUS
  <2> QED BY <1>5, <1>6, <2>1 DEF Longest
<1>8. TableOf(q, p, i + 1)
  <2>1. ASSUME NEW n \in 1 .. i + 1 PROVE Longest(q, n, p[n])
    <3>1. CASE n = i + 1
      <4>1. p[n] = 0 BY <3>1 DEF TableOf
      <4> QED BY <4>1, <3>1, <1>7
    <3>2. CASE n # i + 1
      <4>1. n \in 1 .. i BY <3>2
      <4> QED BY <4>1 DEF TableOf
    <3> QED BY <3>1, <3>2
  <2>2. ASSUME NEW n \in (i + 1) + 1 .. Len(q) PROVE p[n] = 0
    <3>1. n \in i + 1 .. Len(q) OBVIOUS
    <3> QED BY <3>1 DEF TableOf
  <2> QED BY <2>1, <2>2 DEF TableOf
<1>9. Candidate(q, 0, q, i + 1, i)
  <2>1. 0 + 1 = 1 OBVIOUS
  <2> QED BY <1>5, <1>6, <2>1 DEF Candidate
<1> QED BY <1>8, <1>9

(* One round of LiteralMatcher::new.                                       *)
LEMMA BuildPrefixOK ==
  ASSUME SearchConstants, NEW j, Running(j), Building(j, 1), j.index < Len(j.query), Walked(j)
  PROVE  JobOK(Find!BuildPrefix(j)) /\ Keeps(j, Find!BuildPrefix(j))
<1>1. j \in Job BY DEF Running
<1>2. PICK q, m, i, p, d :
        /\ q = j.query /\ m = j.matched /\ i = j.index /\ p = j.prefix /\ d = j.done
  OBVIOUS
<1>3. /\ Len(q) \in Nat /\ p \in Seq(Nat) /\ i \in Nat /\ m \in Nat /\ d \in Nat
      /\ m < i /\ i < Len(q) /\ j.scanned = 0
      /\ d + m + 2 <= 2 * i + 1 /\ Candidate(q, m, q, i, i - 1)
      /\ TableOf(q, p, i)
  BY <1>1, <1>2, JobTyped DEF Running, Table, Building
<1>4. ASSUME NEW a \in Nat, NEW r \in Seq(Nat), NEW b \in Nat, NEW k, k = Rebuilt(j, a, r, b),
             a < b, b <= Len(q), d + a + 2 <= 2 * b, TableOf(q, r, b),
             b < Len(q) => Candidate(q, a, q, b, b - 1),
             Find!BuildPrefix(j) = Find!BuildOrWalk(k)
      PROVE  JobOK(Find!BuildPrefix(j)) /\ Keeps(j, Find!BuildPrefix(j))
  <2>1. /\ k \in Job /\ k.matched = a /\ k.prefix = r /\ k.index = b
        /\ k.query = q /\ k.scanned = 0 /\ k.result = j.result /\ k.ops = k.done /\ k.done = d
        /\ Keeps(j, k) /\ Walked(k)
    <3>1. /\ k \in Job /\ k.matched = a /\ k.prefix = r /\ k.index = b
          /\ k.query = j.query /\ k.scanned = j.scanned /\ k.result = j.result /\ k.ops = k.done
          /\ Keeps(j, k) /\ (Walked(j) => Walked(k))
      BY <1>4, RebuiltFields
    <3> QED BY <1>2, <1>3, <3>1 DEF Keeps
  <2>2. Table(k) BY <1>4, <2>1 DEF Table
  <2>3. Running(k) BY <2>1, <2>2 DEF Running
  <2>4. Building(k, 0)
    <3>1. 2 * b + 0 = 2 * b BY <1>4
    <3> QED BY <1>4, <2>1, <3>1 DEF Building
  <2>5. JobOK(Find!BuildOrWalk(k)) /\ Keeps(k, Find!BuildOrWalk(k))
    BY <2>1, <2>3, <2>4, BuildOrWalkOK
  <2> QED BY <1>4, <2>1, <2>5 DEF Keeps
<1>5. CASE q[i + 1] = q[m + 1]
  <2>1. PICK r : r = [p EXCEPT ![i + 1] = m + 1] OBVIOUS
  <2>2. PICK k : k = Rebuilt(j, m + 1, r, i + 1) OBVIOUS
  <2>3. [j EXCEPT !.matched = @ + 1, !.prefix[j.index + 1] = j.matched + 1, !.index = @ + 1] = k
    BY <1>1, <1>2, <2>1, <2>2 DEF Job, Rebuilt
  <2>4. Find!BuildPrefix(j) = Find!BuildOrWalk(k) BY <1>2, <1>5, <2>3 DEF Find!BuildPrefix
  <2>5. r \in Seq(Nat) /\ TableOf(q, r, i + 1) /\ Candidate(q, m + 1, q, i + 1, i)
    BY <1>3, <1>5, <2>1, TableGrows
  <2>6. /\ m + 1 \in Nat /\ i + 1 \in Nat /\ (i + 1) - 1 = i /\ m + 1 < i + 1 /\ i + 1 <= Len(q)
        /\ d + (m + 1) + 2 <= 2 * (i + 1)
    BY <1>3
  <2> QED BY <1>4, <2>2, <2>4, <2>5, <2>6
<1>6. CASE q[i + 1] # q[m + 1] /\ m > 0
  <2>1. p[m] \in Nat /\ p[m] < m /\ Longest(q, m, p[m])
    <3>1. m <= i /\ i <= Len(q) BY <1>3
    <3> QED BY <1>3, <1>6, <3>1, TableFallsBack
  <2>2. PICK c \in Nat : c = p[m] BY <2>1
  <2>3. PICK k : k = Rebuilt(j, c, p, i) OBVIOUS
  <2>4. [j EXCEPT !.matched = j.prefix[@]] = k BY <1>1, <1>2, <2>2, <2>3 DEF Job, Rebuilt
  <2>5. Find!BuildPrefix(j) = Find!BuildOrWalk(k) BY <1>2, <1>6, <2>4 DEF Find!BuildPrefix
  <2>6. PICK B \in Nat : B = i - 1 BY <1>3
  <2>7. Candidate(q, c, q, i, B)
    BY <1>3, <1>6, <2>1, <2>2, <2>6, FallBack
  <2>8. c < i /\ i <= Len(q) /\ d + c + 2 <= 2 * i BY <1>3, <2>1, <2>2, SMTT(30)
  <2> QED BY <1>3, <1>4, <2>3, <2>5, <2>6, <2>7, <2>8
<1>7. CASE q[i + 1] # q[m + 1] /\ ~ (m > 0)
  <2>1. m = 0 BY <1>3, <1>7
  <2>2. PICK k : k = Rebuilt(j, 0, p, i + 1) OBVIOUS
  <2>3. [j EXCEPT !.index = @ + 1] = k BY <1>1, <1>2, <2>1, <2>2 DEF Job, Rebuilt
  <2>4. Find!BuildPrefix(j) = Find!BuildOrWalk(k) BY <1>2, <1>7, <2>3 DEF Find!BuildPrefix
  <2>5. TableOf(q, p, i + 1) /\ Candidate(q, 0, q, i + 1, i)
    <3>1. q[1] # q[i + 1] BY <1>7, <2>1
    <3> QED BY <1>3, <2>1, <3>1, TableStays
  <2>6. /\ i + 1 \in Nat /\ (i + 1) - 1 = i /\ 0 < i + 1 /\ i + 1 <= Len(q)
        /\ d + 0 + 2 <= 2 * (i + 1)
    BY <1>3, <2>1
  <2> QED BY <1>3, <1>4, <2>2, <2>4, <2>5, <2>6
<1> QED BY <1>5, <1>6, <1>7

(* A search at another byte of the file.                                   *)
Moved(j, o, m, c, l, s, out) ==
  [j EXCEPT !.offset = o, !.matched = m, !.cursor = c, !.line = l, !.lineStart = s, !.out = out]

(* The same, with the types.                                               *)
MovedTo(j, k, o, m, c, l, s, out) ==
  /\ Running(j) /\ o \in Nat /\ m \in Nat /\ c \in Nat /\ l \in Nat /\ s \in Nat
  /\ out \in Seq(Matches) /\ k = Moved(j, o, m, c, l, s, out)

(* What that changes.                                                      *)
LEMMA MovedFields ==
  ASSUME SearchConstants, NEW j, NEW o, NEW m, NEW c, NEW l, NEW s, NEW out, NEW k,
         MovedTo(j, k, o, m, c, l, s, out)
  PROVE  /\ Running(k) /\ Keeps(j, k) /\ k.done = j.done
         /\ k.offset = o /\ k.matched = m /\ k.cursor = c /\ k.line = l /\ k.lineStart = s
         /\ k.out = out
         /\ k.query = j.query /\ k.prefix = j.prefix /\ k.text = j.text /\ k.index = j.index
         /\ k.scanned = j.scanned /\ k.read = j.read /\ k.path = j.path
         /\ Earlier(k) = Earlier(j) /\ Current(k) = Current(j)
         /\ (Queued(j) => Queued(k))
         /\ \A n : Collected(k, n) = Collected(j, n)
<1> USE DEF MovedTo
<1>1. j \in Job BY DEF Running
<1>2. /\ k \in Job /\ Keeps(j, k) /\ k.offset = o /\ k.matched = m /\ k.cursor = c
      /\ k.line = l /\ k.lineStart = s
      /\ k.out = out /\ k.query = j.query /\ k.prefix = j.prefix /\ k.text = j.text
      /\ k.index = j.index
      /\ k.scanned = j.scanned /\ k.read = j.read /\ k.path = j.path /\ k.todo = j.todo
      /\ k.result = j.result
  BY <1>1 DEF Moved, Job, Keeps
<1>3. Table(k) BY <1>2 DEF Running, Table
<1>4. Running(k) /\ k.done = j.done BY <1>2, <1>3 DEF Running, Keeps
<1>5. Earlier(k) = Earlier(j) BY <1>2, Zenon DEF Earlier
<1>6. Current(k) = Current(j) BY <1>2, Zenon DEF Current
<1>7. Queued(j) => Queued(k) BY <1>2 DEF Queued, Distinct
<1>8. \A n : Collected(k, n) = Collected(j, n) BY <1>2, Zenon DEF Collected
<1> QED BY <1>2, <1>4, <1>5, <1>6, <1>7, <1>8

(* It is still in the file, with the matches up to there.                  *)
LEMMA MovedInFile ==
  ASSUME SearchConstants, NEW j, NEW o, NEW m, NEW c, NEW l, NEW s, NEW out, NEW k,
         MovedTo(j, k, o, m, c, l, s, out), NEW a, NEW b, InFile(j, a),
         o < Len(j.text), Counted(j.text, c, l, s),
         \/ out = j.out /\ Hits(Current(j), j.query, a) = Hits(Current(j), j.query, b)
         \/ InOrder(k) /\ Out(k) = Collected(j, Len(j.read) - 1) \cup Hits(Current(j), j.query, b)
  PROVE  InFile(k, b)
<1>1. /\ k.offset = o /\ k.cursor = c /\ k.line = l /\ k.lineStart = s /\ k.out = out
      /\ k.query = j.query /\ k.text = j.text /\ k.index = j.index
      /\ k.scanned = j.scanned /\ k.read = j.read
      /\ Current(k) = Current(j) /\ (Queued(j) => Queued(k))
      /\ \A n : Collected(k, n) = Collected(j, n)
  BY MovedFields
<1>2. InOrder(k) /\ Out(k) = Collected(j, Len(j.read) - 1) \cup Hits(Current(j), j.query, b)
  <2>1. CASE out = j.out /\ Hits(Current(j), j.query, a) = Hits(Current(j), j.query, b)
    <3>1. InOrder(k) <=> InOrder(j) BY <1>1, <2>1, Zenon DEF InOrder
    <3>2. Out(k) = Out(j) BY <1>1, <2>1, Zenon DEF Out
    <3> QED BY <2>1, <3>1, <3>2 DEF InFile
  <2> QED BY <2>1
<1> QED BY <1>1, <1>2 DEF InFile

(* The next byte, or the end of the file.                                  *)
LEMMA NextByteOK ==
  ASSUME SearchConstants, NEW j, Running(j), Passed(j)
  PROVE  JobOK(Find!NextByte(j)) /\ Keeps(j, Find!NextByte(j))
<1>1. j \in Job BY DEF Running
<1>2. PICK o, L, T, m, c, S :
        /\ o = j.offset /\ L = Len(j.query) /\ T = Len(j.text) /\ m = j.matched /\ c = j.cursor
        /\ S = j.scanned
  OBVIOUS
<1>3. /\ o \in Nat /\ L \in Nat /\ L > 0 /\ T \in Nat /\ m \in Nat /\ c \in Nat /\ S \in Nat
      /\ j.done \in Nat
      /\ j.line \in Nat /\ j.lineStart \in Nat /\ j.out \in Seq(Matches) /\ o < T /\ m < L
      /\ (c = 0 \/ c + L <= o + 1) /\ T <= S
      /\ j.done <= Earlier(j) + 2 * o + 2 - m + c
      /\ Earlier(j) = 2 * L + 3 * (S - T)
      /\ Counted(j.text, c, j.line, j.lineStart)
  BY <1>1, <1>2, JobTyped DEF Passed, InFile, Earlier
<1>4. CASE o + 1 < T
  <2>1. PICK k : k = Moved(j, o + 1, m, c, j.line, j.lineStart, j.out) OBVIOUS
  <2>2. [j EXCEPT !.offset = @ + 1] = k BY <1>1, <1>2, <2>1 DEF Job, Moved
  <2>3. MovedTo(j, k, o + 1, m, c, j.line, j.lineStart, j.out) BY <1>3, <2>1 DEF MovedTo
  <2>4. /\ Running(k) /\ Keeps(j, k) /\ k.offset = o + 1 /\ k.matched = m /\ k.cursor = c
        /\ k.done = j.done
        /\ k.query = j.query /\ k.text = j.text /\ Earlier(k) = Earlier(j)
    BY <2>3, MovedFields
  <2>5. InFile(k, o + 1)
    BY <1>2, <1>3, <1>4, <2>3, MovedInFile DEF Passed
  <2>6. Candidate(k.query, m, k.text, o + 1, L - 1)
    BY <1>2, <2>4 DEF Passed, Candidate
  <2>7. AtByte(k, 0)
    <3>1. PICK e, d : e = Earlier(j) /\ d = j.done OBVIOUS
    <3>2. e \in Int /\ d \in Nat BY <1>3, <3>1
    <3>3. d <= e + 2 * (o + 1) + 0 - m + c /\ (c = 0 \/ c + L <= o + 1) BY <1>3, <3>1, <3>2
    <3> QED BY <1>2, <1>3, <2>4, <2>5, <2>6, <3>1, <3>3 DEF AtByte
  <2>8. Find!NextByte(j) = Find!Pay(k, "byte") BY <1>2, <1>4, <2>2 DEF Find!NextByte
  <2>9. JobOK(Find!Pay(k, "byte")) /\ Keeps(k, Find!Pay(k, "byte"))
    BY <2>4, <2>7, PayOK DEF Affordable, Uses
  <2> QED BY <2>4, <2>8, <2>9 DEF Keeps
<1>5. CASE ~ (o + 1 < T)
  <2>1. o + 1 = T BY <1>3, <1>5
  <2>2. PICK k : k = [j EXCEPT !.pc = "file", !.path = 0, !.text = << >>] OBVIOUS
  <2>3. Find!NextByte(j) = k BY <1>2, <1>5, <2>2 DEF Find!NextByte
  <2>4. << >> \in Seq(Letters) BY EmptySeq
  <2>5. /\ k \in Job /\ k.pc = "file" /\ k.query = j.query /\ k.prefix = j.prefix
        /\ k.index = j.index
        /\ k.scanned = j.scanned /\ k.read = j.read /\ k.out = j.out /\ k.todo = j.todo
        /\ k.result = j.result /\ Keeps(j, k)
    BY <1>1, <2>2, <2>4 DEF Job, Places, Keeps
  <2>6. Table(k) BY <2>5 DEF Running, Table
  <2>7. Between(k)
    <3>1. PICK d \in Nat : d = j.done BY <1>3
    <3>2. d <= 2 * L + 3 * (S - T) + 2 * o + 2 - m + c BY <1>3, <3>1
    <3>3. c <= T BY <1>3, <2>1
    <3>4. d <= 2 * L + 3 * S BY <1>3, <2>1, <3>2, <3>3
    <3> QED BY <1>2, <2>5, <3>1, <3>4 DEF Between, Passed, InFile, Keeps
  <2>8. Queued(k) BY <2>5 DEF Passed, InFile, Queued, Distinct
  <2>9. InOrder(k) BY <2>5, Zenon DEF Passed, InFile, InOrder
  <2>10. Out(k) = Collected(k, Len(k.read))
    <3>1. PICK n \in Nat : n = Len(j.read) BY <1>1, JobTyped
    <3>2. /\ n > 0 /\ j.read[n] = Current(j)
          /\ Out(j) = Collected(j, n - 1) \cup Hits(Current(j), j.query, T)
      BY <3>1, <2>1, <1>2 DEF Passed, InFile
    <3>3. Hits(Current(j), j.query, T) = Find!Occurrences(j.read[n], j.query)
      <4>1. Current(j).text = j.text BY DEF Current
      <4>2. j.query \in Seq(Letters) /\ Current(j).text \in Seq(Letters) BY <1>1, <4>1, JobTyped
      <4> QED BY <1>2, <3>2, <4>1, <4>2, HitsAll
    <3>4. Collected(j, n) = Collected(j, n - 1) \cup Find!Occurrences(j.read[n], j.query)
      <4>1. 1 .. n = (1 .. n - 1) \cup {n} BY <3>2
      <4> QED BY <4>1 DEF Collected
    <3>5. Collected(k, n) = Collected(j, n) BY <2>5, Zenon DEF Collected
    <3>6. Out(k) = Out(j) BY <2>5, Zenon DEF Out
    <3> QED BY <2>5, <3>1, <3>2, <3>3, <3>4, <3>5, <3>6
  <2>11. k.done <= k.ops /\ k.ops = k.done BY <1>3, <2>5 DEF Running, Keeps
  <2>12. JobOK(k) BY <2>5, <2>6, <2>7, <2>8, <2>9, <2>10, <2>11 DEF JobOK, Running
  <2> QED BY <2>3, <2>5, <2>12
<1> QED BY <1>4, <1>5

(* The cost of the earlier files is a number.                              *)
LEMMA EarlierMeasured ==
  ASSUME SearchConstants, NEW j \in Job
  PROVE  Earlier(j) \in Int
<1>1. PICK L \in Nat, S \in Nat, T \in Nat :
        /\ L = Len(j.query) /\ S = j.scanned /\ T = Len(j.text)
  BY JobTyped
<1>2. Earlier(j) = 2 * L + 3 * (S - T) BY <1>1 DEF Earlier
<1> QED BY <1>2

(* A match is reported where it is, and the border kept.                   *)
LEMMA ReportOK ==
  ASSUME SearchConstants, NEW j, Running(j), AtMatch(j, 0), ~ (j.cursor < Find!MatchOffset(j))
  PROVE  JobOK(Find!Report(j)) /\ Keeps(j, Find!Report(j))
<1>1. j \in Job BY DEF Running
<1>2. PICK o, L, m, c, l, s, q, t, p :
        /\ o = j.offset /\ L = Len(j.query) /\ m = j.matched /\ c = j.cursor /\ l = j.line
        /\ s = j.lineStart
        /\ q = j.query /\ t = j.text /\ p = j.prefix
  OBVIOUS
<1>3. /\ o \in Nat /\ L \in Nat /\ L > 0 /\ c \in Nat /\ l \in Nat /\ s \in Nat
      /\ j.done \in Nat /\ m = L
      /\ j.out \in Seq(Matches) /\ o < Len(t) /\ Len(t) \in Nat /\ c + L <= o + 1
      /\ ~ (c < o + 1 - L)
      /\ j.done <= Earlier(j) + 2 * o + 2 + 0 - L + c
      /\ Counted(t, c, l, s) /\ Ends(q, L, t, o + 1) /\ p \in Seq(Nat) /\ TableOf(q, p, L)
      /\ Len(q) = L
      /\ j.path \in Nat /\ s <= c
  BY <1>1, <1>2, JobTyped DEF AtMatch, InFile, Running, Table, Find!MatchOffset, Counted
<1>4. c = o + 1 - L /\ o + 1 - L \in Nat BY <1>3
<1>5. PICK b \in Nat : b = p[L] /\ b < L /\ Longest(q, L, b)
  <2>1. L <= L /\ L <= Len(q) BY <1>3
  <2>2. p[L] \in Nat /\ p[L] < L /\ Longest(q, L, p[L]) BY <1>3, <2>1, TableFallsBack
  <2> QED BY <2>2
<1>6. PICK x : x = [path |-> j.path, offset |-> c, line |-> l, column |-> c - s + 1] OBVIOUS
<1>7. x = Place(Current(j), o + 1 - L)
  <2>1. x = Place([path |-> j.path, text |-> t], c) BY <1>3, <1>6, PlaceCounted
  <2> QED BY <1>2, <1>4, <2>1 DEF Current
<1>8. x \in Matches
  <2>1. c - s + 1 \in Nat BY <1>3
  <2> QED BY <1>3, <1>6, <2>1 DEF Matches
<1>9. PICK out : out = Append(j.out, x) OBVIOUS
<1>10. /\ out \in Seq(Matches) /\ Len(out) = Len(j.out) + 1 /\ Len(j.out) \in Nat
       /\ out[Len(j.out) + 1] = x /\ \A n \in 1 .. Len(j.out) : out[n] = j.out[n]
  BY <1>3, <1>8, <1>9, AppendProperties
<1>11. PICK k : k = Moved(j, o, b, c, l, s, out) OBVIOUS
<1>12. Find!Report(j) = Find!NextByte(k)
  <2>1. [j EXCEPT !.out = Append(@, [path |-> j.path, offset |-> Find!MatchOffset(j),
                       line |-> j.line,
                       column |-> Find!MatchOffset(j) - j.lineStart + 1]),
                !.matched = Find!After(j)] = k
    <3>1. Find!After(j) = b /\ Find!MatchOffset(j) = c
      BY <1>2, <1>3, <1>4, <1>5 DEF Find!After, Find!MatchOffset
    <3>2. [path |-> j.path, offset |-> Find!MatchOffset(j),
                       line |-> j.line, column |-> Find!MatchOffset(j) - j.lineStart + 1] = x
      BY <3>1, <1>2, <1>6
    <3> QED BY <1>1, <1>2, <1>9, <1>11, <3>1, <3>2 DEF Job, Moved
  <2> QED BY <2>1 DEF Find!Report
<1>13. MovedTo(j, k, o, b, c, l, s, out) BY <1>3, <1>10, <1>11 DEF MovedTo
<1>14. /\ Running(k) /\ Keeps(j, k) /\ k.offset = o /\ k.matched = b /\ k.cursor = c
       /\ k.done = j.done
       /\ k.query = q /\ k.text = t /\ Earlier(k) = Earlier(j) /\ k.out = out
  BY <1>2, <1>13, MovedFields
<1>15. Out(j) = Collected(j, Len(j.read) - 1) \cup Hits(Current(j), q, o)
       /\ InOrder(j) /\ Queued(j) /\ Len(j.read) > 0 /\ j.read[Len(j.read)] = Current(j)
  BY <1>2 DEF AtMatch, InFile
<1>16. Out(k) = Collected(j, Len(j.read) - 1) \cup Hits(Current(j), q, o + 1)
  <2>1. Out(k) = Out(j) \cup {x}
    <3>1. 1 .. Len(out) = (1 .. Len(j.out)) \cup {Len(j.out) + 1} BY <1>10
    <3>2. {out[n] : n \in 1 .. Len(j.out)} = Out(j) BY <1>10, Zenon DEF Out
    <3>3. Out(k) = {out[n] : n \in 1 .. Len(out)} BY <1>14, Zenon DEF Out
    <3> QED BY <1>10, <3>1, <3>2, <3>3, SMTT(30)
  <2>2. Hits(Current(j), q, o + 1) = Hits(Current(j), q, o) \cup {x}
    <3>1. Current(j).text = t BY <1>2 DEF Current
    <3> QED BY <1>3, <1>7, <3>1, HitsGrow
  <2> QED BY <1>15, <2>1, <2>2
<1>17. InOrder(k)
  <2>1. ASSUME NEW n \in 1 .. Len(j.out) PROVE Find!Before(j.out[n], x)
    <3>1. j.out[n] \in Out(j) BY DEF Out
    <3>2. x.path = j.path /\ x.offset = c BY <1>6
    <3>3. CASE j.out[n] \in Hits(Current(j), q, o)
      <4>1. /\ j.out[n].path = Current(j).path /\ j.out[n].offset \in Nat
            /\ j.out[n].offset + L <= o
        BY <1>3, <3>3, HitsPlaced, SMTT(30)
      <4>2. Current(j).path = j.path BY DEF Current
      <4>3. j.out[n].offset < c
        <5>1. PICK y \in Nat : y = j.out[n].offset BY <4>1
        <5>2. y + L <= o BY <4>1, <5>1
        <5>3. y < c BY <1>3, <1>4, <5>2
        <5> QED BY <5>1, <5>3
      <4> QED BY <3>2, <4>1, <4>2, <4>3 DEF Find!Before
    <3>4. CASE j.out[n] \in Collected(j, Len(j.read) - 1)
      <4>1. PICK i \in 1 .. Len(j.read) - 1 : j.out[n] \in Find!Occurrences(j.read[i], j.query)
        BY <3>4 DEF Collected
      <4>2. j.out[n].path = j.read[i].path BY <4>1, OccursInFile
      <4>3. Len(j.read) \in Nat BY <1>1, JobTyped
      <4>4. i \in 1 .. Len(j.read) /\ Len(j.read) \in 1 .. Len(j.read) /\ i < Len(j.read)
        BY <4>3, <1>15
      <4>5. j.read[i].path < j.read[Len(j.read)].path BY <4>4, <1>15 DEF Queued
      <4>6. j.read[Len(j.read)].path = j.path BY <1>15 DEF Current
      <4> QED BY <3>2, <4>2, <4>5, <4>6 DEF Find!Before
    <3> QED BY <1>15, <3>1, <3>3, <3>4
  <2>2. ASSUME NEW a \in 1 .. Len(out), NEW n \in 1 .. Len(out), a < n
        PROVE  Find!Before(out[a], out[n])
    <3>1. a \in 1 .. Len(j.out) BY <1>10, <2>2
    <3>2. CASE n = Len(j.out) + 1 BY <1>10, <2>1, <3>1, <3>2
    <3>3. CASE n # Len(j.out) + 1
      <4>1. n \in 1 .. Len(j.out) BY <1>10, <3>3
      <4> QED BY <1>10, <1>15, <2>2, <3>1, <4>1 DEF InOrder
    <3> QED BY <3>2, <3>3
  <2> QED BY <1>14, <2>2 DEF InOrder
<1>18. InFile(k, o + 1)
  BY <1>2, <1>3, <1>13, <1>16, <1>17, MovedInFile DEF AtMatch
<1>19. Ends(q, b, t, o + 1)
  <2>1. b <= L /\ o + 1 \in Nat /\ Ends(q, b, q, L) BY <1>3, <1>5 DEF Longest
  <2> QED BY <1>3, <2>1, EndsTransitive
<1>20. ASSUME NEW a \in b + 1 .. L - 1 PROVE ~Ends(q, a, t, o + 1)
  <2>1. a \in Nat /\ a <= L /\ o + 1 \in Nat BY <1>3, <1>5
  <2>2. ~Ends(q, a, q, L) BY <1>5 DEF Longest
  <2> QED BY <1>3, <2>1, <2>2, EndsTransitive
<1>21. Passed(k)
  <2>1. PICK e, d : e = Earlier(j) /\ d = j.done OBVIOUS
  <2>2. e \in Int /\ d \in Nat BY <1>1, <1>3, <2>1, EarlierMeasured
  <2>3. d <= e + 2 * o + 2 - b + c
    <3>1. d <= e + 2 * o + 2 + 0 - L + c BY <1>3, <2>1
    <3>2. o \in Nat /\ L \in Nat /\ c \in Nat /\ b \in Nat /\ b < L BY <1>3, <1>5
    <3> QED BY <2>2, <3>1, <3>2
  <2> QED BY <1>3, <1>5, <1>14, <1>18, <1>19, <1>20, <2>1, <2>3 DEF Passed
<1>22. JobOK(Find!NextByte(k)) /\ Keeps(k, Find!NextByte(k)) BY <1>14, <1>21, NextByteOK
<1> QED BY <1>12, <1>14, <1>22 DEF Keeps

(* The cursor moves on, or the match is reported.                          *)
LEMMA MoveCursorOK ==
  ASSUME SearchConstants, NEW j, Running(j), AtMatch(j, 0)
  PROVE  JobOK(Find!MoveCursor(j)) /\ Keeps(j, Find!MoveCursor(j))
<1>1. CASE j.cursor < Find!MatchOffset(j)
  <2>1. j \in Job BY DEF Running
  <2>2. j.cursor \in Nat /\ j.offset \in Nat /\ Len(j.query) \in Nat BY <2>1, JobTyped
  <2>3. j.cursor + Len(j.query) < j.offset + 1 BY <1>1, <2>2 DEF Find!MatchOffset
  <2>4. Affordable(j, "cursor") BY <2>3 DEF Affordable
  <2> QED BY <1>1, <2>4, PayOK DEF Find!MoveCursor, Uses
<1>2. CASE ~ (j.cursor < Find!MatchOffset(j))
  BY <1>2, ReportOK DEF Find!MoveCursor
<1> QED BY <1>1, <1>2

(* One step of the cursor.                                                 *)
LEMMA CountLineOK ==
  ASSUME SearchConstants, NEW j, Running(j), AtMatch(j, 1),
         j.cursor + Len(j.query) < j.offset + 1
  PROVE  JobOK(Find!CountLine(j)) /\ Keeps(j, Find!CountLine(j))
<1>1. j \in Job BY DEF Running
<1>2. PICK o, L, c, l, s, t :
        /\ o = j.offset /\ L = Len(j.query) /\ c = j.cursor /\ l = j.line /\ s = j.lineStart
        /\ t = j.text
  OBVIOUS
<1>3. /\ o \in Nat /\ L \in Nat /\ L > 0 /\ c \in Nat /\ l \in Nat /\ s \in Nat
      /\ j.done \in Nat /\ j.matched = L
      /\ j.out \in Seq(Matches) /\ o < Len(t) /\ Len(t) \in Nat /\ c + L < o + 1
      /\ j.done <= Earlier(j) + 2 * o + 2 + 1 - L + c
      /\ Counted(t, c, l, s)
  BY <1>1, <1>2, JobTyped DEF AtMatch, InFile, Running
<1>4. PICK l2, s2 : /\ l2 = (IF t[c + 1] = NL THEN l + 1 ELSE l)
                    /\ s2 = (IF t[c + 1] = NL THEN c + 1 ELSE s)
  OBVIOUS
<1>5. l2 \in Nat /\ s2 \in Nat /\ Counted(t, c + 1, l2, s2)
  BY <1>3, <1>4, LineCounted
<1>6. PICK k : k = Moved(j, o, L, c + 1, l2, s2, j.out) OBVIOUS
<1>7. Find!CountLine(j) = Find!MoveCursor(k)
  <2>1. [j EXCEPT !.line = IF t[c + 1] = NL THEN @ + 1 ELSE @,
                  !.lineStart = IF t[c + 1] = NL THEN j.cursor + 1 ELSE @,
                  !.cursor = @ + 1] = k
    BY <1>1, <1>2, <1>3, <1>4, <1>6 DEF Job, Moved
  <2> QED BY <1>2, <2>1 DEF Find!CountLine
<1>8. MovedTo(j, k, o, L, c + 1, l2, s2, j.out) BY <1>3, <1>5, <1>6 DEF MovedTo
<1>9. /\ Running(k) /\ Keeps(j, k) /\ k.offset = o /\ k.matched = L /\ k.cursor = c + 1
      /\ k.done = j.done
      /\ k.query = j.query /\ k.text = t /\ Earlier(k) = Earlier(j)
  BY <1>2, <1>8, MovedFields
<1>10. InFile(k, o)
  BY <1>2, <1>3, <1>5, <1>8, MovedInFile DEF AtMatch
<1>11. AtMatch(k, 0)
  <2>1. PICK e, d : e = Earlier(j) /\ d = j.done OBVIOUS
  <2>2. e \in Int /\ d \in Nat BY <1>1, <1>3, <2>1, EarlierMeasured
  <2>3. d <= e + 2 * o + 2 + 0 - L + (c + 1) /\ (c + 1) + L <= o + 1 BY <1>3, <2>1, <2>2
  <2> QED BY <1>2, <1>3, <1>9, <1>10, <2>1, <2>3 DEF AtMatch
<1>12. JobOK(Find!MoveCursor(k)) /\ Keeps(k, Find!MoveCursor(k)) BY <1>9, <1>11, MoveCursorOK
<1> QED BY <1>7, <1>9, <1>12 DEF Keeps

(* A byte is compared.                                                     *)
LEMMA CompareOK ==
  ASSUME SearchConstants, NEW j, Running(j), AtByte(j, 1),
         stop \in {"no", "cancelled", "deadline"}
  PROVE  JobOK(Find!Compare(j)) /\ Keeps(j, Find!Compare(j))
<1>1. j \in Job BY DEF Running
<1>2. PICK o, L, m, c, q, t, B :
        /\ o = j.offset /\ L = Len(j.query) /\ m = j.matched /\ c = j.cursor /\ q = j.query
        /\ t = j.text
        /\ B = L - 1
  OBVIOUS
<1>3. /\ o \in Nat /\ L \in Nat /\ L > 0 /\ c \in Nat /\ m \in Nat /\ j.line \in Nat
      /\ j.lineStart \in Nat
      /\ j.done \in Nat /\ j.ops \in Nat /\ m < L
      /\ j.out \in Seq(Matches) /\ o < Len(t) /\ Len(t) \in Nat /\ (c = 0 \/ c + L <= o)
      /\ j.done <= Earlier(j) + 2 * o + 1 - m + c
      /\ Counted(t, c, j.line, j.lineStart) /\ Candidate(q, m, t, o, B) /\ InFile(j, o)
      /\ Len(q) = L
  BY <1>1, <1>2, JobTyped DEF AtByte, InFile
<1>4. B \in Nat /\ B + 1 = L BY <1>2, <1>3
<1>5. m <= o BY <1>3 DEF Candidate, Ends
<1>6. PICK e, d : e = Earlier(j) /\ d = j.done OBVIOUS
<1>7. e \in Int /\ d \in Nat /\ d <= e + 2 * o + 1 - m + c BY <1>1, <1>3, <1>6, EarlierMeasured
<1>8. Current(j).text = t BY <1>2 DEF Current
<1>9. CASE t[o + 1] # q[m + 1] /\ m > 0
  <2>1. Affordable(j, "shrink") BY <1>2, <1>9 DEF Affordable
  <2>2. Find!Compare(j) = Find!Pay(j, "shrink") BY <1>2, <1>9 DEF Find!Compare, Find!Byte
  <2> QED BY <2>1, <2>2, PayOK DEF Uses
<1>10. CASE t[o + 1] # q[m + 1] /\ ~ (m > 0)
  <2>1. m = 0 BY <1>3, <1>10
  <2>2. Find!Compare(j) = Find!NextByte(j) BY <1>2, <1>10 DEF Find!Compare, Find!Byte
  <2>3. Candidate(q, 0, t, o, B) /\ q[1] # t[o + 1] BY <1>3, <1>10, <2>1
  <2>4. Ends(q, 0, t, o + 1) /\ \A b \in 1 .. B + 1 : ~Ends(q, b, t, o + 1)
    BY <1>3, <1>4, <2>3, GoesNowhere
  <2>5. ~Ends(q, L, t, o + 1) /\ \A b \in 0 + 1 .. L - 1 : ~Ends(q, b, t, o + 1)
    BY <1>3, <1>4, <2>4
  <2>6. Hits(Current(j), q, o + 1) = Hits(Current(j), q, o)
    BY <1>3, <1>8, <2>5, HitsGrow
  <2>7. InFile(j, o + 1) BY <1>2, <1>3, <2>6 DEF InFile
  <2>8. d <= e + 2 * o + 2 - m + c /\ (c = 0 \/ c + L <= o + 1) BY <1>3, <1>7
  <2>9. Passed(j) BY <1>2, <1>3, <1>6, <2>1, <2>4, <2>5, <2>7, <2>8 DEF Passed
  <2> QED BY <2>2, <2>9, NextByteOK
<1>11. CASE t[o + 1] = q[m + 1]
  <2>1. PICK k : k = Moved(j, o, m + 1, c, j.line, j.lineStart, j.out) OBVIOUS
  <2>2. [j EXCEPT !.matched = @ + 1] = k BY <1>1, <1>2, <2>1 DEF Job, Moved
  <2>3. MovedTo(j, k, o, m + 1, c, j.line, j.lineStart, j.out) BY <1>3, <2>1 DEF MovedTo
  <2>4. /\ Running(k) /\ Keeps(j, k) /\ k.offset = o /\ k.matched = m + 1 /\ k.cursor = c
        /\ k.done = j.done
        /\ k.query = q /\ k.text = t /\ Earlier(k) = Earlier(j)
    BY <1>2, <2>3, MovedFields
  <2>5. Ends(q, m + 1, t, o + 1) /\ \A b \in m + 2 .. B + 1 : ~Ends(q, b, t, o + 1)
    BY <1>3, <1>4, <1>11, GoesOn
  <2>6. CASE m + 1 < L
    <3>1. Find!Compare(j) = Find!NextByte(k)
      BY <1>2, <1>11, <2>2, <2>4, <2>6 DEF Find!Compare, Find!Byte
    <3>2. ~Ends(q, L, t, o + 1) /\ \A b \in (m + 1) + 1 .. L - 1 : ~Ends(q, b, t, o + 1)
      BY <1>3, <1>4, <2>5, <2>6
    <3>3. Hits(Current(j), q, o + 1) = Hits(Current(j), q, o)
      BY <1>3, <1>8, <3>2, HitsGrow
    <3>4. InFile(k, o + 1)
      BY <1>2, <1>3, <2>3, <3>3, MovedInFile
    <3>5. d <= e + 2 * o + 2 - (m + 1) + c /\ (c = 0 \/ c + L <= o + 1) BY <1>3, <1>7
    <3>6. Passed(k) BY <1>3, <1>6, <2>4, <2>5, <2>6, <3>2, <3>4, <3>5 DEF Passed
    <3>7. JobOK(Find!NextByte(k)) /\ Keeps(k, Find!NextByte(k)) BY <2>4, <3>6, NextByteOK
    <3> QED BY <2>4, <3>1, <3>7 DEF Keeps
  <2>7. CASE ~ (m + 1 < L)
    <3>1. m + 1 = L BY <1>3, <2>7
    <3>2. InFile(k, o) BY <1>2, <1>3, <2>3, MovedInFile
    <3>3. d <= e + 2 * o + 2 + 0 - (m + 1) + c BY <1>3, <1>7
    <3>4. c + L <= o + 1 BY <1>3, <1>5, <3>1
    <3>5. AtMatch(k, 0)
      BY <1>3, <1>6, <2>4, <2>5, <3>1, <3>2, <3>3, <3>4 DEF AtMatch
    <3>6. k \in Job /\ Table(k) /\ k.done <= k.ops /\ k.ops = k.done
      BY <2>4, <1>3 DEF Running, Keeps
    <3>7. ~ (k.matched < Len(k.query)) BY <1>3, <2>4, <2>7
    <3>8. CASE stop # "no"
      <4>1. Find!Compare(j) = Find!Fail(k, stop)
        BY <1>2, <1>11, <2>2, <3>7, <3>8 DEF Find!Compare, Find!Byte
      <4>2. stop \in Results \ {"own", "ok"} BY <3>8 DEF Results
      <4>3. JobOK(Find!Fail(k, stop)) /\ Keeps(k, Find!Fail(k, stop)) BY <3>6, <4>2, FailOK
      <4> QED BY <2>4, <4>1, <4>3 DEF Keeps
    <3>9. CASE stop = "no" /\ Len(k.out) >= MaxMatches
      <4>1. Find!Compare(j) = Find!Fail(k, "matches")
        BY <1>2, <1>11, <2>2, <3>7, <3>9 DEF Find!Compare, Find!Byte
      <4>2. "matches" \in Results \ {"own", "ok"} BY DEF Results
      <4>3. JobOK(Find!Fail(k, "matches")) /\ Keeps(k, Find!Fail(k, "matches"))
        BY <3>6, <4>2, FailOK
      <4> QED BY <2>4, <4>1, <4>3 DEF Keeps
    <3>10. CASE stop = "no" /\ ~ (Len(k.out) >= MaxMatches)
      <4>1. Find!Compare(j) = Find!MoveCursor(k)
        BY <1>2, <1>11, <2>2, <3>7, <3>10 DEF Find!Compare, Find!Byte
      <4>3. JobOK(Find!MoveCursor(k)) /\ Keeps(k, Find!MoveCursor(k))
        BY <2>4, <3>5, MoveCursorOK
      <4> QED BY <2>4, <4>1, <4>3 DEF Keeps
    <3> QED BY <3>8, <3>9, <3>10
  <2> QED BY <2>6, <2>7
<1> QED BY <1>9, <1>10, <1>11

(* The fallback, and the comparison that follows it.                       *)
LEMMA ShrinkOK ==
  ASSUME SearchConstants, NEW j, Running(j), AtByte(j, 2), j.matched > 0,
         j.text[j.offset + 1] # j.query[j.matched + 1], stop \in {"no", "cancelled", "deadline"}
  PROVE  JobOK(Find!Shrink(j)) /\ Keeps(j, Find!Shrink(j))
<1>1. j \in Job BY DEF Running
<1>2. PICK o, L, m, c, q, t, B, p :
        /\ o = j.offset /\ L = Len(j.query) /\ m = j.matched /\ c = j.cursor /\ q = j.query
        /\ t = j.text
        /\ B = L - 1 /\ p = j.prefix
  OBVIOUS
<1>3. /\ o \in Nat /\ L \in Nat /\ L > 0 /\ c \in Nat /\ m \in Nat /\ j.line \in Nat
      /\ j.lineStart \in Nat
      /\ j.done \in Nat /\ m < L /\ m > 0 /\ t[o + 1] # q[m + 1]
      /\ j.out \in Seq(Matches) /\ o < Len(t) /\ (c = 0 \/ c + L <= o)
      /\ j.done <= Earlier(j) + 2 * o + 2 - m + c
      /\ Counted(t, c, j.line, j.lineStart) /\ Candidate(q, m, t, o, B) /\ InFile(j, o)
      /\ Len(q) = L /\ p \in Seq(Nat) /\ TableOf(q, p, L)
  BY <1>1, <1>2, JobTyped DEF AtByte, InFile, Running, Table
<1>4. B \in Nat /\ B + 1 = L BY <1>2, <1>3
<1>5. PICK b \in Nat : b = p[m] /\ b < m /\ Longest(q, m, b)
  <2>1. m <= L /\ L <= Len(q) BY <1>3, SMTT(30)
  <2>2. p[m] \in Nat /\ p[m] < m /\ Longest(q, m, p[m]) BY <1>3, <2>1, TableFallsBack
  <2> QED BY <2>2
<1>6. PICK e, d : e = Earlier(j) /\ d = j.done OBVIOUS
<1>7. e \in Int /\ d \in Nat /\ d <= e + 2 * o + 2 - m + c BY <1>1, <1>3, <1>6, EarlierMeasured
<1>8. PICK k : k = Moved(j, o, b, c, j.line, j.lineStart, j.out) OBVIOUS
<1>9. [j EXCEPT !.matched = j.prefix[@]] = k BY <1>1, <1>2, <1>5, <1>8 DEF Job, Moved
<1>10. MovedTo(j, k, o, b, c, j.line, j.lineStart, j.out) BY <1>3, <1>5, <1>8 DEF MovedTo
<1>11. /\ Running(k) /\ Keeps(j, k) /\ k.offset = o /\ k.matched = b /\ k.cursor = c
       /\ k.done = j.done
       /\ k.query = q /\ k.text = t /\ Earlier(k) = Earlier(j)
  BY <1>2, <1>10, MovedFields
<1>12. InFile(k, o) BY <1>2, <1>3, <1>10, MovedInFile
<1>13. Candidate(q, b, t, o, B) BY <1>3, <1>4, <1>5, FallBack
<1>14. d <= e + 2 * o + 1 - b + c /\ b < L
  <2>1. o \in Nat /\ L \in Nat /\ c \in Nat /\ m \in Nat /\ m < L /\ b \in Nat /\ b < m
    BY <1>3, <1>5
  <2> QED BY <1>7, <2>1
<1>15. AtByte(k, 1) BY <1>2, <1>3, <1>6, <1>11, <1>12, <1>13, <1>14 DEF AtByte
<1>16. JobOK(Find!Compare(k)) /\ Keeps(k, Find!Compare(k)) BY <1>11, <1>15, CompareOK
<1> QED BY <1>9, <1>11, <1>16 DEF Find!Shrink, Keeps

(* Whatever was paid for keeps the invariant and counts as one operation.  *)
LEMMA WorkOK ==
  ASSUME SearchConstants, NEW j, JobOK(j), j.pc = "charge",
         stop \in {"no", "cancelled", "deadline"}
  PROVE  /\ JobOK(Find!Work(j))
         /\ Find!Work(j).done = j.done + 1 /\ Find!Work(j).ops = j.ops
         /\ Find!Work(j).nextCheck = j.nextCheck
<1>1. /\ j \in Job /\ Affordable(j, j.at) /\ j.ops = j.done + 1 /\ Table(j)
      /\ j.result \notin {"own", "ok"}
  BY DEF JobOK
<1>2. PICK v \in Nat : v = j.done + 1 BY <1>1, JobTyped
<1>3. PICK k : k = [j EXCEPT !.done = v] OBVIOUS
<1>4. [j EXCEPT !.done = @ + 1] = k BY <1>1, <1>2, <1>3 DEF Job
<1>5. /\ k \in Job /\ k.done = v /\ k.ops = j.ops /\ k.nextCheck = j.nextCheck
      /\ k.result = j.result
      /\ Alike(j, k)
  BY <1>1, <1>3 DEF Job, Alike
<1>6. /\ Table(k) <=> Table(j)
      /\ Walked(k) <=> Walked(j)
      /\ Earlier(k) = Earlier(j)
      /\ \A n : InFile(k, n) <=> InFile(j, n)
  BY <1>5, AlikeParts
<1>7. Running(k) BY <1>1, <1>2, <1>5, <1>6 DEF Running
<1>8. PICK d, e : d = j.done /\ e = Earlier(j) OBVIOUS
<1>9. /\ d \in Nat /\ e \in Int /\ v = d + 1 /\ j.matched \in Nat /\ j.index \in Nat
      /\ j.offset \in Nat
      /\ j.cursor \in Nat
  BY <1>1, <1>2, <1>8, JobTyped, EarlierMeasured
<1>10. PICK m \in Nat, i \in Nat, o \in Nat, c \in Nat :
        /\ m = j.matched /\ i = j.index /\ o = j.offset /\ c = j.cursor
  BY <1>9
<1>11. ASSUME NEW w, w = Find!Work(j), JobOK(w), Keeps(k, w)
       PROVE  /\ JobOK(Find!Work(j)) /\ Find!Work(j).done = j.done + 1
              /\ Find!Work(j).ops = j.ops /\ Find!Work(j).nextCheck = j.nextCheck
  BY <1>2, <1>5, <1>11 DEF Keeps
<1>12. CASE j.at = "prefix"
  <2>1. Find!Work(j) = Find!BuildPrefix(k) BY <1>4, <1>12 DEF Find!Work
  <2>2. Building(j, 0) /\ j.index < Len(j.query) /\ Walked(j) BY <1>1, <1>12 DEF Affordable
  <2>3. d + m + 2 <= 2 * i + 0 BY <1>8, <1>10, <2>2 DEF Building
  <2>4. v + m + 2 <= 2 * i + 1 BY <1>9, <2>3
  <2>5. Building(k, 1) /\ k.index < Len(k.query) /\ Walked(k)
    BY <1>5, <1>6, <1>10, <2>2, <2>4 DEF Building, Alike
  <2> QED BY <1>7, <1>11, <2>1, <2>5, BuildPrefixOK
<1>13. CASE j.at = "byte"
  <2>1. Find!Work(j) = Find!Compare(k) BY <1>4, <1>13 DEF Find!Work
  <2>2. AtByte(j, 0) BY <1>1, <1>13 DEF Affordable
  <2>3. d <= e + 2 * o + 0 - m + c BY <1>8, <1>10, <2>2 DEF AtByte
  <2>4. v <= e + 2 * o + 1 - m + c BY <1>9, <2>3
  <2>5. AtByte(k, 1)
    BY <1>5, <1>6, <1>8, <1>10, <2>2, <2>4 DEF AtByte, Alike
  <2> QED BY <1>7, <1>11, <2>1, <2>5, CompareOK
<1>14. CASE j.at = "shrink"
  <2>1. Find!Work(j) = Find!Shrink(k) BY <1>4, <1>14 DEF Find!Work
  <2>2. AtByte(j, 1) /\ j.matched > 0 /\ j.text[j.offset + 1] # j.query[j.matched + 1]
    BY <1>1, <1>14 DEF Affordable
  <2>3. d <= e + 2 * o + 1 - m + c BY <1>8, <1>10, <2>2 DEF AtByte
  <2>4. v <= e + 2 * o + 2 - m + c BY <1>9, <2>3
  <2>5. AtByte(k, 2) /\ k.matched > 0 /\ k.text[k.offset + 1] # k.query[k.matched + 1]
    BY <1>5, <1>6, <1>8, <1>10, <2>2, <2>4 DEF AtByte, Alike
  <2> QED BY <1>7, <1>11, <2>1, <2>5, ShrinkOK
<1>15. CASE j.at = "cursor"
  <2>1. Find!Work(j) = Find!CountLine(k) BY <1>4, <1>15 DEF Find!Work
  <2>2. AtMatch(j, 0) /\ j.cursor + Len(j.query) < j.offset + 1 BY <1>1, <1>15 DEF Affordable
  <2>3. d <= e + 2 * o + 2 + 0 - m + c BY <1>8, <1>10, <2>2 DEF AtMatch
  <2>4. v <= e + 2 * o + 2 + 1 - m + c BY <1>9, <2>3
  <2>5. AtMatch(k, 1) /\ k.cursor + Len(k.query) < k.offset + 1
    BY <1>5, <1>6, <1>8, <1>10, <2>2, <2>4 DEF AtMatch, Alike
  <2> QED BY <1>7, <1>11, <2>1, <2>5, CountLineOK
<1>16. j.at \in Uses BY <1>1 DEF Job
<1> QED BY <1>12, <1>13, <1>14, <1>15, <1>16 DEF Uses

(* A search that asks for an operation has not used up its own limit.      *)
LEMMA LimitSuffices ==
  ASSUME SearchConstants, NEW j, JobOK(j), j.pc = "step"
  PROVE  j.done < Find!OperationLimit(j) /\ Find!OperationLimit(j) \in Nat
<1>1. j \in Job /\ Affordable(j, j.at) /\ Table(j) BY DEF JobOK
<1>2. PICK L \in Nat, S \in Nat, T \in Nat, d \in Nat, m \in Nat, i \in Nat, o \in Nat, c \in Nat :
        /\ L = Len(j.query) /\ S = j.scanned /\ T = Len(j.text) /\ d = j.done /\ m = j.matched
        /\ i = j.index
        /\ o = j.offset /\ c = j.cursor
  BY <1>1, JobTyped
<1>3. PICK M \in Nat, N \in Nat : M = Multiplier /\ N = MaxScanBytes /\ M >= 3
  BY DEF SearchConstants
<1>0. Find!OperationLimit(j) = M * N + 2 * L BY <1>2, <1>3 DEF Find!OperationLimit
<1>5. PICK P \in Nat : P = M * N /\ P >= 3 * N
  <2>1. PICK x \in Nat : M = 3 + x
    <3>1. M - 3 \in Nat /\ M = 3 + (M - 3) BY <1>3
    <3> QED BY <3>1
  <2>2. M * N = 3 * N + x * N BY <2>1
  <2>3. x * N \in Nat BY <2>1
  <2> QED BY <2>2, <2>3
<1>4. Find!OperationLimit(j) = P + 2 * L BY <1>0, <1>5
<1>6. Find!OperationLimit(j) \in Nat BY <1>4
<1>7. L > 0 BY <1>1, <1>2, JobTyped
<1>8. Earlier(j) = 2 * L + 3 * (S - T) BY <1>2 DEF Earlier
<1>9. CASE j.at = "prefix"
  <2>1. d + m + 2 <= 2 * i + 0 /\ i < L BY <1>1, <1>2, <1>9 DEF Affordable, Building
  <2>2. d < 2 * L BY <2>1
  <2>3. d < P + 2 * L BY <2>2
  <2> QED BY <1>2, <1>4, <1>6, <2>3
<1>10. ASSUME T <= S, S <= N, o < T, d <= 2 * L + 3 * (S - T) + 3 * o
       PROVE  j.done < Find!OperationLimit(j)
  <2>1. d < 2 * L + 3 * N BY <1>10
  <2>2. d < P + 2 * L BY <1>5, <2>1
  <2> QED BY <1>2, <1>4, <2>2
<1>11. CASE j.at \in {"byte", "shrink"}
  <2>1. PICK x \in {0, 1} : AtByte(j, x) /\ x <= m
    <3>1. CASE j.at = "byte" BY <1>1, <3>1 DEF Affordable
    <3>2. CASE j.at = "shrink"
      <4>1. AtByte(j, 1) /\ 1 <= m BY <1>1, <1>2, <3>2 DEF Affordable
      <4> QED BY <4>1
    <3> QED BY <1>11, <3>1, <3>2
  <2>2. T <= S /\ S <= N /\ o < T /\ (c = 0 \/ c + L <= o)
    BY <1>2, <1>3, <2>1 DEF AtByte, InFile
  <2>3. d <= 2 * L + 3 * (S - T) + 2 * o + x - m + c BY <1>2, <1>8, <2>1 DEF AtByte
  <2>4. c <= o BY <2>2
  <2>5. d <= 2 * L + 3 * (S - T) + 3 * o BY <2>1, <2>3, <2>4
  <2> QED BY <1>6, <1>10, <2>2, <2>5
<1>12. CASE j.at = "cursor"
  <2>1. AtMatch(j, 0) /\ c + L < o + 1 BY <1>1, <1>2, <1>12 DEF Affordable
  <2>2. T <= S /\ S <= N /\ o < T /\ m = L BY <1>2, <1>3, <2>1 DEF AtMatch, InFile
  <2>3. d <= 2 * L + 3 * (S - T) + 2 * o + 2 + 0 - m + c BY <1>2, <1>8, <2>1 DEF AtMatch
  <2>4. c + L <= o /\ m >= 1 BY <2>1, <2>2, <1>7
  <2>5. d <= 2 * L + 3 * (S - T) + 3 * o BY <2>2, <2>3, <2>4
  <2> QED BY <1>6, <1>10, <2>2, <2>5
<1>13. j.at \in Uses BY <1>1 DEF Job
<1> QED BY <1>6, <1>9, <1>11, <1>12, <1>13 DEF Uses

(* A look at the controls.                                                 *)
LEMMA CheckNowOK ==
  ASSUME SearchConstants, NEW j, JobOK(j), stop \in {"no", "cancelled", "deadline"}
  PROVE  JobOK(Find!CheckNow(j)) /\ Keeps(j, Find!CheckNow(j))
<1>1. CASE stop = "no" BY <1>1 DEF Find!CheckNow, Keeps
<1>2. CASE stop # "no"
  <2>1. stop \in Results \ {"own", "ok"} BY <1>2 DEF Results
  <2> QED BY <1>2, <2>1, FailOK DEF Find!CheckNow, JobOK
<1> QED BY <1>1, <1>2

(* The beginning of a search.                                              *)
LEMMA StartOK ==
  ASSUME SearchConstants, NEW j, JobOK(j), j.pc = "start",
         stop \in {"no", "cancelled", "deadline"}
  PROVE  JobOK(Find!Start(j)) /\ Keeps(j, Find!Start(j))
<1>1. Running(j) /\ Building(j, 0) /\ Walked(j) BY DEF JobOK, Running
<1>2. JobOK(Find!BuildOrWalk(j)) /\ Keeps(j, Find!BuildOrWalk(j)) BY <1>1, BuildOrWalkOK
<1> QED BY <1>2, CheckNowOK DEF Find!Start, Keeps

(* Paths are numbers.                                                      *)
LEMMA TreeTyped ==
  ASSUME SearchConstants, NEW n \in 1 .. Len(Tree)
  PROVE  Tree[n].path \in Nat /\ (Tree[n].kind = "file" => Tree[n].path \in Find!Paths)
<1>1. Tree[n] \in [path : Nat, depth : Nat, kind : {"file", "directory", "link"}]
  <2>1. Tree \in Seq([path : Nat, depth : Nat, kind : {"file", "directory", "link"}])
    BY Zenon DEF SearchConstants
  <2> QED BY <2>1, ElementOfSeq, Zenon
<1> QED BY <1>1 DEF Find!Paths

(* The text of a file is a sequence.                                       *)
LEMMA ContentsMeasured ==
  ASSUME SearchConstants, content \in [Find!Paths -> Contents], NEW p \in Find!Paths
  PROVE  content[p] \in Seq(Letters) /\ Len(content[p]) \in Nat /\ p \in Nat
<1>1. content[p] \in Seq(Letters) BY DEF SearchConstants
<1>2. p \in Nat BY TreeTyped DEF Find!Paths
<1> QED BY <1>1, <1>2, LenProperties

(* A search further on in its walk.                                        *)
Advanced(j, v, td) == [j EXCEPT !.visited = v, !.todo = td]

(* What that changes.                                                      *)
LEMMA AdvancedFields ==
  ASSUME SearchConstants, NEW j, JobOK(j), j.pc = "walk", NEW v \in Nat,
         NEW td \in SUBSET Found, NEW k, k = Advanced(j, v, td),
         Walked(k)
  PROVE  JobOK(k) /\ Keeps(j, k)
<1>1. j \in Job BY DEF JobOK
<1>2. /\ k \in Job /\ k.pc = "walk" /\ Keeps(j, k) /\ k.result = j.result /\ k.query = j.query
      /\ k.prefix = j.prefix
      /\ k.index = j.index /\ k.scanned = j.scanned
  BY <1>1 DEF Advanced, Job, Keeps
<1>3. Table(k) BY <1>2 DEF JobOK, Table
<1>4. Between(k) BY <1>2 DEF JobOK, Between, Keeps
<1> QED BY <1>2, <1>3, <1>4 DEF JobOK, Keeps

(* One entry of the walk.                                                  *)
LEMMA WalkEntryOK ==
  ASSUME SearchConstants, NEW j, JobOK(j), j.pc = "walk", j.visited < Len(Tree),
         content \in [Find!Paths -> Contents]
  PROVE  JobOK(Find!WalkEntry(j)) /\ Keeps(j, Find!WalkEntry(j))
<1>1. j \in Job /\ Table(j) /\ Walked(j) /\ j.done <= j.ops BY DEF JobOK
<1>2. j.visited \in Nat /\ j.todo \subseteq Found BY <1>1, JobTyped
<1>3. PICK v, e : v \in Nat /\ v = j.visited + 1 /\ e = Tree[v] BY <1>2
<1>4. Len(Tree) \in Nat BY LenProperties DEF SearchConstants
<1>5. v \in 1 .. Len(Tree) BY <1>2, <1>3, <1>4
<1>6. CASE e.depth > MaxDepth
  <2>1. "depth" \in Results \ {"own", "ok"} BY DEF Results
  <2>2. Find!WalkEntry(j) = Find!Fail(j, "depth") BY <1>3, <1>6 DEF Find!WalkEntry
  <2> QED BY <1>1, <2>1, <2>2, FailOK
<1> DEFINE D == e.depth > MaxDepth
<1>7. [j EXCEPT !.visited = @ + 1].visited = v BY <1>1, <1>3 DEF Job
<1>8. CASE ~D /\ v > MaxFiles
  <2>1. "files" \in Results \ {"own", "ok"} BY DEF Results
  <2>2. Find!WalkEntry(j) = Find!Fail(j, "files") BY <1>3, <1>7, <1>8 DEF Find!WalkEntry
  <2> QED BY <1>1, <2>1, <2>2, FailOK
<1> DEFINE N(b) == {n \in 1 .. b : Tree[n].kind = "file"}
           F(td) == {f.path : f \in td}
<1>9. /\ Distinct(j) /\ F(j.todo) = {Tree[n].path : n \in N(j.visited)}
      /\ j.read = << >> /\ j.out = << >>
  BY <1>1 DEF Walked
<1>10. CASE ~D /\ ~ (v > MaxFiles) /\ e.kind # "file"
  <2>1. PICK k : k = Advanced(j, v, j.todo) OBVIOUS
  <2>2. [j EXCEPT !.visited = @ + 1] = k BY <1>1, <1>3, <2>1 DEF Job, Advanced
  <2>3. Find!WalkEntry(j) = k BY <1>3, <1>7, <1>10, <2>2 DEF Find!WalkEntry
  <2>4. k.visited = v /\ k.todo = j.todo /\ k.read = j.read /\ k.out = j.out
    BY <1>1, <2>1 DEF Job, Advanced
  <2>5. N(v) = N(j.visited) BY <1>2, <1>3, <1>10
  <2>6. Walked(k)
    <3>1. Distinct(k) BY <1>9, <2>4 DEF Distinct
    <3>2. F(k.todo) = {Tree[n].path : n \in N(k.visited)} BY <1>9, <2>4, <2>5
    <3>3. k.visited <= Len(Tree) BY <1>4, <1>5, <2>4
    <3> QED BY <1>9, <2>4, <3>1, <3>2, <3>3, Zenon DEF Walked
  <2> QED BY <1>2, <1>3, <2>1, <2>3, <2>6, AdvancedFields
<1>11. CASE ~D /\ ~ (v > MaxFiles) /\ e.kind = "file"
  <2>1. PICK x : x = [path |-> e.path, bytes |-> Len(content[e.path])] OBVIOUS
  <2>2. e.path \in Find!Paths BY <1>3, <1>5, <1>11, TreeTyped
  <2>3. x \in Found /\ x.path = e.path BY <2>1, <2>2, ContentsMeasured DEF Found
  <2>4. PICK td : td = j.todo \cup {x} OBVIOUS
  <2>5. PICK k : k = Advanced(j, v, td) OBVIOUS
  <2>6. [[j EXCEPT !.visited = @ + 1] EXCEPT
          !.todo = @ \cup {[path |-> e.path, bytes |-> Len(content[e.path])]}] = k
    BY <1>1, <1>3, <2>1, <2>4, <2>5 DEF Job, Advanced
  <2>7. Find!WalkEntry(j) = k BY <1>3, <1>7, <1>11, <2>6 DEF Find!WalkEntry
  <2>8. k.visited = v /\ k.todo = td /\ k.read = j.read /\ k.out = j.out
    BY <1>1, <2>5 DEF Job, Advanced
  <2>9. N(v) = N(j.visited) \cup {v} BY <1>2, <1>3, <1>11
  <2>10. F(td) = F(j.todo) \cup {e.path} BY <2>3, <2>4
  <2>11. F(td) = {Tree[n].path : n \in N(v)}
    <3> HIDE DEF N, F
    <3> QED BY <1>3, <1>9, <2>9, <2>10
  <2>12. ASSUME NEW f \in j.todo PROVE f.path # e.path
    <3>1. f.path \in F(j.todo) OBVIOUS
    <3>2. PICK n \in N(j.visited) : f.path = Tree[n].path BY <1>9, <3>1
    <3>3. n \in 1 .. Len(Tree) /\ n # v BY <1>2, <1>3, <1>4
    <3> QED BY <1>3, <1>5, <3>2, <3>3 DEF SearchConstants
  <2>13. Distinct(k) BY <1>9, <2>3, <2>4, <2>8, <2>12 DEF Distinct
  <2>14. Walked(k)
    <3>1. F(k.todo) = {Tree[n].path : n \in N(k.visited)} BY <2>8, <2>11
    <3>2. k.visited <= Len(Tree) BY <1>4, <1>5, <2>8
    <3> QED BY <1>9, <2>8, <2>13, <3>1, <3>2, Zenon DEF Walked
  <2>15. td \in SUBSET Found BY <1>2, <2>3, <2>4
  <2> QED BY <1>3, <2>5, <2>7, <2>14, <2>15, AdvancedFields
<1> QED BY <1>6, <1>8, <1>10, <1>11

(* At its end all files of the tree are queued.                            *)
LEMMA WalkEndOK ==
  ASSUME SearchConstants, NEW j, JobOK(j), j.pc = "walk", ~ (j.visited < Len(Tree)),
         NEW k, k = [j EXCEPT !.pc = "file"]
  PROVE  JobOK(k) /\ Keeps(j, k)
<1>1. j \in Job /\ Table(j) /\ Walked(j) /\ j.done <= j.ops /\ Between(j) BY DEF JobOK
<1>2. /\ k \in Job /\ k.pc = "file" /\ Keeps(j, k) /\ k.result = j.result /\ Alike(j, k)
  BY <1>1 DEF Job, Keeps, Alike, Places
<1>3. Table(k) /\ Walked(k) BY <1>1, <1>2, AlikeParts
<1>4. Between(k) BY <1>1, <1>2 DEF Between, Keeps, Alike
<1>5. k.visited = Len(Tree)
  <2>1. k.visited \in Nat /\ Len(Tree) \in Nat
    BY <1>2, JobTyped, LenProperties DEF SearchConstants
  <2> QED BY <1>2, <1>3, <2>1 DEF Walked, Alike
<1>6. k.read = << >> /\ k.out = << >> /\ Len(k.read) = 0 /\ Len(k.out) = 0 BY <1>3 DEF Walked
<1>7. Queued(k)
  <2>1. {f.path : f \in k.todo} = Find!Paths BY <1>3, <1>5 DEF Walked, Find!Paths
  <2>2. {k.read[n].path : n \in 1 .. Len(k.read)} = {} BY <1>6
  <2> QED BY <1>3, <1>6, <2>1, <2>2 DEF Queued, Walked
<1>8. InOrder(k) BY <1>6 DEF InOrder
<1>9. Out(k) = Collected(k, Len(k.read)) BY <1>6 DEF Out, Collected
<1> QED BY <1>1, <1>2, <1>3, <1>4, <1>7, <1>8, <1>9 DEF JobOK, Keeps

(* A set of numbers has a least one; this takes the place of an induction. *)
LEMMA LeastElement ==
  ASSUME NEW S, S \subseteq Nat, S # {}
  PROVE  \E n \in S : \A m \in S : n <= m
<1> DEFINE R == OpToRel(<, Nat)
<1>1. IsWellFoundedOn(R, Nat) BY NatLessThanWellFounded, Zenon
<1> HIDE DEF R
<1>2. \E x \in S : \A y \in S : ~ (<<y, x>> \in R)
  BY <1>1, WFMin
<1>3. PICK x \in S : \A y \in S : ~ (<<y, x>> \in R) BY <1>2
<1>4. ASSUME NEW y \in S PROVE x <= y
  <2>1. ~ (<<y, x>> \in R) BY <1>3
  <2>2. ~ (y < x) BY <2>1 DEF R, OpToRel
  <2> QED BY <2>2
<1> QED BY <1>4

(* The next file is the first of those queued.                             *)
LEMMA FirstIsLeast ==
  ASSUME SearchConstants, NEW td \in SUBSET Found, td # {}
  PROVE  Find!First(td) \in td /\ \A g \in td : Find!First(td).path <= g.path
<1> DEFINE P == {g.path : g \in td}
<1>1. P \subseteq Nat /\ P # {} BY TreeTyped DEF Found, Find!Paths
<1>2. PICK n \in P : \A m \in P : n <= m BY <1>1, LeastElement
<1>3. PICK f \in td : f.path = n BY <1>2
<1>4. \A g \in td : f.path <= g.path BY <1>2, <1>3
<1> QED BY <1>4 DEF Find!First

(* A search with another file open.                                        *)
Opened(j, td, p, t, sc, rd) ==
  [j EXCEPT !.todo = td, !.path = p, !.text = t, !.scanned = sc, !.read = rd,
            !.matched = 0, !.offset = 0, !.cursor = 0, !.line = 1, !.lineStart = 0]

(* A file is opened, and skipped if it is shorter than the query.          *)
LEMMA ScanOK ==
  ASSUME SearchConstants, NEW j, JobOK(j), j.pc = "file", NEW f \in j.todo,
         \A g \in j.todo : f.path <= g.path, NEW text \in Seq(Letters),
         j.scanned + Len(text) <= MaxScanBytes, stop \in {"no", "cancelled", "deadline"}
  PROVE  JobOK(Find!Scan(j, f, text)) /\ Keeps(j, Find!Scan(j, f, text))
<1>1. /\ j \in Job /\ Table(j) /\ j.ops = j.done /\ j.result \notin {"own", "ok"} /\ Between(j)
      /\ Queued(j) /\ InOrder(j) /\ Out(j) = Collected(j, Len(j.read))
  BY DEF JobOK
<1>2. PICK td, p, sc, rd, r, n :
        /\ td = j.todo \ {f} /\ p = f.path /\ sc = j.scanned + Len(text)
        /\ r = [path |-> p, text |-> text] /\ rd = Append(j.read, r) /\ n = Len(j.read)
  OBVIOUS
<1>3. /\ j.todo \subseteq Found /\ j.read \in Seq(Reads) /\ n \in Nat /\ j.scanned \in Nat
      /\ j.done \in Nat
      /\ Len(j.query) \in Nat /\ Len(j.query) > 0 /\ j.query \in Seq(Letters) /\ j.ops \in Nat
      /\ MaxScanBytes \in Nat
  BY <1>1, <1>2, JobTyped
<1>4. Len(text) \in Nat /\ sc \in Nat BY <1>2, <1>3, LenProperties
<1>5. p \in Nat /\ p \in Find!Paths /\ \A g \in j.todo : g.path \in Nat
  BY <1>2, <1>3, TreeTyped DEF Found, Find!Paths
<1>6. r \in Reads /\ r.path = p /\ r.text = text BY <1>2, <1>5 DEF Reads
<1>7. rd \in Seq(Reads) /\ Len(rd) = n + 1 /\ rd[n + 1] = r /\ \A i \in 1 .. n : rd[i] = j.read[i]
  BY <1>2, <1>3, <1>6, AppendProperties
<1>8. PICK k : k = Opened(j, td, p, text, sc, rd) OBVIOUS
<1>9. [j EXCEPT !.todo = @ \ {f}, !.path = f.path, !.text = text, !.scanned = @ + Len(text),
                !.read = Append(@, [path |-> f.path, text |-> text]),
                !.matched = 0, !.offset = 0, !.cursor = 0, !.line = 1, !.lineStart = 0] = k
  BY <1>1, <1>2, <1>8 DEF Job, Opened
<1>10. td \in SUBSET Found BY <1>2, <1>3
<1>11. /\ k \in Job /\ k.pc = "file" /\ k.query = j.query /\ k.prefix = j.prefix
       /\ k.index = j.index
       /\ k.todo = td /\ k.path = p /\ k.text = text /\ k.scanned = sc /\ k.read = rd
       /\ k.matched = 0
       /\ k.offset = 0 /\ k.cursor = 0 /\ k.line = 1 /\ k.lineStart = 0 /\ k.out = j.out
       /\ k.result = j.result /\ Keeps(j, k)
  BY <1>1, <1>4, <1>5, <1>7, <1>8, <1>10 DEF Job, Opened, Keeps
<1>12. Table(k) BY <1>1, <1>11 DEF Table
<1>13. Running(k) /\ k.done = j.done BY <1>1, <1>11, <1>12 DEF Running, Keeps
<1>14. Queued(k)
  <2>1. Distinct(k) BY <1>1, <1>2, <1>11 DEF Queued, Distinct
  <2>2. {g.path : g \in td} \cup {rd[i].path : i \in 1 .. Len(rd)} = Find!Paths
    <3>1. {g.path : g \in j.todo} = {g.path : g \in td} \cup {p} BY <1>2
    <3>2. 1 .. Len(rd) = (1 .. n) \cup {n + 1} BY <1>3, <1>7
    <3>3. {rd[i].path : i \in 1 .. Len(rd)} = {j.read[i].path : i \in 1 .. n} \cup {p}
      BY <1>6, <1>7, <3>2
    <3>4. {g.path : g \in j.todo} \cup {j.read[i].path : i \in 1 .. n} = Find!Paths
      BY <1>1, <1>2 DEF Queued
    <3> QED BY <3>1, <3>3, <3>4
  <2>3. ASSUME NEW a \in 1 .. Len(rd), NEW b \in 1 .. Len(rd), a < b
        PROVE  rd[a].path < rd[b].path
    <3>1. a \in 1 .. n BY <1>3, <1>7, <2>3
    <3>2. CASE b = n + 1
      <4>1. j.read[a].path < f.path BY <1>1, <1>2, <3>1 DEF Queued
      <4> QED BY <1>2, <1>6, <1>7, <3>1, <3>2, <4>1
    <3>3. CASE b # n + 1
      <4>1. b \in 1 .. n BY <1>3, <1>7, <3>3
      <4> QED BY <1>1, <1>2, <1>7, <2>3, <3>1, <4>1 DEF Queued
    <3> QED BY <3>2, <3>3
  <2>4. ASSUME NEW a \in 1 .. Len(rd), NEW g \in td PROVE rd[a].path < g.path
    <3>1. CASE a = n + 1
      <4>1. g \in j.todo /\ g # f BY <1>2
      <4>2. f.path <= g.path /\ f.path # g.path BY <1>1, <4>1 DEF Queued, Distinct
      <4>3. f.path < g.path BY <1>2, <1>5, <4>1, <4>2
      <4> QED BY <1>2, <1>6, <1>7, <3>1, <4>3
    <3>2. CASE a # n + 1
      <4>1. a \in 1 .. n /\ g \in j.todo BY <1>2, <1>3, <1>7, <3>2
      <4> QED BY <1>1, <1>2, <1>7, <4>1 DEF Queued
    <3> QED BY <3>1, <3>2
  <2> QED BY <1>11, <2>1, <2>2, <2>3, <2>4, Zenon DEF Queued
<1>15. InOrder(k) BY <1>1, <1>11, Zenon DEF InOrder
<1>16. Out(k) = Collected(k, n)
  <2>1. Out(k) = Out(j) BY <1>11, Zenon DEF Out
  <2>2. Collected(k, n) = Collected(j, n) BY <1>7, <1>11 DEF Collected
  <2> QED BY <1>1, <1>2, <2>1, <2>2
<1>17. CASE Len(text) < Len(j.query)
  <2>1. PICK u : u = [k EXCEPT !.path = 0, !.text = << >>] OBVIOUS
  <2>2. Find!Scan(j, f, text) = Find!CheckNow(u) BY <1>9, <1>17, <2>1 DEF Find!Scan
  <2>3. /\ u \in Job /\ u.pc = "file" /\ u.query = k.query /\ u.prefix = k.prefix
        /\ u.index = k.index
        /\ u.todo = k.todo /\ u.scanned = k.scanned /\ u.read = k.read /\ u.out = k.out
        /\ u.result = k.result
        /\ Keeps(k, u)
    <3>1. << >> \in Seq(Letters) BY EmptySeq
    <3> QED BY <1>11, <2>1, <3>1 DEF Job, Keeps
  <2>4. Table(u) BY <1>12, <2>3 DEF Table
  <2>5. Between(u)
    <3>1. PICK d \in Nat, L \in Nat, s \in Nat, l \in Nat :
            /\ d = j.done /\ L = Len(j.query) /\ s = j.scanned /\ l = Len(text)
      BY <1>3, <1>4
    <3>2. d <= 2 * L + 3 * s /\ j.index = L BY <1>1, <3>1 DEF Between
    <3>a. \A a, b, c, e \in Nat : a <= 2 * b + 3 * c => a <= 2 * b + 3 * (c + e) OBVIOUS
    <3>3. d <= 2 * L + 3 * (s + l) BY <3>2, <3>a
    <3> QED BY <1>2, <1>11, <1>13, <2>3, <3>1, <3>2, <3>3 DEF Between, Keeps
  <2>6. Queued(u) BY <1>14, <2>3 DEF Queued, Distinct
  <2>7. InOrder(u) BY <1>15, <2>3, Zenon DEF InOrder
  <2>8. Out(u) = Collected(u, Len(u.read))
    <3>1. Find!Occurrences(r, j.query) = {}
      <4>1. Hits(r, j.query, Len(r.text)) = {} BY <1>3, <1>4, <1>6, <1>17, HitsNone
      <4> QED BY <1>3, <1>6, <4>1, HitsAll
    <3>2. Collected(k, n + 1) = Collected(k, n) \cup Find!Occurrences(r, j.query)
      <4>1. 1 .. n + 1 = (1 .. n) \cup {n + 1} BY <1>3
      <4> QED BY <1>7, <1>11, <4>1 DEF Collected
    <3>3. Collected(u, n + 1) = Collected(k, n + 1) BY <2>3, Zenon DEF Collected
    <3>4. Out(u) = Out(k) BY <2>3, Zenon DEF Out
    <3>5. Len(u.read) = n + 1 BY <1>7, <1>11, <2>3
    <3> QED BY <1>16, <3>1, <3>2, <3>3, <3>4, <3>5
  <2>9. u.done <= u.ops /\ u.ops = u.done BY <1>3, <1>13, <2>3 DEF Running, Keeps
  <2>10. JobOK(u) BY <1>13, <2>3, <2>4, <2>5, <2>6, <2>7, <2>8, <2>9 DEF JobOK, Running
  <2>11. JobOK(Find!CheckNow(u)) /\ Keeps(u, Find!CheckNow(u)) BY <2>10, CheckNowOK
  <2> QED BY <1>11, <2>2, <2>3, <2>11 DEF Keeps
<1>18. CASE ~ (Len(text) < Len(j.query))
  <2>1. Find!Scan(j, f, text) = Find!Pay(k, "byte") BY <1>9, <1>18 DEF Find!Scan
  <2>2. Current(k) = r BY <1>2, <1>11 DEF Current
  <2>3. Hits(r, k.query, 0) = {} BY <1>3, <1>11, HitsNone
  <2>4. Counted(text, 0, 1, 0)
    <3>1. Find!Lines(text, 0) = {} BY DEF Find!Lines
    <3>2. Cardinality(Find!Lines(text, 0)) = 0 BY <3>1, FS_EmptySet
    <3>3. 1 = 1 + Cardinality(Find!Lines(text, 0)) BY <3>2
    <3> QED BY <3>1, <3>3 DEF Counted
  <2>5. InFile(k, 0)
    <3>1. Len(text) <= sc /\ sc <= MaxScanBytes /\ 0 < Len(text) /\ Len(j.query) <= Len(text)
      BY <1>2, <1>3, <1>4, <1>18
    <3>2. Len(rd) > 0 /\ Len(rd) - 1 = n /\ rd[Len(rd)] = r BY <1>3, <1>7
    <3> QED BY <1>1, <1>11, <1>14, <1>15, <1>16, <2>2, <2>3, <2>4, <3>1, <3>2 DEF InFile,
        Between
  <2>6. Candidate(k.query, 0, text, 0, Len(k.query) - 1)
    BY <1>3, <1>11 DEF Candidate, Ends
  <2>7. AtByte(k, 0)
    <3>1. PICK d \in Nat, L \in Nat, s \in Nat, l \in Nat :
            /\ d = j.done /\ L = Len(j.query) /\ s = j.scanned /\ l = Len(text)
      BY <1>3, <1>4
    <3>2. d <= 2 * L + 3 * s BY <1>1, <3>1 DEF Between
    <3>3. d <= (2 * L + 3 * ((s + l) - l)) + 2 * 0 + 0 - 0 + 0 BY <3>1, <3>2
    <3>4. Earlier(k) = 2 * L + 3 * ((s + l) - l) BY <1>2, <1>11, <3>1 DEF Earlier
    <3> QED BY <1>3, <1>11, <1>13, <2>5, <2>6, <3>1, <3>3, <3>4 DEF AtByte
  <2>8. JobOK(Find!Pay(k, "byte")) /\ Keeps(k, Find!Pay(k, "byte"))
    BY <1>13, <2>7, PayOK DEF Affordable, Uses
  <2> QED BY <1>11, <2>1, <2>8 DEF Keeps
<1> QED BY <1>17, <1>18

(* The next file, with the limits on sizes.                                *)
LEMMA OpenNextOK ==
  ASSUME SearchConstants, NEW j, JobOK(j), j.pc = "file", j.todo # {},
         content \in [Find!Paths -> Contents],
         stop \in {"no", "cancelled", "deadline"}
  PROVE  JobOK(Find!OpenNext(j)) /\ Keeps(j, Find!OpenNext(j))
<1>1. j \in Job /\ Table(j) /\ j.done <= j.ops BY DEF JobOK
<1>2. j.todo \in SUBSET Found /\ j.scanned \in Nat /\ MaxScanBytes \in Nat BY <1>1, JobTyped
<1>3. PICK f, text : f = Find!First(j.todo) /\ text = content[f.path] OBVIOUS
<1>4. f \in j.todo /\ \A g \in j.todo : f.path <= g.path BY <1>2, <1>3, FirstIsLeast
<1>5. f.path \in Find!Paths BY <1>2, <1>4 DEF Found
<1>6. text \in Seq(Letters) /\ Len(text) \in Nat BY <1>3, <1>5, ContentsMeasured
<1> DEFINE big == f.bytes > MaxFileBytes \/ Len(text) > MaxFileBytes
           much == \/ j.scanned + f.bytes > MaxScanBytes
                   \/ j.scanned + Len(text) > MaxScanBytes
<1>7. CASE big
  <2>1. "size" \in Results \ {"own", "ok"} BY DEF Results
  <2>2. Find!OpenNext(j) = Find!Fail(j, "size") BY <1>3, <1>7 DEF Find!OpenNext
  <2> QED BY <1>1, <2>1, <2>2, FailOK
<1>8. CASE ~big /\ much
  <2>1. "scan" \in Results \ {"own", "ok"} BY DEF Results
  <2>2. Find!OpenNext(j) = Find!Fail(j, "scan") BY <1>3, <1>8 DEF Find!OpenNext
  <2> QED BY <1>1, <2>1, <2>2, FailOK
<1>9. CASE ~big /\ ~much
  <2>1. j.scanned + Len(text) <= MaxScanBytes BY <1>2, <1>6, <1>9
  <2>2. Find!OpenNext(j) = Find!Scan(j, f, text) BY <1>3, <1>9 DEF Find!OpenNext
  <2> QED BY <1>4, <1>6, <2>1, <2>2, ScanOK
<1> QED BY <1>7, <1>8, <1>9

(* A search that ends well found all there is.                             *)
LEMMA FinishOK ==
  ASSUME SearchConstants, NEW j, JobOK(j), j.pc = "file", j.todo = {}
  PROVE  JobOK(Find!Finish(j)) /\ Keeps(j, Find!Finish(j))
<1>1. /\ j \in Job /\ Table(j) /\ j.done <= j.ops /\ Queued(j) /\ InOrder(j)
      /\ Out(j) = Collected(j, Len(j.read))
  BY DEF JobOK
<1>2. CASE Len(j.out) > MaxOutput
  <2>1. "output" \in Results \ {"own", "ok"} BY DEF Results
  <2>2. Find!Finish(j) = Find!Fail(j, "output") BY <1>2 DEF Find!Finish
  <2> QED BY <1>1, <2>1, <2>2, FailOK
<1>3. CASE ~ (Len(j.out) > MaxOutput)
  <2>1. PICK k : k = [j EXCEPT !.pc = "end", !.result = "ok"] OBVIOUS
  <2>2. Find!Finish(j) = k BY <1>3, <2>1 DEF Find!Finish
  <2>3. k \in Job /\ k.pc = "end" /\ k.result = "ok" /\ Alike(j, k) /\ Keeps(j, k)
    BY <1>1, <2>1 DEF Job, Places, Results, Alike, Keeps
  <2>4. Table(k) /\ Queued(k) /\ InOrder(k) /\ Out(k) = Collected(k, Len(j.read))
    BY <1>1, <2>3, AlikeParts
  <2>5. Exact(k)
    <3>1. k.todo = {} /\ k.read = j.read BY <2>3 DEF Alike
    <3>2. {f.path : f \in k.todo} = {} BY <3>1
    <3>3. {k.read[n].path : n \in 1 .. Len(k.read)} = Find!Paths BY <2>4, <3>2 DEF Queued
    <3> QED BY <2>4, <3>1, <3>3 DEF Exact
  <2>6. JobOK(k) BY <1>1, <2>3, <2>4, <2>5 DEF JobOK, Keeps
  <2> QED BY <2>2, <2>3, <2>6
<1> QED BY <1>2, <1>3

(* The own limit of a search never stops it.                               *)
LEMMA StepOK ==
  ASSUME SearchConstants, NEW j, JobOK(j), j.pc = "step", used \in Nat
  PROVE  /\ JobOK(Find!Step(j)) /\ Find!Step(j).done = j.done
         /\ Find!Step(j).nextCheck = j.nextCheck
         /\ Find!Step(j).ops = j.ops + 1
<1>1. /\ j \in Job /\ Table(j) /\ Affordable(j, j.at) /\ j.ops = j.done
      /\ j.result \notin {"own", "ok"}
  BY DEF JobOK
<1>2. PICK v \in Nat, d \in Nat : v = j.ops + 1 /\ d = j.done BY <1>1, JobTyped
<1>3. PICK k : k = [j EXCEPT !.ops = v, !.pc = "charge", !.current = used] OBVIOUS
<1>4. Find!Step(j) = k
  <2>1. [j EXCEPT !.ops = @ + 1] = [j EXCEPT !.ops = v] BY <1>1, <1>2 DEF Job
  <2>2. [j EXCEPT !.ops = v].ops = v BY <1>1 DEF Job
  <2>3. ~ (v > Find!OperationLimit(j))
    <3>1. j.done < Find!OperationLimit(j) /\ Find!OperationLimit(j) \in Nat BY LimitSuffices
    <3> QED BY <1>1, <1>2, <3>1
  <2>4. [[j EXCEPT !.ops = v] EXCEPT !.pc = "charge", !.current = used] = k
    BY <1>1, <1>3 DEF Job
  <2> QED BY <2>1, <2>2, <2>3, <2>4 DEF Find!Step
<1>5. /\ k \in Job /\ k.pc = "charge" /\ k.at = j.at /\ Alike(j, k) /\ k.done = d /\ k.ops = v
      /\ k.nextCheck = j.nextCheck /\ k.result = j.result
  BY <1>1, <1>2, <1>3 DEF Job, Places, Alike
<1>6. Affordable(k, k.at) BY <1>1, <1>2, <1>5, AlikeAffordable
<1>7. Table(k) BY <1>1, <1>5, AlikeParts
<1>8. v = d + 1 /\ d <= v BY <1>1, <1>2
<1>9. JobOK(k) BY <1>1, <1>5, <1>6, <1>7, <1>8 DEF JobOK
<1> QED BY <1>2, <1>4, <1>5, <1>9

(* Another attempt at the exchange.                                        *)
LEMMA RetryOK ==
  ASSUME SearchConstants, NEW j, JobOK(j), j.pc = "charge", used \in Nat
  PROVE  JobOK([j EXCEPT !.current = used]) /\ Keeps(j, [j EXCEPT !.current = used])
<1>1. j \in Job /\ Table(j) /\ Affordable(j, j.at) BY DEF JobOK
<1>2. PICK k : k = [j EXCEPT !.current = used] OBVIOUS
<1>3. /\ k \in Job /\ k.pc = "charge" /\ k.at = j.at /\ Alike(j, k) /\ Keeps(j, k)
      /\ k.result = j.result
  BY <1>1, <1>2 DEF Job, Alike, Keeps
<1>4. Affordable(k, k.at) BY <1>1, <1>3, AlikeAffordable DEF Keeps
<1>5. Table(k) BY <1>1, <1>3, AlikeParts
<1>6. JobOK(k) BY <1>3, <1>4, <1>5 DEF JobOK, Keeps
<1> QED BY <1>2, <1>3, <1>6

(* Setting the time of the next look at the controls.                      *)
LEMMA DelayedOK ==
  ASSUME SearchConstants, NEW j, JobOK(j), j.pc = "charge", NEW n \in Nat, NEW k,
         k = [j EXCEPT !.nextCheck = n]
  PROVE  JobOK(k) /\ k.pc = "charge" /\ k.done = j.done /\ k.ops = j.ops /\ k.nextCheck = n
<1>1. j \in Job /\ Table(j) /\ Affordable(j, j.at) BY DEF JobOK
<1>2. /\ k \in Job /\ k.pc = "charge" /\ k.at = j.at /\ Alike(j, k) /\ k.done = j.done
      /\ k.ops = j.ops
      /\ k.nextCheck = n /\ k.result = j.result
  BY <1>1 DEF Job, Alike
<1>3. Affordable(k, k.at) BY <1>1, <1>2, AlikeAffordable
<1>4. Table(k) BY <1>1, <1>2, AlikeParts
<1> QED BY <1>2, <1>3, <1>4 DEF JobOK

(* What the end of step() may change of the counters.                      *)
Sampled(j, k) ==
  /\ k.ops = j.ops /\ k.done \in {j.done, j.done + 1}
  /\ k.nextCheck = j.nextCheck \/ (stop = "no" /\ k.nextCheck <= j.ops + Interval)
  /\ stop # "no" => k.done = j.done \/ j.ops < j.nextCheck

(* The end of step(): after a stop nothing is done once a look is due.     *)
LEMMA SampleOK ==
  ASSUME SearchConstants, NEW j, JobOK(j), j.pc = "charge",
         stop \in {"no", "cancelled", "deadline"}
  PROVE  JobOK(Find!Sample(j)) /\ Sampled(j, Find!Sample(j))
<1>1. j \in Job /\ Table(j) /\ j.done <= j.ops BY DEF JobOK
<1>2. j.ops \in Nat /\ j.nextCheck \in Nat /\ j.done \in Nat /\ Len(j.query) \in Nat
  BY <1>1, JobTyped
<1>3. CASE ~Find!Due(j)
  <2>1. Find!Sample(j) = Find!Work(j) BY <1>3 DEF Find!Sample
  <2>2. j.ops < j.nextCheck BY <1>2, <1>3 DEF Find!Due
  <2> QED BY <2>1, <2>2, WorkOK DEF Sampled
<1>4. CASE Find!Due(j) /\ stop # "no"
  <2>1. stop \in Results \ {"own", "ok"} BY <1>4 DEF Results
  <2>2. Find!Sample(j) = Find!Fail(j, stop) BY <1>4 DEF Find!Sample
  <2> QED BY <1>1, <2>1, <2>2, FailOK DEF Sampled, Keeps
<1>5. CASE Find!Due(j) /\ stop = "no"
  <2>1. PICK n : n = Find!Least(j.ops + Interval, Find!OperationLimit(j) + 1) OBVIOUS
  <2>2. Find!OperationLimit(j) \in Nat
    <3>1. PICK M \in Nat, N \in Nat, L \in Nat :
            /\ M = Multiplier /\ N = MaxScanBytes /\ L = Len(j.query)
      BY <1>2 DEF SearchConstants
    <3>2. M * N + 2 * L \in Nat OBVIOUS
    <3> QED BY <3>1, <3>2 DEF Find!OperationLimit
  <2>3. n \in Nat /\ n <= j.ops + Interval
    <3>1. Interval \in Nat BY DEF SearchConstants
    <3> QED BY <1>2, <2>1, <2>2, <3>1 DEF Find!Least
  <2>4. PICK k : k = [j EXCEPT !.nextCheck = n] OBVIOUS
  <2>5. JobOK(k) /\ k.pc = "charge" /\ k.done = j.done /\ k.ops = j.ops /\ k.nextCheck = n
    BY <2>3, <2>4, DelayedOK
  <2>6. Find!Sample(j) = Find!Work(k) BY <1>5, <2>1, <2>4 DEF Find!Sample
  <2>7. /\ JobOK(Find!Work(k)) /\ Find!Work(k).done = k.done + 1 /\ Find!Work(k).ops = k.ops
        /\ Find!Work(k).nextCheck = k.nextCheck
    BY <2>5, WorkOK
  <2> QED BY <1>5, <2>3, <2>5, <2>6, <2>7 DEF Sampled
<1> QED BY <1>3, <1>4, <1>5

(* The counters are numbers.                                               *)
LEMMA NoticedTyped ==
  ASSUME SearchConstants, SearchInv, NEW s \in Searches
  PROVE  /\ job[s].done \in Nat /\ job[s].ops \in Nat /\ job[s].nextCheck \in Nat
         /\ stopAt[s] \in Nat
         /\ Interval \in Nat /\ Interval > 0 /\ SharedLimit \in Nat /\ used \in Nat
         /\ JobOK(job[s]) /\ Noticed(s) /\ stop \in {"no", "cancelled", "deadline"}
<1>1. JobOK(job[s]) /\ Noticed(s) /\ stopAt \in [Searches -> Nat] /\ used \in Nat
      /\ stop \in {"no", "cancelled", "deadline"}
  BY DEF SearchInv
<1>2. job[s] \in Job BY <1>1 DEF JobOK
<1>3. job[s].done \in Nat /\ job[s].ops \in Nat /\ job[s].nextCheck \in Nat BY <1>2, JobTyped
<1>4. Interval \in Nat /\ Interval > 0 /\ SharedLimit \in Nat BY DEF SearchConstants
<1> QED BY <1>1, <1>3, <1>4

(* A step of one search that performs no operation.                        *)
LEMMA SteadyStep ==
  ASSUME SearchConstants, SearchInv, NEW s \in Searches, NEW k, JobOK(k), Find!Put(s, k),
         k.done = job[s].done, k.nextCheck = job[s].nextCheck,
         k.ops \in {job[s].ops, job[s].ops + 1},
         UNCHANGED <<used, stop, content, rewrites, stopAt>>
  PROVE  SearchInv'
<1>1. job' = [t \in Searches |-> IF t = s THEN k ELSE job[t]] BY DEF SearchInv, Find!Put
<1>2. \A t \in Searches : job'[t] = IF t = s THEN k ELSE job[t] BY <1>1
<1>3. job' = [t \in Searches |-> job'[t]] BY <1>1
<1>4. \A t \in Searches : job'[t].done = job[t].done BY <1>2
<1>5. Find!Performed' = Find!Performed BY <1>4, Zenon DEF Find!Performed
<1>6. ASSUME NEW t \in Searches PROVE JobOK(job'[t]) /\ Noticed(t)'
  <2>1. JobOK(job'[t]) BY <1>2 DEF SearchInv
  <2>2. Noticed(t) /\ job[t].ops \in Nat /\ job[t].nextCheck \in Nat /\ Interval \in Nat
    BY NoticedTyped
  <2>3. /\ job'[t].nextCheck = job[t].nextCheck /\ job'[t].done = job[t].done
        /\ job'[t].ops \in {job[t].ops, job[t].ops + 1}
    BY <1>2
  <2>4. job[t].nextCheck <= job[t].ops + Interval => job[t].nextCheck <= job'[t].ops + Interval
    BY <2>2, <2>3
  <2> QED BY <2>1, <2>2, <2>3, <2>4 DEF Noticed
<1>7. \A t \in Searches : JobOK(job[t])' BY <1>6 DEF JobOK
<1>8. /\ stop' \in {"no", "cancelled", "deadline"} /\ used' \in Nat
      /\ stopAt' \in [Searches -> Nat]
      /\ content' \in [Find!Paths -> Contents] /\ IsFiniteSet(Find!Performed')
      /\ Find!BudgetHolds'
  BY <1>5, Zenon DEF SearchInv, Find!BudgetHolds
<1> QED BY <1>3, <1>6, <1>7, <1>8 DEF SearchInv

(* One that does not ask for one either.                                   *)
LEMMA KeepingStep ==
  ASSUME SearchConstants, SearchInv, NEW s \in Searches, NEW k, JobOK(k), Find!Put(s, k),
         Keeps(job[s], k),
         UNCHANGED <<used, stop, content, rewrites, stopAt>>
  PROVE  SearchInv'
BY SteadyStep DEF Keeps

(* Begin keeps the invariant.                                              *)
LEMMA BeginOK ==
  ASSUME SearchConstants, SearchInv, NEW s \in Searches, Find!Begin(s)
  PROVE  SearchInv'
<1>1. JobOK(job[s]) /\ stop \in {"no", "cancelled", "deadline"} BY NoticedTyped
<1>2. JobOK(Find!Start(job[s])) /\ Keeps(job[s], Find!Start(job[s]))
  BY <1>1, StartOK DEF Find!Begin
<1> QED BY <1>2, KeepingStep DEF Find!Begin

(* StepLocal keeps it.                                                     *)
LEMMA StepLocalOK ==
  ASSUME SearchConstants, SearchInv, NEW s \in Searches, Find!StepLocal(s)
  PROVE  SearchInv'
<1>1. JobOK(job[s]) /\ used \in Nat BY NoticedTyped
<1>2. PICK k : k = Find!Step(job[s]) OBVIOUS
<1>3. /\ JobOK(k) /\ k.done = job[s].done /\ k.nextCheck = job[s].nextCheck
      /\ k.ops = job[s].ops + 1
  BY <1>1, <1>2, StepOK DEF Find!StepLocal
<1> QED BY <1>2, <1>3, SteadyStep DEF Find!StepLocal

(* Exhausted keeps it.                                                     *)
LEMMA ExhaustedOK ==
  ASSUME SearchConstants, SearchInv, NEW s \in Searches, Find!Exhausted(s)
  PROVE  SearchInv'
<1>1. JobOK(job[s]) /\ stop \in {"no", "cancelled", "deadline"} BY NoticedTyped
<1>2. PICK w : w = IF stop = "no" THEN "shared" ELSE stop OBVIOUS
<1>3. w \in Results \ {"own", "ok"} BY <1>1, <1>2 DEF Results
<1>4. job[s] \in Job /\ Table(job[s]) /\ job[s].done <= job[s].ops BY <1>1 DEF JobOK
<1>5. JobOK(Find!Fail(job[s], w)) /\ Keeps(job[s], Find!Fail(job[s], w)) BY <1>3, <1>4, FailOK
<1> QED BY <1>2, <1>5, KeepingStep DEF Find!Exhausted

(* Retry keeps it.                                                         *)
LEMMA RetriedOK ==
  ASSUME SearchConstants, SearchInv, NEW s \in Searches, Find!Retry(s)
  PROVE  SearchInv'
<1>1. JobOK(job[s]) /\ used \in Nat BY NoticedTyped
<1>2. PICK k : k = [job[s] EXCEPT !.current = used] OBVIOUS
<1>3. JobOK(k) /\ Keeps(job[s], k) BY <1>1, <1>2, RetryOK DEF Find!Retry
<1> QED BY <1>2, <1>3, KeepingStep DEF Find!Retry

(* Walk keeps it.                                                          *)
LEMMA WalkOK ==
  ASSUME SearchConstants, SearchInv, NEW s \in Searches, Find!Walk(s)
  PROVE  SearchInv'
<1>1. JobOK(job[s]) /\ stop \in {"no", "cancelled", "deadline"} /\ job[s].pc = "walk"
  BY NoticedTyped DEF Find!Walk
<1>2. content \in [Find!Paths -> Contents] BY DEF SearchInv
<1>3. PICK k : k = IF job[s].visited < Len(Tree) THEN Find!WalkEntry(job[s])
                   ELSE [job[s] EXCEPT !.pc = "file"]
  OBVIOUS
<1>4. JobOK(k) /\ Keeps(job[s], k)
  <2>1. CASE job[s].visited < Len(Tree) BY <1>1, <1>2, <1>3, <2>1, WalkEntryOK
  <2>2. CASE ~ (job[s].visited < Len(Tree)) BY <1>1, <1>3, <2>2, WalkEndOK
  <2> QED BY <2>1, <2>2
<1>5. JobOK(Find!CheckNow(k)) /\ Keeps(job[s], Find!CheckNow(k))
  BY <1>1, <1>4, CheckNowOK DEF Keeps
<1> QED BY <1>3, <1>5, KeepingStep DEF Find!Walk

(* NextFile keeps it.                                                      *)
LEMMA NextFileOK ==
  ASSUME SearchConstants, SearchInv, NEW s \in Searches, Find!NextFile(s)
  PROVE  SearchInv'
<1>1. JobOK(job[s]) /\ stop \in {"no", "cancelled", "deadline"} /\ job[s].pc = "file"
  BY NoticedTyped DEF Find!NextFile
<1>2. content \in [Find!Paths -> Contents] BY DEF SearchInv
<1>3. PICK k : k = IF job[s].todo = {} THEN Find!Finish(job[s]) ELSE Find!OpenNext(job[s])
  OBVIOUS
<1>4. JobOK(k) /\ Keeps(job[s], k) BY <1>1, <1>2, <1>3, FinishOK, OpenNextOK
<1>5. JobOK(Find!CheckNow(k)) /\ Keeps(job[s], Find!CheckNow(k))
  BY <1>1, <1>4, CheckNowOK DEF Keeps
<1> QED BY <1>3, <1>5, KeepingStep DEF Find!NextFile

(* Unreadable keeps it.                                                    *)
LEMMA UnreadableOK ==
  ASSUME SearchConstants, SearchInv, NEW s \in Searches, Find!Unreadable(s)
  PROVE  SearchInv'
<1>1. JobOK(job[s]) /\ stop \in {"no", "cancelled", "deadline"} BY NoticedTyped
<1>2. PICK k : k = Find!Fail(job[s], "io") OBVIOUS
<1>3. "io" \in Results \ {"own", "ok"} BY DEF Results
<1>4. job[s] \in Job /\ Table(job[s]) /\ job[s].done <= job[s].ops BY <1>1 DEF JobOK
<1>5. JobOK(k) /\ Keeps(job[s], k) BY <1>2, <1>3, <1>4, FailOK
<1>6. JobOK(Find!CheckNow(k)) /\ Keeps(job[s], Find!CheckNow(k))
  BY <1>1, <1>5, CheckNowOK DEF Keeps
<1> QED BY <1>2, <1>6, KeepingStep DEF Find!Unreadable

(* Consume keeps it: the shared counter grows by one and at most one       *)
(* operation is performed.                                                 *)
LEMMA ConsumeOK ==
  ASSUME SearchConstants, SearchInv, NEW s \in Searches, Find!Consume(s)
  PROVE  SearchInv'
<1>1. /\ JobOK(job[s]) /\ stop \in {"no", "cancelled", "deadline"} /\ job[s].pc = "charge"
      /\ job[s].current < SharedLimit /\ job[s].current = used /\ used \in Nat
      /\ SharedLimit \in Nat
  BY NoticedTyped DEF Find!Consume, Find!MayExchange
<1>2. PICK k : k = Find!Sample(job[s]) OBVIOUS
<1>3. JobOK(k) /\ Sampled(job[s], k) BY <1>1, <1>2, SampleOK
<1>4. used' = used + 1 /\ used' <= SharedLimit /\ used' \in Nat BY <1>1 DEF Find!Consume
<1>5. job' = [t \in Searches |-> IF t = s THEN k ELSE job[t]]
  BY <1>2 DEF SearchInv, Find!Put, Find!Consume
<1>6. \A t \in Searches : job'[t] = IF t = s THEN k ELSE job[t] BY <1>5
<1>7. job' = [t \in Searches |-> job'[t]] BY <1>5
<1>8. PICK d \in Nat : d = job[s].done BY NoticedTyped
<1>9. IsFiniteSet(Find!Performed') /\ Cardinality(Find!Performed') <= used'
  <2>1. IsFiniteSet(Find!Performed) /\ Cardinality(Find!Performed) <= used
    BY Zenon DEF SearchInv, Find!BudgetHolds, Find!Cardinality, Cardinality
  <2>2. CASE k.done = d
    <3>1. \A t \in Searches : job'[t].done = job[t].done BY <1>6, <1>8, <2>2
    <3>2. Find!Performed' = Find!Performed BY <3>1, Zenon DEF Find!Performed
    <3>3. Cardinality(Find!Performed) \in Nat BY <2>1, FS_CardinalityType
    <3> QED BY <1>1, <1>4, <2>1, <3>2, <3>3
  <2>3. CASE k.done = d + 1
    <3>1. 1 .. d + 1 = (1 .. d) \cup {d + 1} BY <1>8
    <3>2. Find!Performed' = Find!Performed \cup {<<s, d + 1>>}
      BY <1>6, <1>8, <2>3, <3>1 DEF Find!Performed
    <3>3. /\ IsFiniteSet(Find!Performed \cup {<<s, d + 1>>})
          /\ \/ Cardinality(Find!Performed \cup {<<s, d + 1>>}) = Cardinality(Find!Performed)
             \/ Cardinality(Find!Performed \cup {<<s, d + 1>>}) = Cardinality(Find!Performed) + 1
      BY <2>1, FS_AddElement
    <3>4. Cardinality(Find!Performed) \in Nat BY <2>1, FS_CardinalityType
    <3> QED BY <1>1, <1>4, <2>1, <3>2, <3>3, <3>4
  <2> QED BY <1>3, <1>8, <2>2, <2>3 DEF Sampled
<1>10. ASSUME NEW t \in Searches PROVE JobOK(job'[t]) /\ Noticed(t)'
  <2>1. Noticed(t) /\ JobOK(job[t]) BY NoticedTyped
  <2>2. stop' = stop /\ stopAt' = stopAt BY DEF Find!Consume
  <2>3. CASE t # s BY <1>6, <2>1, <2>2, <2>3 DEF Noticed
  <2>4. CASE t = s
    <3>1. PICK o \in Nat, c \in Nat, z \in Nat, I \in Nat :
            o = job[s].ops /\ c = job[s].nextCheck /\ z = stopAt[s] /\ I = Interval
      BY NoticedTyped
    <3>2. o = d + 1 BY <1>1, <1>8, <3>1 DEF JobOK
    <3>3. /\ k.ops = o /\ k.done \in {d, d + 1}
          /\ k.nextCheck = c \/ (stop = "no" /\ k.nextCheck <= o + I)
          /\ stop # "no" => k.done = d \/ o < c
      BY <1>3, <1>8, <3>1 DEF Sampled
    <3>4. (stop = "no" => c <= o + I) /\ (stop # "no" => c <= z + I /\ d < z + I)
      BY <1>8, <2>1, <2>4, <3>1 DEF Noticed
    <3>5. /\ stop = "no" => k.nextCheck <= o + I
          /\ stop # "no" => k.nextCheck <= z + I /\ k.done < z + I
      BY <3>2, <3>3, <3>4
    <3> QED BY <1>3, <1>6, <2>2, <2>4, <3>1, <3>3, <3>5 DEF Noticed
  <2> QED BY <2>3, <2>4
<1>11. \A t \in Searches : JobOK(job[t])' BY <1>10 DEF JobOK
<1>12. /\ stop' \in {"no", "cancelled", "deadline"} /\ stopAt' \in [Searches -> Nat]
       /\ content' \in [Find!Paths -> Contents]
  BY DEF SearchInv, Find!Consume
<1>13. Find!BudgetHolds'
  BY <1>4, <1>9, Zenon DEF Find!BudgetHolds, Find!Cardinality, Cardinality
<1> QED BY <1>4, <1>7, <1>9, <1>10, <1>11, <1>12, <1>13 DEF SearchInv

(* Stop keeps it.                                                          *)
LEMMA StopOK ==
  ASSUME SearchConstants, SearchInv, NEW why \in {"cancelled", "deadline"}, Find!Stop(why)
  PROVE  SearchInv'
<1>1. job' = job /\ used' = used /\ content' = content /\ stop = "no" /\ stop' = why
  BY DEF Find!Stop
<1>2. \A s \in Searches : job[s].ops \in Nat BY NoticedTyped
<1>3. stopAt' = [s \in Searches |-> job[s].ops] /\ stopAt' \in [Searches -> Nat]
  BY <1>2 DEF Find!Stop
<1>4. Find!Performed' = Find!Performed BY <1>1, Zenon DEF Find!Performed
<1>5. ASSUME NEW s \in Searches PROVE Noticed(s)'
  <2>1. PICK o \in Nat, c \in Nat, d \in Nat, I \in Nat :
          o = job[s].ops /\ c = job[s].nextCheck /\ d = job[s].done /\ I = Interval /\ I > 0
    BY NoticedTyped
  <2>2. c <= o + I BY <1>1, <2>1, NoticedTyped DEF Noticed
  <2>3. d <= o BY <2>1, NoticedTyped DEF JobOK
  <2>4. d < o + I BY <2>1, <2>3
  <2>5. stopAt'[s] = o BY <1>3, <2>1
  <2> QED BY <1>1, <2>1, <2>2, <2>4, <2>5 DEF Noticed
<1>6. \A s \in Searches : JobOK(job[s])' BY <1>1 DEF SearchInv, JobOK
<1> QED BY <1>1, <1>3, <1>4, <1>5, <1>6 DEF SearchInv, Find!BudgetHolds

(* The writes of other programs keep it.                                   *)
LEMMA RewriteOK ==
  ASSUME SearchConstants, SearchInv, NEW p \in Find!Paths, NEW text \in Contents,
         Find!OtherPrograms(p, text)
  PROVE  SearchInv'
<1>1. job' = job /\ used' = used /\ stop' = stop /\ stopAt' = stopAt BY DEF Find!OtherPrograms
<1>2. content' \in [Find!Paths -> Contents] BY DEF Find!OtherPrograms, SearchInv
<1>3. Find!Performed' = Find!Performed BY <1>1, Zenon DEF Find!Performed
<1>4. \A s \in Searches : JobOK(job[s])' /\ Noticed(s)' BY <1>1 DEF SearchInv, JobOK, Noticed
<1> QED BY <1>1, <1>2, <1>3, <1>4 DEF SearchInv, Find!BudgetHolds

(* A new search satisfies it.                                              *)
LEMMA NewJobOK ==
  ASSUME SearchConstants, NEW q \in Queries
  PROVE  /\ JobOK(Find!NewJob(q)) /\ Find!NewJob(q).done = 0 /\ Find!NewJob(q).ops = 0
         /\ Find!NewJob(q).nextCheck = 0
<1>1. PICK j : j = Find!NewJob(q) OBVIOUS
<1>2. q \in Seq(Letters) /\ q # << >> BY DEF SearchConstants
<1>3. PICK L \in Nat : L = Len(q) /\ L > 0 BY <1>2, EmptySeq
<1>4. PICK p : p = [n \in 1 .. L |-> 0] OBVIOUS
<1>5. p \in Seq(Nat) /\ Len(p) = L /\ \A n \in 1 .. L : p[n] = 0 BY <1>4
<1>6. << >> \in Seq(Letters) /\ << >> \in Seq(Matches) /\ << >> \in Seq(Reads) BY EmptySeq
<1>7. /\ j.pc = "start" /\ j.query = q /\ j.prefix = p /\ j.index = 1 /\ j.matched = 0
      /\ j.visited = 0
      /\ j.todo = {} /\ j.out = << >> /\ j.read = << >> /\ j.ops = 0 /\ j.nextCheck = 0
      /\ j.scanned = 0
      /\ j.result = "none" /\ j.done = 0
  BY <1>1, <1>3, <1>4 DEF Find!NewJob
<1>8. j \in Job
  <2>1. "start" \in Places /\ "prefix" \in Uses /\ "none" \in Results
    BY DEF Places, Uses, Results
  <2>2. j = [pc |-> "start", at |-> "prefix", query |-> q,
             prefix |-> p, index |-> 1, matched |-> 0,
             visited |-> 0, todo |-> {}, path |-> 0, text |-> << >>, offset |-> 0,
             cursor |-> 0, line |-> 1, lineStart |-> 0, out |-> << >>, ops |-> 0,
             nextCheck |-> 0, scanned |-> 0, current |-> 0, result |-> "none",
             read |-> << >>, done |-> 0]
    BY <1>1, <1>3, <1>4 DEF Find!NewJob
  <2>3. {} \in SUBSET Found OBVIOUS
  <2> QED BY <1>5, <1>6, <2>1, <2>2, <2>3 DEF Job
<1>9. Table(j)
  <2>1. Longest(q, 1, 0) BY DEF Longest, Ends
  <2>2. \A n \in 1 .. 1 : n = 1 OBVIOUS
  <2>3. p[1] = 0 BY <1>3, <1>5
  <2>4. \A n \in 1 .. 1 : Longest(q, n, p[n]) BY <2>1, <2>2, <2>3
  <2>5. \A n \in 1 + 1 .. L : p[n] = 0 BY <1>5
  <2>6. 1 <= L BY <1>3
  <2> QED BY <1>3, <1>5, <1>7, <2>4, <2>5, <2>6 DEF Table, TableOf
<1>10. Building(j, 0)
  <2>1. Candidate(q, 0, q, 1, 1 - 1) BY DEF Candidate, Ends
  <2> QED BY <1>7, <2>1 DEF Building
<1>11. Walked(j)
  <2>1. Len(Tree) \in Nat BY LenProperties DEF SearchConstants
  <2>2. {Tree[n].path : n \in {n \in 1 .. 0 : Tree[n].kind = "file"}} = {} OBVIOUS
  <2>3. {f.path : f \in {}} = {} OBVIOUS
  <2>4. 0 <= Len(Tree) BY <2>1
  <2> QED BY <1>7, <2>2, <2>3, <2>4 DEF Walked, Distinct
<1> QED BY <1>1, <1>7, <1>8, <1>9, <1>10, <1>11 DEF JobOK

(* It holds in the beginning.                                              *)
LEMMA SearchStart ==
  ASSUME SearchConstants, Find!Init
  PROVE  SearchInv
<1>1. PICK q \in [Searches -> Queries] : job = [s \in Searches |-> Find!NewJob(q[s])]
  BY DEF Find!Init
<1>2. ASSUME NEW s \in Searches
      PROVE  JobOK(job[s]) /\ job[s].done = 0 /\ job[s].ops = 0 /\ job[s].nextCheck = 0
  <2>1. job[s] = Find!NewJob(q[s]) /\ q[s] \in Queries BY <1>1
  <2> QED BY <2>1, NewJobOK
<1>3. job = [s \in Searches |-> job[s]] BY <1>1
<1>4. Interval \in Nat /\ SharedLimit \in Nat BY DEF SearchConstants
<1>5. \A s \in Searches : Noticed(s) BY <1>2, <1>4 DEF Noticed, Find!Init
<1>6. Find!Performed = {}
  <2>1. 1 .. 0 = {} OBVIOUS
  <2>2. \A s \in Searches : 1 .. job[s].done = {} BY <1>2, <2>1
  <2> QED BY <2>2 DEF Find!Performed
<1>7. IsFiniteSet(Find!Performed) /\ Cardinality(Find!Performed) = 0 BY <1>6, FS_EmptySet
<1>8. Find!BudgetHolds
  <2>1. Cardinality(Find!Performed) <= used /\ used <= SharedLimit BY <1>4, <1>7 DEF Find!Init
  <2> QED BY <2>1, Zenon DEF Find!BudgetHolds, Find!Cardinality, Cardinality
<1> QED BY <1>2, <1>3, <1>5, <1>7, <1>8 DEF SearchInv, Find!Init

(* The invariant of WorkspaceSearch is inductive.                          *)
LEMMA SearchStep ==
  ASSUME SearchConstants, SearchInv, [Find!Next]_(Find!vars)
  PROVE  SearchInv'
<1>1. ASSUME NEW s \in Searches, Find!Search(s) PROVE SearchInv'
  BY <1>1, BeginOK, StepLocalOK, ExhaustedOK, ConsumeOK, RetriedOK, WalkOK, NextFileOK,
      UnreadableOK DEF Find!Search
<1>2. ASSUME NEW why \in {"cancelled", "deadline"}, Find!Stop(why) PROVE SearchInv'
  BY <1>2, StopOK
<1>3. ASSUME NEW p \in Find!Paths, NEW text \in Contents, Find!OtherPrograms(p, text)
      PROVE  SearchInv'
  BY <1>3, RewriteOK
<1>4. CASE UNCHANGED Find!vars
  <2>1. job' = job /\ used' = used /\ stop' = stop /\ stopAt' = stopAt /\ content' = content
    BY <1>4 DEF Find!vars
  <2>2. Find!Performed' = Find!Performed BY <2>1, Zenon DEF Find!Performed
  <2>3. \A s \in Searches : JobOK(job[s])' /\ Noticed(s)' BY <2>1 DEF SearchInv, JobOK, Noticed
  <2> QED BY <2>1, <2>2, <2>3 DEF SearchInv, Find!BudgetHolds
<1> QED BY <1>1, <1>2, <1>3, <1>4 DEF Find!Next

(* It implies the bounds.                                                  *)
LEMMA InvGivesBounds ==
  ASSUME SearchInv
  PROVE  Find!SearchBounded
BY DEF SearchInv, Find!SearchBounded, Find!OwnLimitSuffices, Find!StopIsNoticed, JobOK, Noticed

(* It implies the exactness of the matches.                                *)
LEMMA InvGivesExact ==
  ASSUME SearchInv
  PROVE  Find!MatchesExact
<1>1. ASSUME NEW s \in Searches, job[s].result = "ok"
      PROVE  LET j == job[s] IN
              /\ {j.read[n].path : n \in 1 .. Len(j.read)} = Find!Paths
              /\ {j.out[n] : n \in 1 .. Len(j.out)} =
                   UNION {Find!Occurrences(j.read[n], j.query) : n \in 1 .. Len(j.read)}
              /\ \A m, n \in 1 .. Len(j.out) : m < n => Find!Before(j.out[m], j.out[n])
  <2>1. Exact(job[s]) BY <1>1 DEF SearchInv, JobOK
  <2> QED BY <2>1, Zenon DEF Exact, Out, Collected, InOrder
<1> QED BY <1>1, Zenon DEF Find!MatchesExact

(* Searches of a turn, however many and however they interleave, perform   *)
(* no more operations than the shared budget; none is stopped by its own   *)
(* limit; and after a stop each performs fewer than Interval further ones  *)
(* (SearchOperationBudget::try_consume, derived_search_operation_limit,    *)
(* SearchProgress::step).                                                  *)
THEOREM SearchesStayBounded == SearchConstants => (Find!Spec => []SearchBounded)
<1>1. SearchConstants /\ Find!Init => SearchInv BY SearchStart
<1>2. SearchConstants /\ SearchInv /\ [Find!Next]_(Find!vars) => SearchInv' BY SearchStep
<1>3. SearchInv => SearchBounded BY InvGivesBounds DEF SearchBounded
<1>4. SearchConstants => SearchConstants' BY DEF SearchConstants
<1> QED BY <1>1, <1>2, <1>3, <1>4, PTL DEF Find!Spec

(* A search that succeeds read every file of the tree and reports exactly  *)
(* the occurrences of its query, overlapping ones too, with line and       *)
(* column and in order, for every query, tree and text and whatever other  *)
(* programs write meanwhile (LiteralMatcher::new and collect,              *)
(* search_with_control).                                                   *)
THEOREM MatchesAreExact == SearchConstants => (Find!Spec => []MatchesExact)
<1>1. SearchConstants /\ Find!Init => SearchInv BY SearchStart
<1>2. SearchConstants /\ SearchInv /\ [Find!Next]_(Find!vars) => SearchInv' BY SearchStep
<1>3. SearchInv => MatchesExact BY InvGivesExact DEF MatchesExact
<1>4. SearchConstants => SearchConstants' BY DEF SearchConstants
<1> QED BY <1>1, <1>2, <1>3, <1>4, PTL DEF Find!Spec

=============================================================================
