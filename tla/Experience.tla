------------------------------ MODULE Experience ----------------------------
(***************************************************************************)
(* The experience service (platform/experience): StoreSpec, ValidateSpec   *)
(* and ResolveSpec over the scope-keyed store and the grants of the        *)
(* entitlements service, and Negotiate, with which a binary decides what   *)
(* it can show of the spec it was served.                                  *)
(*                                                                         *)
(* A builder validates and stores, the entitlements service changes what   *)
(* a role and form factor of a scope are granted, devices resolve and show *)
(* what they hold: nothing ties these steps together.  Content hashes and  *)
(* provenance stamps are data.                                             *)
(***************************************************************************)
EXTENDS Integers, Sequences, FiniteSets, SequencesExt

CONSTANTS Scopes,      \* principals' {tenant, org}
          Audiences,   \* role and form factor a device asks for
          Anybody,     \* the audience with neither
          Ids,         \* app_def_id
          Surfaces,
          Specs,       \* what builders send: records of refs, policy, floor and nav
          Binaries,    \* records of version and known surfaces
          Devices,
          maxPrimarySlots,
          MaxWrites

VARIABLES
  defs,       \* memorySpecStore.defs
  grants,     \* what the entitlements service grants each audience of a scope
  validated,  \* the specs a builder was told are valid, and under which grants
  sent,       \* what each scope last stored under an id
  device,     \* what each device was served and made of it
  writes

vars == <<defs, grants, validated, sent, device, writes>>

Nothing == [none |-> TRUE]

----------------------------------------------------------------------------
(* Versions, a sequence of release numbers; -1 is a component that does not parse *)

\* A component that is missing or does not parse counts as 0.
componentAt(parts, i) == IF i \in DOMAIN parts /\ parts[i] >= 0 THEN parts[i] ELSE 0

\* compareVersions(a, b) < 0: smaller at the first place where they differ.
Below(a, b) ==
  \E i \in 1..(Len(a) + Len(b)) :
    /\ componentAt(a, i) < componentAt(b, i)
    /\ \A j \in 1..(i - 1) : componentAt(a, j) = componentAt(b, j)

----------------------------------------------------------------------------
(* Negotiate *)

Blocking_Listed(policy) == policy = "block"
Blocking(policy) == policy \notin {"ignore", "degrade"}

\* The references up to the first unknown one that blocks.
Walked(spec, known) ==
  LET unknown == {i \in DOMAIN spec.refs : spec.refs[i] \notin known}
  IN  IF Blocking(spec.policy) /\ unknown # {}
        THEN SubSeq(spec.refs, 1, (CHOOSE i \in unknown : \A j \in unknown : i <= j) - 1)
        ELSE spec.refs

Negotiate(spec, known, version) ==
  IF spec.floor # <<>> /\ Below(version, spec.floor)
    THEN [blocked |-> TRUE, rendered |-> {}, dropped |-> {}, degraded |-> {}]
    ELSE LET walked == ToSet(Walked(spec, known)) IN
         [blocked  |-> walked # ToSet(spec.refs),
          rendered |-> walked \cap known,
          dropped  |-> IF spec.policy = "ignore" THEN walked \ known ELSE {},
          degraded |-> IF spec.policy = "degrade" THEN walked \ known ELSE {}]

----------------------------------------------------------------------------
(* ValidateNavGraph and ValidateSpec *)

Endpoints(nav) == UNION {{e[1], e[2]} : e \in nav.edges} \ {""}

\* A slot is a surface and whether its place is primary.
Coherent(nav, entitled) ==
  LET placed == {x[1] : x \in ToSet(nav.slots)} IN
  /\ Len(SelectSeq(nav.slots, LAMBDA x : x[2])) <= maxPrimarySlots
  /\ nav.landing # "" => nav.landing \in placed
  /\ Endpoints(nav) \subseteq placed
  /\ placed \subseteq entitled

\* The spec's own floor is the version, the granted surfaces the manifest.
Valid(spec, entitled) ==
  Coherent(spec.nav, entitled) /\ ~Negotiate(spec, entitled, spec.floor).blocked

----------------------------------------------------------------------------
TypeOK ==
  /\ \A k \in DOMAIN defs : defs[k] # Nothing => defs[k].scope \in Scopes
  /\ grants \in [Scopes -> [Audiences -> SUBSET Surfaces]]
  /\ \A d \in Devices : device[d] # Nothing => device[d].scope \in Scopes
  /\ writes \in 0..MaxWrites

storeKey(s, a) == <<s, a>>

\* At first the audiences of a scope are granted the same.
Init ==
  /\ defs = [k \in Scopes \X Ids |-> Nothing]
  /\ \E g \in [Scopes -> SUBSET Surfaces] :
       grants = [s \in Scopes |-> [r \in Audiences |-> g[s]]]
  /\ validated = {}
  /\ sent = [k \in Scopes \X Ids |-> Nothing]
  /\ device = [d \in Devices |-> Nothing]
  /\ writes = 0

\* The entitlements service, on its own.
ChangeGrants(s, r) ==
  /\ writes < MaxWrites
  /\ writes' = writes + 1
  /\ \E g \in SUBSET Surfaces : grants' = [grants EXCEPT ![s][r] = g]
  /\ UNCHANGED <<defs, validated, sent, device>>

\* The scope is the principal's, whatever the body says.
StoreSpec(s, a, spec) ==
  /\ writes < MaxWrites
  /\ writes' = writes + 1
  /\ defs' = [defs EXCEPT ![storeKey(s, a)] = [scope |-> s, spec |-> spec]]
  /\ sent' = [sent EXCEPT ![<<s, a>>] = spec]
  /\ UNCHANGED <<grants, validated, device>>

\* Changes nothing; what it answered is remembered by the builder. The tuple is
\* asked for without a role and a form factor.
ValidateSpec(s, spec) ==
  /\ Valid(spec, grants[s][Anybody])
  /\ validated' = validated \cup {<<spec, grants[s][Anybody]>>}
  /\ UNCHANGED <<defs, grants, sent, device, writes>>

Resolve_KeepsAll(spec, granted) ==
  [spec |-> spec, locked |-> ToSet(spec.refs) \ granted]
\* Resolve: the granted references stay, the others are locked.
Resolve(spec, granted) ==
  [spec |-> [spec EXCEPT !.refs = SelectSeq(@, LAMBDA x : x \in granted)],
   locked |-> ToSet(spec.refs) \ granted]

\* A store miss and a spec of another scope are refused alike; what is granted
\* depends on the role and form factor asked for.  The device that gets an
\* answer negotiates it.
ResolveSpec(d, s, r, a, b) ==
  LET def == defs[storeKey(s, a)] IN
  /\ def # Nothing /\ def.scope = s
  /\ LET res == Resolve(def.spec, grants[s][r]) IN
     device' = [device EXCEPT ![d] =
       [scope |-> s, binary |-> b, locked |-> res.locked, nav |-> res.spec.nav,
        shown |-> Negotiate(res.spec, b.known, b.version),
        asked |-> sent[<<s, a>>], granted |-> grants[s][r]]]
  /\ UNCHANGED <<defs, grants, validated, sent, writes>>

Next ==
  \/ \E s \in Scopes, r \in Audiences : ChangeGrants(s, r)
  \/ \E s \in Scopes, a \in Ids, spec \in Specs : StoreSpec(s, a, spec)
  \/ \E s \in Scopes, spec \in Specs : ValidateSpec(s, spec)
  \/ \E d \in Devices, s \in Scopes, r \in Audiences, a \in Ids, b \in Binaries :
       ResolveSpec(d, s, r, a, b)

Spec == Init /\ [][Next]_vars

----------------------------------------------------------------------------
(* Properties *)

\* What a device shows is accounted for by the spec its own scope stored last and by
\* what its audience was granted when it asked.  Unless it is blocked, every
\* surface the spec refers to is rendered, degraded, dropped or locked, exactly
\* one of the four, and locked exactly if it was not granted.
SurfacesAccounted ==
  \A d \in Devices : device[d] # Nothing =>
    LET x == device[d]
        parts == <<x.shown.rendered, x.shown.degraded, x.shown.dropped, x.locked>>
    IN  /\ x.locked = ToSet(x.asked.refs) \ x.granted
        /\ UNION ToSet(parts) \subseteq ToSet(x.asked.refs)
        /\ \A i, j \in 1..4 : i < j => parts[i] \cap parts[j] = {}
        /\ ~x.shown.blocked => UNION ToSet(parts) = ToSet(x.asked.refs)
        /\ x.shown.rendered \subseteq x.granted \cap x.binary.known

\* What ValidateSpec tells a builder holds on the devices as far as it can.  A spec
\* found valid blocks no binary that is at its floor and knows the surfaces it was
\* checked against, for whatever audience it is resolved; and its whole navigation
\* is granted to an audience that is granted those surfaces.  An audience that is
\* granted less is promised nothing: ValidateSpec looks at the grants without a
\* role and a form factor, ResolveSpec at those with them.
ValidationHolds ==
  \A d \in Devices : device[d] # Nothing =>
    LET x == device[d] IN
    \A v \in validated : v[1] = x.asked =>
      /\ v[2] \subseteq x.granted =>
           {y[1] : y \in ToSet(x.nav.slots)} \cup Endpoints(x.nav) \subseteq x.granted
      /\ (v[2] \subseteq x.binary.known /\ ~Below(x.binary.version, x.asked.floor))
           => ~x.shown.blocked
============================================================================
