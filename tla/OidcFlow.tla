------------------------------ MODULE OidcFlow ------------------------------
(***************************************************************************)
(* The relying-party primitives of platform/oidcrp for one identity        *)
(* provider: the signed state, the in-flight record popped once, the cache *)
(* of discovered providers with its singleflight, the cache of verifiers,  *)
(* and the exchange that checks the ID token and its nonce.                *)
(*                                                                         *)
(* The package ships no handler: Start and Callback follow its doc.go, and *)
(* a callback whose token the verifier cannot check invalidates both       *)
(* caches, one after the other, as the comments on the caches ask.  (No    *)
(* caller in the repository does: what the properties say of the caches    *)
(* holds of a caller that follows those comments.)  A provider, a verifier *)
(* and a token are told apart by the revision of the identity provider     *)
(* they come from.                                                         *)
(***************************************************************************)
EXTENDS Integers

CONSTANTS Flows,        \* nonces: a login's state, in-flight key and nonce
          Handlers,     \* concurrent callbacks
          MaxRevisions  \* bound on the provider's rotations

VARIABLES
  idp,      \* the revision the identity provider is at
  signed,   \* flows whose signed state is younger than maxAge
  inflight, \* InMemoryInFlightStore: "none", "live" or "expired"
  prov,     \* ProviderCache: the revision held, 0 for none
  verif,    \* VerifierCache: likewise
  sf,       \* the singleflight: who waits, and the revision its leader discovered
  call,     \* what each callback is doing
  popped    \* how often a callback took each flow's record

vars == <<idp, signed, inflight, prov, verif, sf, call, popped>>

Revisions == 1..MaxRevisions
NoFlight == [waiting |-> {}, found |-> 0]
Idle == [at |-> "idle"]
Running == {h \in Handlers : call[h].at \notin {"idle", "invalidate", "invalidate verifier"}}

TypeOK ==
  /\ idp \in Revisions
  /\ signed \subseteq Flows
  /\ inflight \in [Flows -> {"none", "live", "expired"}]
  /\ {prov, verif} \subseteq 0..MaxRevisions
  /\ sf \in [waiting : SUBSET Handlers, found : 0..MaxRevisions]
  /\ \A h \in Handlers : call[h].at \in {"idle", "provider", "flight", "verifier", "exchange", "invalidate",
                                       "invalidate verifier"}

Init ==
  /\ idp = 1
  /\ signed = {}
  /\ inflight = [f \in Flows |-> "none"]
  /\ prov = 0 /\ verif = 0
  /\ sf = NoFlight
  /\ call = [h \in Handlers |-> Idle]
  /\ popped = [f \in Flows |-> 0]

\* SignState and InFlightStore.Put, before the redirect of BuildAuthURL.  Nonces
\* are random: a model value stands for a new one when nothing holds the old.
Start(f) ==
  /\ f \notin signed
  /\ \A h \in Running : call[h].flow # f
  /\ signed' = signed \cup {f}
  /\ inflight' = [inflight EXCEPT ![f] = "live"]
  /\ popped' = [popped EXCEPT ![f] = 0]
  /\ UNCHANGED <<idp, prov, verif, sf, call>>

\* Time passes: a record outlives its ttl ...
RecordAges(f) ==
  /\ inflight[f] = "live"
  /\ inflight' = [inflight EXCEPT ![f] = "expired"]
  /\ UNCHANGED <<idp, signed, prov, verif, sf, call, popped>>

\* ... and a state its maxAge, after which VerifyState refuses it.
StateAges(f) ==
  /\ f \in signed
  /\ signed' = signed \ {f}
  /\ UNCHANGED <<idp, inflight, prov, verif, sf, call, popped>>

Rotate ==
  /\ idp < MaxRevisions
  /\ idp' = idp + 1
  /\ UNCHANGED <<signed, inflight, prov, verif, sf, call, popped>>

Popped_KeepsRecord(f) == inflight

\* Pop deletes the record before it looks at its age.
Popped(f) == [inflight EXCEPT ![f] = "none"]

\* VerifyState, then Pop.
Callback(h, f) ==
  /\ call[h] = Idle /\ f \in signed /\ inflight[f] # "none"
  /\ inflight' = Popped(f)
  /\ IF inflight[f] = "live"
       THEN /\ call' = [call EXCEPT ![h] = [at |-> "provider", flow |-> f]]
            /\ popped' = [popped EXCEPT ![f] = @ + 1]
       ELSE UNCHANGED <<call, popped>>
  /\ UNCHANGED <<idp, signed, prov, verif, sf>>

\* ProviderCache.Get: the map, or the flight that is open or opens now.
GetProvider(h) ==
  /\ call[h].at = "provider"
  /\ IF prov # 0
       THEN /\ call' = [call EXCEPT ![h] = [at |-> "verifier", flow |-> @.flow, rev |-> prov]]
            /\ UNCHANGED sf
       ELSE /\ call' = [call EXCEPT ![h].at = "flight"]
            /\ sf' = [sf EXCEPT !.waiting = @ \cup {h}]
  /\ UNCHANGED <<idp, signed, inflight, prov, verif, popped>>

\* The flight answers everyone who joined it.
Land(rev) ==
  /\ call' = [h \in Handlers |-> IF h \notin sf.waiting THEN call[h]
                ELSE IF rev = 0 THEN Idle
                ELSE [at |-> "verifier", flow |-> call[h].flow, rev |-> rev]]
  /\ sf' = NoFlight

\* The leader looks at the map again, then discovers.
Discover ==
  /\ sf.waiting # {} /\ sf.found = 0
  /\ IF prov # 0 THEN Land(prov) ELSE sf' = [sf EXCEPT !.found = idp] /\ UNCHANGED call
  /\ UNCHANGED <<idp, signed, inflight, prov, verif, popped>>

DiscoveryFails ==
  /\ sf.waiting # {} /\ sf.found = 0 /\ prov = 0
  /\ Land(0)
  /\ UNCHANGED <<idp, signed, inflight, prov, verif, popped>>

StoreProvider ==
  /\ sf.found # 0
  /\ prov' = sf.found
  /\ Land(sf.found)
  /\ UNCHANGED <<idp, signed, inflight, verif, popped>>

\* VerifierCache.Get: LoadOrStore, so the first verifier stays.
GetVerifier(h) ==
  /\ call[h].at = "verifier"
  /\ verif' = IF verif # 0 THEN verif ELSE call[h].rev
  /\ call' = [call EXCEPT ![h] = [at |-> "exchange", flow |-> @.flow, rev |-> verif']]
  /\ UNCHANGED <<idp, signed, inflight, prov, sf, popped>>

\* ExchangeAndVerify: the code, the token or the nonce is refused ...
ExchangeFails(h) ==
  /\ call[h].at = "exchange"
  /\ call' = [call EXCEPT ![h] = Idle]
  /\ UNCHANGED <<idp, signed, inflight, prov, verif, sf, popped>>

\* ... or the token, signed by the provider as it is now, is checked with the
\* verifier: the login is done, or the key is one the verifier does not know.
ExchangeAndVerify(h) ==
  /\ call[h].at = "exchange"
  /\ call' = [call EXCEPT ![h] = IF @.rev < idp THEN [at |-> "invalidate"] ELSE Idle]
  /\ UNCHANGED <<idp, signed, inflight, prov, verif, sf, popped>>

\* The two calls of whoever wires the package: ProviderCache.Invalidate ...
InvalidateProvider(h) ==
  /\ call[h].at = "invalidate"
  /\ prov' = 0
  /\ call' = [call EXCEPT ![h].at = "invalidate verifier"]
  /\ UNCHANGED <<idp, signed, inflight, verif, sf, popped>>

InvalidateVerifier_NotCalled(h) ==
  /\ call[h].at = "invalidate verifier"
  /\ call' = [call EXCEPT ![h] = Idle]
  /\ UNCHANGED <<idp, signed, inflight, prov, verif, sf, popped>>

\* ... and VerifierCache.Invalidate alongside it.
InvalidateVerifier(h) ==
  /\ call[h].at = "invalidate verifier"
  /\ verif' = 0
  /\ call' = [call EXCEPT ![h] = Idle]
  /\ UNCHANGED <<idp, signed, inflight, prov, sf, popped>>

Step(h) == GetProvider(h) \/ GetVerifier(h) \/ InvalidateProvider(h) \/ InvalidateVerifier(h)

Next ==
  \/ Rotate \/ Discover \/ DiscoveryFails \/ StoreProvider
  \/ \E f \in Flows : Start(f) \/ RecordAges(f) \/ StateAges(f)
  \/ \E h \in Handlers :
       Step(h) \/ ExchangeAndVerify(h) \/ ExchangeFails(h) \/ (\E f \in Flows : Callback(h, f))

Spec == Init /\ [][Next]_vars

\* The handlers run; people keep logging in and coming back in time; discovery
\* and the token endpoint do not fail for ever.
Fairness ==
  /\ WF_vars(StoreProvider) /\ SF_vars(Discover)
  /\ \A f \in Flows : WF_vars(Start(f)) /\ WF_vars(StateAges(f))
  /\ \A h \in Handlers : WF_vars(Step(h) \/ ExchangeAndVerify(h) \/ ExchangeFails(h))
  /\ SF_vars(\E h \in Handlers : ExchangeAndVerify(h))
  /\ SF_vars(\E h \in Handlers, f \in Flows : inflight[f] = "live" /\ Callback(h, f))

LiveSpec == Spec /\ Fairness

(***************************************************************************)
(* Properties.                                                             *)
(***************************************************************************)
\* An in-flight record resumes one callback, however many carry the same state
\* at once, and none once it has expired (Pop deletes before it checks).
SingleUse == \A f \in Flows : popped[f] <= 1

\* After a rotation the caches come to hold the new revision, whatever stale
\* discovery or verifier a running callback puts back after an invalidation:
\* both caches keep their values for ever, and only a caller whose check failed
\* clears them, one after the other.
RotationHeals == \A r \in Revisions : (idp = r) ~> (verif >= r)
=============================================================================
