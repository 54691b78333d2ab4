------------------------------- MODULE SamlIdP ------------------------------
(***************************************************************************)
(* One tenant's outbound SAML identity provider (internal/aoid/federation):*)
(* the registry's configuration, the provider that IdPManager.Get builds   *)
(* from it and keeps until it is invalidated, and the IdPSSO handler, which*)
(* asks for the provider twice: to accept the request of a service         *)
(* provider and to sign the assertion for it.                              *)
(*                                                                         *)
(* A built provider is the configuration it was built from: whether the    *)
(* tenant is active and which service providers it lists.  An              *)
(* administrator writes the registry and then calls Invalidate, as the     *)
(* comment on IdPManager requires.                                         *)
(***************************************************************************)
EXTENDS Integers

CONSTANTS SPs,       \* service providers
          Requests,  \* concurrent IdPSSO requests
          MaxWrites  \* bound on the registry's writes

VARIABLES
  cfg,    \* InMemoryRegistry.configs of the tenant, or Absent
  cache,  \* IdPManager.cache of the tenant, or Absent
  dirty,  \* a write whose Invalidate is still to come
  req,    \* what each request is doing
  writes,
  barred, \* service providers unlisted by a configuration that an undisturbed Invalidate followed
  issued  \* the last assertion: for whom, and a bit that every one flips

vars == <<cfg, cache, dirty, req, writes, barred, issued>>

Absent == [active |-> FALSE, sps |-> {}, none |-> TRUE]
Configs == [active : BOOLEAN, sps : SUBSET SPs, none : {FALSE}]
Idle == [at |-> "idle"]

TypeOK ==
  /\ {cfg, cache} \subseteq Configs \cup {Absent}
  /\ dirty \in BOOLEAN
  /\ writes \in 0..MaxWrites
  /\ barred \subseteq SPs
  /\ \A r \in Requests : req[r].at \in {"idle", "get", "read", "have"}

Init ==
  /\ cfg = Absent /\ cache = Absent
  /\ dirty = FALSE
  /\ req = [r \in Requests |-> Idle]
  /\ writes = 0
  /\ barred = {}
  /\ issued = [sp |-> "none", bit |-> 0]

(***************************************************************************)
(* The administrator.                                                      *)
(***************************************************************************)
\* Register, Update and Delete; Validate refuses nothing that matters here.
Write ==
  /\ ~dirty /\ writes < MaxWrites
  /\ \E c \in Configs \cup {Absent} :
       /\ c = Absent => cfg # Absent
       /\ cfg' = c
       /\ barred' = barred \ c.sps
  /\ dirty' = TRUE
  /\ writes' = writes + 1
  /\ UNCHANGED <<cache, req, issued>>

\* A provider built from, or taken for, an earlier configuration is still in hand.
Disturbed == \E r \in Requests : req[r].at \in {"read", "have"}

Invalidate ==
  /\ dirty
  /\ dirty' = FALSE
  /\ cache' = Absent
  /\ barred' = IF Disturbed THEN barred ELSE SPs \ cfg.sps
  /\ UNCHANGED <<cfg, req, writes, issued>>

(***************************************************************************)
(* IdPManager.Get, called by AcceptAuthnRequest and by IssueAssertion.     *)
(***************************************************************************)
Goto(r, at, p) == req' = [req EXCEPT ![r] = [at |-> at, phase |-> @.phase, sp |-> @.sp, p |-> p]]

GetHit(r) ==
  /\ req[r].at = "get" /\ cache # Absent
  /\ Goto(r, "have", cache)
  /\ UNCHANGED <<cfg, cache, dirty, writes, barred, issued>>

\* A miss reads the configuration outside the lock; no tenant or an inactive one
\* ends the request.
GetMiss(r) ==
  /\ req[r].at = "get" /\ cache = Absent
  /\ IF cfg.active THEN Goto(r, "read", cfg) ELSE req' = [req EXCEPT ![r] = Idle]
  /\ UNCHANGED <<cfg, cache, dirty, writes, barred, issued>>

GetFails(r) ==
  /\ req[r].at = "read"
  /\ req' = [req EXCEPT ![r] = Idle]
  /\ UNCHANGED <<cfg, cache, dirty, writes, barred, issued>>

\* The built provider is kept unless another request was faster.
GetStores(r) ==
  /\ req[r].at = "read"
  /\ cache' = IF cache = Absent THEN req[r].p ELSE cache
  /\ Goto(r, "have", cache')
  /\ UNCHANGED <<cfg, dirty, writes, barred, issued>>

(***************************************************************************)
(* IdPSSO.                                                                 *)
(***************************************************************************)
IdPSSO(r) ==
  /\ req[r] = Idle
  /\ \E sp \in SPs : req' = [req EXCEPT ![r] = [at |-> "get", phase |-> "accept", sp |-> sp, p |-> Absent]]
  /\ UNCHANGED <<cfg, cache, dirty, writes, barred, issued>>

\* The request is refused, or the template is read from the registry and the
\* provider is asked for again.
AcceptAuthnRequest(r) ==
  /\ req[r].at = "have" /\ req[r].phase = "accept"
  /\ req' = [req EXCEPT ![r] = IF @.sp \in @.p.sps /\ cfg # Absent
                                 THEN [at |-> "get", phase |-> "issue", sp |-> @.sp, p |-> Absent]
                                 ELSE Idle]
  /\ UNCHANGED <<cfg, cache, dirty, writes, barred, issued>>

Registered_OnAccept(p, sp) == TRUE

\* IssueAssertion looks the service provider up again, in the provider that signs.
Registered(p, sp) == sp \in p.sps

IssueAssertion(r) ==
  /\ req[r].at = "have" /\ req[r].phase = "issue"
  /\ issued' = IF Registered(req[r].p, req[r].sp)
                 THEN [sp |-> req[r].sp, bit |-> 1 - issued.bit] ELSE issued
  /\ req' = [req EXCEPT ![r] = Idle]
  /\ UNCHANGED <<cfg, cache, dirty, writes, barred>>

Next ==
  \/ Write \/ Invalidate
  \/ \E r \in Requests :
       \/ IdPSSO(r) \/ AcceptAuthnRequest(r) \/ IssueAssertion(r)
       \/ GetHit(r) \/ GetMiss(r) \/ GetFails(r) \/ GetStores(r)

Spec == Init /\ [][Next]_vars

\* A service provider taken off the list gets no assertion any more, from the
\* Invalidate that follows the write on, if no request held a provider at that
\* moment: requests accepted under the old list and still under way included
\* (IssueAssertion looks the entity up again in the provider it signs with).
\* A request that held one may put it back (GetStores), and the list is then
\* stale until the next Invalidate.
UnlistedGetsNothing == [][issued' # issued => issued'.sp \notin barred]_vars
=============================================================================
