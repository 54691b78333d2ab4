---------------------------- MODULE FederatedLogin --------------------------
(***************************************************************************)
(* Sign-in through an external identity provider                           *)
(* (internal/aoid/federation): the registry of external providers, the     *)
(* signed state of StartFederation, the SAML and OIDC callbacks, and the   *)
(* Bridge that turns an assertion into a user and tokens.                  *)
(*                                                                         *)
(* A callback reads the provider's configuration, exchanges the code or    *)
(* checks the response (a call to the other party, during which the        *)
(* administrator may write), and the bridge reads the configuration again: *)
(* tenant, activity and the just-in-time policy are those of that reading. *)
(* The two callbacks differ in the exchange alone and are one here.        *)
(***************************************************************************)
EXTENDS Integers

CONSTANTS Tenants, IdPs, Emails,
          DomainOf,     \* the domain of an email
          Policies,     \* JIT policies: records of enabled, domains and mfa
          Logins,       \* concurrent callbacks
          StateAge,     \* how old a state may be (30 minutes)
          ClockSkew,    \* Bridge.ClockSkew
          MaxTime, MaxWrites

VARIABLES
  now,
  ext,     \* InMemorySPRegistry.configs
  states,  \* the signed states browsers carry
  users,   \* emails of the users there are
  login,   \* what each callback is doing
  writes,
  granted  \* the last login that got tokens, as the bridge left it

vars == <<now, ext, states, users, login, writes, granted>>

Absent == [tenant |-> "none", active |-> FALSE, policy |-> [enabled |-> FALSE, domains |-> {}, mfa |-> TRUE]]
Configs == [tenant : Tenants, active : BOOLEAN, policy : Policies]
Idle == [at |-> "idle"]
Nobody == [email |-> "none"]

TypeOK ==
  /\ now \in 0..MaxTime
  /\ ext \in [IdPs -> Configs \cup {Absent}]
  /\ states \subseteq [tenant : Tenants, idp : IdPs, iat : 0..MaxTime]
  /\ users \subseteq Emails
  /\ \A l \in Logins : login[l].at \in {"idle", "exchange", "bridge", "provision", "create", "tokens"}

Init ==
  /\ now = 0
  /\ ext = [i \in IdPs |-> Absent]
  /\ states = {}
  /\ users \in SUBSET Emails
  /\ login = [l \in Logins |-> Idle]
  /\ writes = 0
  /\ granted = Nobody

Tick ==
  /\ now < MaxTime
  /\ now' = now + 1
  /\ UNCHANGED <<ext, states, users, login, writes, granted>>

\* Register, Update and Delete.  Logins whose assertion is in and which the bridge
\* has not taken up yet have now seen this configuration too.
Write(i) ==
  /\ writes < MaxWrites
  /\ writes' = writes + 1
  /\ \E c \in Configs \cup {Absent} :
       /\ c = Absent => ext[i] # Absent
       /\ ext' = [ext EXCEPT ![i] = c]
       /\ login' = [l \in Logins |-> IF login[l].at = "bridge" /\ login[l].idp = i
                                       THEN [login[l] EXCEPT !.seen = @ \cup {c}] ELSE login[l]]
  /\ UNCHANGED <<now, states, users, granted>>

\* A state cannot be forged: there are those that were signed.
SignState(t, i) == [tenant |-> t, idp |-> i, iat |-> now]
VerifyState(st) == st \in states /\ now - st.iat <= StateAge

StartFederation(t, i) ==
  /\ ext[i].tenant = t /\ ext[i].active
  /\ states' = states \cup {SignState(t, i)}
  /\ UNCHANGED <<now, ext, users, login, writes, granted>>

\* SAMLACS and OIDCCallback up to the call to the other party.
Callback(l, t) ==
  /\ login[l] = Idle
  /\ \E st \in states :
       /\ VerifyState(st)
       /\ st.tenant = t
       /\ ext[st.idp] # Absent
       /\ login' = [login EXCEPT ![l] =
            [at |-> "exchange", tenant |-> t, idp |-> st.idp, cfg |-> ext[st.idp]]]
  /\ UNCHANGED <<now, ext, states, users, writes, granted>>

\* An assertion with or without a strong factor and with or without an expiry.
Exchange(l) ==
  /\ login[l].at = "exchange"
  /\ \/ login' = [login EXCEPT ![l] = Idle]
     \/ \E e \in Emails, m \in BOOLEAN, x \in {now + 1, MaxTime + 1} :
          login' = [login EXCEPT ![l] =
            [at |-> "bridge", tenant |-> @.tenant, idp |-> @.idp, cfg |-> @.cfg,
             email |-> e, mfa |-> m, exp |-> x, seen |-> {ext[@.idp]}]]
  /\ UNCHANGED <<now, ext, states, users, writes, granted>>

HasDomain(p, e) == p.domains = {} \/ DomainOf[e] \in p.domains

EnforceJITPolicy(p, a) == (p.mfa => a.mfa) /\ HasDomain(p, a.email)

BridgeConfig_OfCallback(l) == login[l].cfg

\* HandleAssertion reads the registry itself.
BridgeConfig(l) == ext[login[l].idp]

HandleAssertion(l) ==
  /\ login[l].at = "bridge"
  /\ LET c == BridgeConfig(l)
         a == login[l]
     IN login' = [login EXCEPT ![l] =
          IF c.tenant = a.tenant /\ c.active /\ EnforceJITPolicy(c.policy, a) /\ now <= a.exp + ClockSkew
            THEN [at |-> "provision", tenant |-> a.tenant, email |-> a.email, mfa |-> a.mfa,
                  seen |-> a.seen, policy |-> c.policy]
            ELSE Idle]
  /\ UNCHANGED <<now, ext, states, users, writes, granted>>

\* Provision: the user there is, or the policy decides whether to make one.
Provision(l) ==
  /\ login[l].at = "provision"
  /\ LET p == login[l].policy IN
     login' = [login EXCEPT ![l] =
       IF @.email \in users THEN [at |-> "tokens", new |-> FALSE, tenant |-> @.tenant,
                                  email |-> @.email, mfa |-> @.mfa, seen |-> @.seen]
       ELSE IF p.enabled /\ HasDomain(p, @.email) THEN [@ EXCEPT !.at = "create"]
       ELSE Idle]
  /\ UNCHANGED <<now, ext, states, users, writes, granted>>

\* Two logins of one new email: the store's unique index refuses the second.
CreateUser(l) ==
  /\ login[l].at = "create"
  /\ IF login[l].email \in users
       THEN login' = [login EXCEPT ![l] = Idle] /\ UNCHANGED users
       ELSE /\ users' = users \cup {login[l].email}
            /\ login' = [login EXCEPT ![l] = [at |-> "tokens", new |-> TRUE, tenant |-> @.tenant,
                                              email |-> @.email, mfa |-> @.mfa, seen |-> @.seen]]
  /\ UNCHANGED <<now, ext, states, writes, granted>>

\* The tokens are handed out whether or not the refresh token could be remembered.
GrantTokens(l) ==
  /\ login[l].at = "tokens"
  /\ granted' = login[l]
  /\ login' = [login EXCEPT ![l] = Idle]
  /\ UNCHANGED <<now, ext, states, users, writes>>

Next ==
  \/ Tick
  \/ \E i \in IdPs : Write(i) \/ (\E t \in Tenants : StartFederation(t, i))
  \/ \E l \in Logins :
       \/ (\E t \in Tenants : Callback(l, t))
       \/ Exchange(l) \/ HandleAssertion(l) \/ Provision(l) \/ CreateUser(l) \/ GrantTokens(l)

Spec == Init /\ [][Next]_vars

\* Configuration c lets assertion a in, and lets it create a user if it is new.
Allows(c, a) ==
  /\ c.tenant = a.tenant /\ c.active
  /\ EnforceJITPolicy(c.policy, a)
  /\ a.new => c.policy.enabled

\* Tokens, and new users, are given only under a configuration that was in
\* force after the assertion arrived: a provider deactivated, moved to another
\* tenant or narrowed while the callback was waiting for the other party lets
\* nobody in (Bridge.HandleAssertion reads the registry again).
AllowedOnArrival == granted # Nobody => \E c \in granted.seen : Allows(c, granted)
=============================================================================
