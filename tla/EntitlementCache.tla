---- MODULE EntitlementCache ----
(***************************************************************************)
(* The entitlement client's caches (platform/entitlements): the bootstrap  *)
(* of a company, the bootstrap of an AOID subject of that company, and the *)
(* check results of its subscription per feature, each kept for a TTL.     *)
(* Requests of the service miss, fetch and store in three steps, while the *)
(* plan changes in Eden Biz and webhook handlers invalidate.               *)
(***************************************************************************)
EXTENDS Naturals, FiniteSets

CONSTANTS Features, Readers,
          TTL, Timeout,          \* cacheTTL and the HTTP client's timeout
          MaxTime, MaxVersion    \* bounds on the clock and on plan changes

Company == "company"
Identity == "identity"
Keys == Features \cup {Company, Identity}

VARIABLES
    now,
    truth,        \* the version of the plan and usage in Eden Biz
    at,           \* when each version became the truth
    value, expires,   \* the cache entries; expires = 0 when there is none
    pc, key, seen, start,   \* per reader: step, cache key, answer, start time
    usage         \* features whose usage is posted and not yet invalidated

cache == <<value, expires>>
reader == <<pc, key, seen, start>>
vars == <<now, truth, at, cache, reader, usage>>

Init ==
    /\ now = 1 /\ truth = 0
    /\ at = [v \in 0..MaxVersion |-> 0]
    /\ value = [k \in Keys |-> 0] /\ expires = [k \in Keys |-> 0]
    /\ pc = [r \in Readers |-> "idle"] /\ key = [r \in Readers |-> Company]
    /\ seen = [r \in Readers |-> 0] /\ start = [r \in Readers |-> 0]
    /\ usage = {}

\* Cache.Get
Live(k) == expires[k] # 0 /\ now <= expires[k]

\* A new version of the plan or of the usage counters.
NewVersion ==
    /\ truth < MaxVersion
    /\ truth' = truth + 1
    /\ at' = [at EXCEPT ![truth'] = now]

\* Cache.Invalidate and Clear: the entries of K are dropped.
Drop(K) ==
    /\ expires' = [k \in Keys |-> IF k \in K THEN 0 ELSE expires[k]]
    /\ value' = [k \in Keys |-> IF k \in K THEN 0 ELSE value[k]]

\* The request of r is over.
Return(r) ==
    /\ pc' = [pc EXCEPT ![r] = "idle"]
    /\ key' = [key EXCEPT ![r] = Company]
    /\ seen' = [seen EXCEPT ![r] = 0]
    /\ start' = [start EXCEPT ![r] = 0]

ExpiryTwice == now + TTL + TTL

----
\* A request of r misses the cache and goes to Eden Biz.
Miss(r, k) ==
    /\ pc[r] = "idle" /\ ~Live(k)
    /\ pc' = [pc EXCEPT ![r] = "fetch"]
    /\ key' = [key EXCEPT ![r] = k]
    /\ start' = [start EXCEPT ![r] = now]
    /\ UNCHANGED <<now, truth, at, cache, seen, usage>>

Bootstrap(r) == Miss(r, Company)

BootstrapByIdentity(r) == Miss(r, Identity)

CheckEntitlement(r, f) == Miss(r, f)

\* Eden Biz answers the request with its current state.
Respond(r) ==
    /\ pc[r] = "fetch"
    /\ pc' = [pc EXCEPT ![r] = "store"]
    /\ seen' = [seen EXCEPT ![r] = truth]
    /\ UNCHANGED <<now, truth, at, cache, key, start, usage>>

\* The request fails, times out or does not parse: nothing is cached.
Fail(r) ==
    /\ pc[r] # "idle"
    /\ Return(r)
    /\ UNCHANGED <<now, truth, at, cache, usage>>

\* Cache.Set
Expiry == now + TTL

Store(r) ==
    /\ pc[r] = "store"
    /\ Return(r)
    /\ value' = [value EXCEPT ![key[r]] = seen[r]]
    /\ expires' = [expires EXCEPT ![key[r]] = Expiry]
    /\ UNCHANGED <<now, truth, at, usage>>

\* The plan changes in Eden Biz.
PlanChanges ==
    /\ NewVersion
    /\ UNCHANGED <<now, cache, reader, usage>>

\* InvalidateCompany, from a webhook handler: its bootstrap and every check.
CompanyKeys == {Company} \cup Features

InvalidateCompany ==
    /\ Drop(CompanyKeys)
    /\ UNCHANGED <<now, truth, at, reader, usage>>

InvalidateIdentity ==
    /\ Drop({Identity})
    /\ UNCHANGED <<now, truth, at, reader, usage>>

\* RecordUsage: the POST, then the invalidation of that feature's check.
PostUsage(f) ==
    /\ f \notin usage
    /\ NewVersion
    /\ usage' = usage \cup {f}
    /\ UNCHANGED <<now, cache, reader>>

UsageRecorded(f) ==
    /\ f \in usage
    /\ usage' = usage \ {f}
    /\ Drop({f})
    /\ UNCHANGED <<now, truth, at, reader>>

\* RecordUsage returns an error: Eden Biz has counted and the answer is lost.
UsageLost(f) ==
    /\ f \in usage
    /\ usage' = usage \ {f}
    /\ UNCHANGED <<now, truth, at, cache, reader>>

\* No request outlives the HTTP client's timeout.
Tick ==
    /\ now < MaxTime
    /\ \A r \in Readers : pc[r] # "idle" => now < start[r] + Timeout
    /\ now' = now + 1
    /\ UNCHANGED <<truth, at, cache, reader, usage>>

Next ==
    \/ \E r \in Readers :
          \/ Bootstrap(r) \/ BootstrapByIdentity(r)
          \/ \E f \in Features : CheckEntitlement(r, f)
          \/ Respond(r) \/ Fail(r) \/ Store(r)
    \/ \E f \in Features : PostUsage(f) \/ UsageRecorded(f) \/ UsageLost(f)
    \/ PlanChanges \/ InvalidateCompany \/ InvalidateIdentity \/ Tick

Spec == Init /\ [][Next]_vars

----
TypeOK ==
    /\ now \in 1..MaxTime /\ truth \in 0..MaxVersion
    /\ at \in [0..MaxVersion -> 0..MaxTime]
    /\ value \in [Keys -> 0..truth] /\ expires \in [Keys -> Nat]
    /\ pc \in [Readers -> {"idle", "fetch", "store"}] /\ key \in [Readers -> Keys]
    /\ seen \in [Readers -> 0..truth] /\ start \in [Readers -> 0..now]
    /\ usage \subseteq Features

\* A value the client serves was the truth less than a TTL and a request ago,
\* with or without invalidations.
StaleBounded ==
    \A k \in Keys : Live(k) =>
        value[k] = truth \/ at[value[k] + 1] + TTL + Timeout >= now

====
