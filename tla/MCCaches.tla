---- MODULE MCCaches ----
(***************************************************************************)
(* The caches of a service for TLC: the policy cache (polling alone;       *)
(* shutting down), the entitlement client (one reader and usage; two       *)
(* readers), the relying party (revocation; expiry; eviction; refresh      *)
(* tokens), the feature flags (rollout; overrides), the rate limiter (two  *)
(* instances behind Redis; one bucket), the permission cache of the        *)
(* enforcer (two checks; two servers), the remote key set and the provider *)
(* cache of SAML sign-on. They share no state, so a behaviour runs one of  *)
(* them and the others stay as they start.                                 *)
(***************************************************************************)
EXTENDS Integers

VARIABLE part   \* the component that runs

\* The permissions of each role.
Granted == [owner |-> {"a", "b"}, member |-> {"a"}, custom |-> {"b"}]

VARIABLES p_db, p_clock, p_open, p_late, p_queue, p_listening, p_slot, p_ppc,
          p_prev, p_startedAt, p_todo, p_lastSeen, p_cache, p_wg, p_phase,
          p_faults
Poll == INSTANCE PolicyCache WITH
    Keys <- {"k1", "k2"}, Slots <- {"s1"}, MaxWrites <- 3,
    Listening0 <- FALSE, Deletable <- {}, MayStop <- FALSE, MaxFaults <- 1,
    db <- p_db, clock <- p_clock, open <- p_open, late <- p_late,
    queue <- p_queue, listening <- p_listening, slot <- p_slot, ppc <- p_ppc,
    prev <- p_prev, startedAt <- p_startedAt, todo <- p_todo,
    lastSeen <- p_lastSeen, cache <- p_cache, wg <- p_wg, phase <- p_phase,
    faults <- p_faults
pVars == <<p_db, p_clock, p_open, p_late, p_queue, p_listening, p_slot,
           p_ppc, p_prev, p_startedAt, p_todo, p_lastSeen, p_cache, p_wg,
           p_phase, p_faults>>

VARIABLES q_db, q_clock, q_open, q_late, q_queue, q_listening, q_slot, q_ppc,
          q_prev, q_startedAt, q_todo, q_lastSeen, q_cache, q_wg, q_phase,
          q_faults
Stopping == INSTANCE PolicyCache WITH
    Keys <- {"k1"}, Slots <- {"s1", "s2"}, MaxWrites <- 2, Listening0 <- TRUE,
    Deletable <- {"k1"}, MayStop <- TRUE, MaxFaults <- 0, db <- q_db,
    clock <- q_clock, open <- q_open, late <- q_late, queue <- q_queue,
    listening <- q_listening, slot <- q_slot, ppc <- q_ppc, prev <- q_prev,
    startedAt <- q_startedAt, todo <- q_todo, lastSeen <- q_lastSeen,
    cache <- q_cache, wg <- q_wg, phase <- q_phase, faults <- q_faults
qVars == <<q_db, q_clock, q_open, q_late, q_queue, q_listening, q_slot,
           q_ppc, q_prev, q_startedAt, q_todo, q_lastSeen, q_cache, q_wg,
           q_phase, q_faults>>

VARIABLES e_now, e_truth, e_at, e_value, e_expires, e_pc, e_key, e_seen,
          e_start, e_usage
Ent == INSTANCE EntitlementCache WITH
    Features <- {"f"}, Readers <- {"r1"}, TTL <- 2, Timeout <- 1,
    MaxTime <- 3, MaxVersion <- 1, now <- e_now, truth <- e_truth, at <- e_at,
    value <- e_value, expires <- e_expires, pc <- e_pc, key <- e_key,
    seen <- e_seen, start <- e_start, usage <- e_usage
eVars == <<e_now, e_truth, e_at, e_value, e_expires, e_pc, e_key, e_seen,
           e_start, e_usage>>

VARIABLES g_now, g_truth, g_at, g_value, g_expires, g_pc, g_key, g_seen,
          g_start, g_usage
EntReaders == INSTANCE EntitlementCache WITH
    Features <- {}, Readers <- {"r1", "r2"}, TTL <- 2, Timeout <- 1,
    MaxTime <- 5, MaxVersion <- 1, now <- g_now, truth <- g_truth, at <- g_at,
    value <- g_value, expires <- g_expires, pc <- g_pc, key <- g_key,
    seen <- g_seen, start <- g_start, usage <- g_usage
gVars == <<g_now, g_truth, g_at, g_value, g_expires, g_pc, g_key, g_seen,
           g_start, g_usage>>

VARIABLES r_now, r_revoked, r_late, r_lru, r_expires, r_pc, r_tok, r_start,
          r_ttl, r_conn, r_due, r_unsure
Lag == INSTANCE RelyingParty WITH
    Tokens <- {"t1"}, Requests <- {"r1"}, Refresh <- {}, Exp <- 0,
    MaxTTL <- 4, MaxAges <- {0, 6}, RTT <- 1, Size <- 1, MaxTime <- 8,
    now <- r_now, revoked <- r_revoked, late <- r_late, lru <- r_lru,
    expires <- r_expires, pc <- r_pc, tok <- r_tok, start <- r_start,
    ttl <- r_ttl, conn <- r_conn, due <- r_due, unsure <- r_unsure
rVars == <<r_now, r_revoked, r_late, r_lru, r_expires, r_pc, r_tok, r_start,
           r_ttl, r_conn, r_due, r_unsure>>

VARIABLES x_now, x_revoked, x_late, x_lru, x_expires, x_pc, x_tok, x_start,
          x_ttl, x_conn, x_due, x_unsure
Expiring == INSTANCE RelyingParty WITH
    Tokens <- {"t1"}, Requests <- {"r1", "r2"}, Refresh <- {}, Exp <- 3,
    MaxTTL <- 2, MaxAges <- {0, 1}, RTT <- 1, Size <- 1, MaxTime <- 5,
    now <- x_now, revoked <- x_revoked, late <- x_late, lru <- x_lru,
    expires <- x_expires, pc <- x_pc, tok <- x_tok, start <- x_start,
    ttl <- x_ttl, conn <- x_conn, due <- x_due, unsure <- x_unsure
xVars == <<x_now, x_revoked, x_late, x_lru, x_expires, x_pc, x_tok, x_start,
           x_ttl, x_conn, x_due, x_unsure>>

VARIABLES v_now, v_revoked, v_late, v_lru, v_expires, v_pc, v_tok, v_start,
          v_ttl, v_conn, v_due, v_unsure
Evicting == INSTANCE RelyingParty WITH
    Tokens <- {"t1", "t2"}, Requests <- {"r1"}, Refresh <- {}, Exp <- 0,
    MaxTTL <- 1, MaxAges <- {0}, RTT <- 1, Size <- 1, MaxTime <- 2,
    now <- v_now, revoked <- v_revoked, late <- v_late, lru <- v_lru,
    expires <- v_expires, pc <- v_pc, tok <- v_tok, start <- v_start,
    ttl <- v_ttl, conn <- v_conn, due <- v_due, unsure <- v_unsure
vVars == <<v_now, v_revoked, v_late, v_lru, v_expires, v_pc, v_tok, v_start,
           v_ttl, v_conn, v_due, v_unsure>>

VARIABLES t_now, t_revoked, t_late, t_lru, t_expires, t_pc, t_tok, t_start,
          t_ttl, t_conn, t_due, t_unsure
RefreshTokens == INSTANCE RelyingParty WITH
    Tokens <- {"t1"}, Requests <- {"r1"}, Refresh <- {"t1"}, Exp <- 0,
    MaxTTL <- 1, MaxAges <- {0}, RTT <- 1, Size <- 1, MaxTime <- 2,
    now <- t_now, revoked <- t_revoked, late <- t_late, lru <- t_lru,
    expires <- t_expires, pc <- t_pc, tok <- t_tok, start <- t_start,
    ttl <- t_ttl, conn <- t_conn, due <- t_due, unsure <- t_unsure
tVars == <<t_now, t_revoked, t_late, t_lru, t_expires, t_pc, t_tok, t_start,
           t_ttl, t_conn, t_due, t_unsure>>

VARIABLES f_flag, f_up
Flags == INSTANCE FeatureFlags WITH
    Names <- {"v1", "v2", "gone"}, Variants <- {"v1", "v2"},
    Percentages <- {0, 1, 50, 100}, Buckets <- {0, 49, 99}, MaxOverrides <- 1,
    flag <- f_flag, up <- f_up
fVars == <<f_flag, f_up>>

VARIABLES o_flag, o_up
Overrides == INSTANCE FeatureFlags WITH
    Names <- {"v1"}, Variants <- {"v1"}, Percentages <- {}, Buckets <- {0},
    MaxOverrides <- 2, flag <- o_flag, up <- o_up
oVars == <<o_flag, o_up>>

VARIABLES n_now, n_tokens, n_maxTokens, n_refillRate, n_lastRefill,
          n_retryAfter, n_observedLimit, n_count, n_expires, n_pc, n_ticket,
          n_window, n_admitted, n_updates, n_checks
Fleet == INSTANCE RateLimit WITH
    Instances <- {"i1", "i2"}, Minute <- 2, RPM <- 2, Limits <- {0},
    MaxTime <- 2, MaxUpdates <- 0, MaxChecks <- 4, now <- n_now,
    tokens <- n_tokens, maxTokens <- n_maxTokens, refillRate <- n_refillRate,
    lastRefill <- n_lastRefill, retryAfter <- n_retryAfter,
    observedLimit <- n_observedLimit, count <- n_count, expires <- n_expires,
    pc <- n_pc, ticket <- n_ticket, window <- n_window,
    admitted <- n_admitted, updates <- n_updates, checks <- n_checks
nVars == <<n_now, n_tokens, n_maxTokens, n_refillRate, n_lastRefill,
           n_retryAfter, n_observedLimit, n_count, n_expires, n_pc, n_ticket,
           n_window, n_admitted, n_updates, n_checks>>

VARIABLES b_now, b_tokens, b_maxTokens, b_refillRate, b_lastRefill,
          b_retryAfter, b_observedLimit, b_count, b_expires, b_pc, b_ticket,
          b_window, b_admitted, b_updates, b_checks
Bucket == INSTANCE RateLimit WITH
    Instances <- {"i1"}, Minute <- 2, RPM <- 2, Limits <- {0, 1, 2},
    MaxTime <- 2, MaxUpdates <- 1, MaxChecks <- 3, now <- b_now,
    tokens <- b_tokens, maxTokens <- b_maxTokens, refillRate <- b_refillRate,
    lastRefill <- b_lastRefill, retryAfter <- b_retryAfter,
    observedLimit <- b_observedLimit, count <- b_count, expires <- b_expires,
    pc <- b_pc, ticket <- b_ticket, window <- b_window,
    admitted <- b_admitted, updates <- b_updates, checks <- b_checks
bVars == <<b_now, b_tokens, b_maxTokens, b_refillRate, b_lastRefill,
           b_retryAfter, b_observedLimit, b_count, b_expires, b_pc, b_ticket,
           b_window, b_admitted, b_updates, b_checks>>

VARIABLES a_role, a_perms, a_creating, a_cache, a_check, a_change, a_changes
Access == INSTANCE AccessControl WITH
    Users <- {"u1"}, Admins <- {"x"}, Roles <- {"owner", "member", "custom"},
    Owner <- "owner", Member <- "member", Custom <- {"custom"},
    Permissions <- {"a", "b"}, Granted <- Granted, Denied <- [u1 |-> {"a"}],
    Processes <- {"p1"}, Checks <- {"c1", "c2"}, MaxChanges <- 2,
    role <- a_role, perms <- a_perms, creating <- a_creating,
    cache <- a_cache, check <- a_check, change <- a_change,
    changes <- a_changes
aVars == <<a_role, a_perms, a_creating, a_cache, a_check, a_change, a_changes>>

VARIABLES s_role, s_perms, s_creating, s_cache, s_check, s_change, s_changes
Servers == INSTANCE AccessControl WITH
    Users <- {"u1"}, Admins <- {"x"}, Roles <- {"owner", "member"},
    Owner <- "owner", Member <- "member", Custom <- {},
    Permissions <- {"a", "b"}, Granted <- Granted, Denied <- [u1 |-> {"a"}],
    Processes <- {"p1", "p2"}, Checks <- {"c1"}, MaxChanges <- 2,
    role <- s_role, perms <- s_perms, creating <- s_creating,
    cache <- s_cache, check <- s_check, change <- s_change,
    changes <- s_changes
sVars == <<s_role, s_perms, s_creating, s_cache, s_check, s_change, s_changes>>

VARIABLES k_now, k_key, k_gone, k_keys, k_fetchedAt, k_lastAttempt, k_mu,
          k_look, k_sent, k_accepted
KeySet == INSTANCE KeySets WITH
    Kids <- {"k1", "k2"}, Lookups <- {"l1", "l2"}, TTL <- 3, MinRefetch <- 2,
    Timeout <- 1, MaxTime <- 5, MaxRotations <- 1, now <- k_now, key <- k_key,
    gone <- k_gone, keys <- k_keys, fetchedAt <- k_fetchedAt,
    lastAttempt <- k_lastAttempt, mu <- k_mu, look <- k_look, sent <- k_sent,
    accepted <- k_accepted
kVars == <<k_now, k_key, k_gone, k_keys, k_fetchedAt, k_lastAttempt, k_mu,
           k_look, k_sent, k_accepted>>

VARIABLES m_cfg, m_cache, m_dirty, m_req, m_writes, m_barred, m_issued
Saml == INSTANCE SamlIdP WITH
    SPs <- {"s1"}, Requests <- {"r1", "r2"}, MaxWrites <- 3, cfg <- m_cfg,
    cache <- m_cache, dirty <- m_dirty, req <- m_req, writes <- m_writes,
    barred <- m_barred, issued <- m_issued
mVars == <<m_cfg, m_cache, m_dirty, m_req, m_writes, m_barred, m_issued>>

----
Components == {"poll", "stopping", "entitlements", "entitlement readers",
               "lag", "expiring", "evicting", "refresh tokens", "flags",
               "overrides", "fleet", "bucket", "access checks",
               "access servers", "keys", "saml"}

MCInit ==
    /\ part \in Components
    /\ part # "keys" => k_key = [k1 |-> 1, k2 |-> 0]
    /\ Poll!Init /\ Stopping!Init /\ Ent!Init /\ EntReaders!Init
    /\ Lag!Init /\ Expiring!Init /\ Evicting!Init /\ RefreshTokens!Init
    /\ Flags!Init /\ Overrides!Init /\ Fleet!Init /\ Bucket!Init
    /\ Access!Init /\ Servers!Init /\ KeySet!Init /\ Saml!Init

\* A step of the component that runs; the others stand still.
MCNext ==
    /\ part' = part
    /\ IF part = "poll" THEN Poll!Next ELSE UNCHANGED pVars
    /\ IF part = "stopping" THEN Stopping!Next ELSE UNCHANGED qVars
    /\ IF part = "entitlements" THEN Ent!Next ELSE UNCHANGED eVars
    /\ IF part = "entitlement readers" THEN EntReaders!Next ELSE UNCHANGED gVars
    /\ IF part = "lag" THEN Lag!Next ELSE UNCHANGED rVars
    /\ IF part = "expiring" THEN Expiring!Next ELSE UNCHANGED xVars
    /\ IF part = "evicting" THEN Evicting!Next ELSE UNCHANGED vVars
    /\ IF part = "refresh tokens" THEN RefreshTokens!Next ELSE UNCHANGED tVars
    /\ IF part = "flags" THEN Flags!Next ELSE UNCHANGED fVars
    /\ IF part = "overrides" THEN Overrides!Next ELSE UNCHANGED oVars
    /\ IF part = "fleet" THEN Fleet!Next ELSE UNCHANGED nVars
    /\ IF part = "bucket" THEN Bucket!Next ELSE UNCHANGED bVars
    /\ IF part = "access checks" THEN Access!Next ELSE UNCHANGED aVars
    /\ IF part = "access servers" THEN Servers!Next ELSE UNCHANGED sVars
    /\ IF part = "keys" THEN KeySet!Next ELSE UNCHANGED kVars
    /\ IF part = "saml" THEN Saml!Next ELSE UNCHANGED mVars

allVars == <<part, pVars, qVars, eVars, gVars, rVars, xVars, vVars, tVars,
                   fVars, oVars, nVars, bVars, aVars, sVars, kVars, mVars>>

MCSpec == MCInit /\ [][MCNext]_allVars

----
\* The poller's promise, with every NOTIFY lost: no row older than lastSeen is
\* missing from the cache, even when refreshes fail half-way or rows are
\* written during one.
SeenIsCached == part = "poll" => Poll!SeenIsCached

\* A flag whose more specific overrides (subject > household > tenant >
\* environment) are listed first, as the comment on Flag.Overrides asks, is
\* decided for every caller by the first override that matches, if one does.
FirstMatchWins == part = "overrides" => Overrides!FirstMatchWins

\* What is served from a cache was the truth not long ago. A value of the
\* entitlement client was the truth less than a TTL and a request ago; a key
\* that left the issuer's document is accepted for less than a TTL more,
\* rotation under an unchanged kid included, except while the request floor
\* holds back the refresh of an expired set after a failed request.
StaleBounded ==
    /\ part = "entitlement readers" => EntReaders!StaleBounded
    /\ part = "keys" => KeySet!RetiredKeyBounded

\* The relying party's cache lets a revoked token in for no longer than the
\* documented MaxTTL, and a connection outlives the revocation of its token by no
\* more than the documented MaxTTL and one round trip (unless a check since then
\* found no verdict), except that a positive answer under way when the token was
\* revoked adds the round trip it still had to travel.
RevocationLag ==
    /\ part = "lag" => Lag!HttpLag
    /\ part = "lag" => Lag!StreamLag

\* An invalidation takes effect where it is made. After a role change returns,
\* its process answers by the new role, unless a check that had read the old
\* role before the write stores it afterwards or the answer to the write was
\* lost; and after the Invalidate that follows the write, a service provider
\* taken off the list gets no assertion, unless a request held the old list at
\* that moment.
InvalidationReaches ==
    /\ [](part = "access checks" => Access!InvalidationReaches)
    /\ [](part = "access servers" => Servers!InvalidationReaches)
    /\ Saml!UnlistedGetsNothing

\* The ceilings on calls hold whatever is in flight. Of the requests counted in
\* one fleet window at most RPM are admitted over all instances, however the
\* Checks interleave with each other and with the end of the window; and lookups
\* of keys drive at most one request per floor interval, however many miss,
\* expire or wait behind a slow request.
FleetCap ==
    /\ [](part = "fleet" => Fleet!FleetCap)
    /\ [](part = "bucket" => Bucket!FleetCap)
    /\ KeySet!FetchFloor

\* The caches, the clocks and the requests in flight keep their types, and the
\* relying party keeps its cache within its size.
TypeOK ==
    /\ part = "poll" => Poll!TypeOK
    /\ part = "stopping" => Stopping!TypeOK
    /\ part = "entitlements" => Ent!TypeOK
    /\ part = "entitlement readers" => EntReaders!TypeOK
    /\ part = "lag" => Lag!TypeOK
    /\ part = "expiring" => Expiring!TypeOK
    /\ part = "evicting" => Evicting!TypeOK
    /\ part = "refresh tokens" => RefreshTokens!TypeOK
    /\ part = "flags" => Flags!TypeOK
    /\ part = "overrides" => Overrides!TypeOK
    /\ part = "fleet" => Fleet!TypeOK
    /\ part = "bucket" => Bucket!TypeOK
    /\ part = "access checks" => Access!TypeOK
    /\ part = "access servers" => Servers!TypeOK
    /\ part = "keys" => KeySet!TypeOK
    /\ part = "saml" => Saml!TypeOK
====
