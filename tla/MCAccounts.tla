---- MODULE MCAccounts ----
(***************************************************************************)
(* Accounts and records for TLC: handoff codes (one code, two pods; two    *)
(* codes, one store), refresh tokens and just-in-time users, the consent   *)
(* ledger, the state machine, the authorization server, OIDC login,        *)
(* federated login, social sign-in, households (two requests; parents of   *)
(* record) and the tree of companies. They share no state, so a behaviour  *)
(* runs one of them and the others stay as they start.                     *)
(***************************************************************************)
EXTENDS Integers, TLC

VARIABLE part   \* the component that runs

\* The invoice workflow of the state machine's README, and a reopening.
Invoice == {<<"draft", "submit", "submitted">>, <<"submitted", "approve", "approved">>,
            <<"submitted", "reject", "rejected">>, <<"rejected", "submit", "submitted">>}
InvoiceStates == {x[1] : x \in Invoice} \cup {x[3] : x \in Invoice}
InvoiceEvents == {x[2] : x \in Invoice}

\* Just-in-time policies: for one domain, for nobody but with a second factor,
\* and for everybody.
DomainOf == ("a@x" :> "x") @@ ("b@y" :> "y")
Narrow == {[enabled |-> TRUE, domains |-> {"x"}, mfa |-> FALSE],
           [enabled |-> FALSE, domains |-> {}, mfa |-> TRUE]}
Open == {[enabled |-> TRUE, domains |-> {}, mfa |-> FALSE]}

VARIABLES h_now, h_home, h_aud, h_exp, h_entries, h_redeemed, h_pc, h_job,
          h_yields, h_refused
Handoff == INSTANCE HandoffCodes WITH
    Codes <- {"c1"}, Audiences <- {"a1", "a2"}, Pods <- {"p1", "p2"},
    Redeemers <- {"r1", "r2"}, TTL <- 2, MaxEntries <- 1, MaxTime <- 6,
    now <- h_now, home <- h_home, aud <- h_aud, exp <- h_exp,
    entries <- h_entries, redeemed <- h_redeemed, pc <- h_pc, job <- h_job,
    yields <- h_yields, refused <- h_refused
hVars == <<h_now, h_home, h_aud, h_exp, h_entries, h_redeemed, h_pc, h_job,
           h_yields, h_refused>>

VARIABLES i_now, i_home, i_aud, i_exp, i_entries, i_redeemed, i_pc, i_job,
          i_yields, i_refused
Store == INSTANCE HandoffCodes WITH
    Codes <- {"c1", "c2"}, Audiences <- {"a1"}, Pods <- {"p1"},
    Redeemers <- {"r1"}, TTL <- 2, MaxEntries <- 1, MaxTime <- 6,
    now <- i_now, home <- i_home, aud <- i_aud, exp <- i_exp,
    entries <- i_entries, redeemed <- i_redeemed, pc <- i_pc, job <- i_job,
    yields <- i_yields, refused <- i_refused
iVars == <<i_now, i_home, i_aud, i_exp, i_entries, i_redeemed, i_pc, i_job,
           i_yields, i_refused>>

VARIABLES s_users, s_members, s_row, s_owner, s_parent, s_pc, s_tok, s_who,
          s_excused, s_raced
Sessions == INSTANCE AuthSessions WITH
    Emails <- {"e1"}, Tokens <- {"t1", "t2", "t3"}, Workers <- {"w1", "w2"},
    NoToken <- "none", NoEmail <- "nobody", users <- s_users,
    members <- s_members, row <- s_row, owner <- s_owner, parent <- s_parent,
    pc <- s_pc, tok <- s_tok, who <- s_who, excused <- s_excused,
    raced <- s_raced
sVars == <<s_users, s_members, s_row, s_owner, s_parent, s_pc, s_tok, s_who,
           s_excused, s_raced>>

VARIABLES c_ledger, c_th, c_calls
Consent == INSTANCE ConsentLedger WITH
    Purposes <- {"p", "q"}, Threads <- {"t1", "t2"}, MaxEntries <- 4,
    ledger <- c_ledger, th <- c_th, calls <- c_calls
cVars == <<c_ledger, c_th, c_calls>>

VARIABLES m_state, m_history, m_th, m_told, m_lost, m_stale, m_met, m_faults
Machine == INSTANCE StateMachine WITH
    States <- InvoiceStates, Events <- InvoiceEvents, Initial <- "draft",
    Table <- Invoice, Threads <- {"t1", "t2"}, MaxHistory <- 5,
    MaxFaults <- 1, state <- m_state, history <- m_history, th <- m_th,
    told <- m_told, lost <- m_lost, stale <- m_stale, met <- m_met,
    faults <- m_faults
mVars == <<m_state, m_history, m_th, m_told, m_lost, m_stale, m_met, m_faults>>

VARIABLES a_now, a_logins, a_sessions, a_cookie, a_saved, a_codes, a_req,
          a_grants, a_live, a_taken
Issuer == INSTANCE AuthorizationServer WITH
    Clients <- {"c1"}, Registered <- [c1 |-> {"r1"}], Users <- {"u1", "u2"},
    Browsers <- {"b1", "b2"}, Challenges <- {"x"}, Handlers <- {"h1", "h2"},
    AuthCodeTTL <- 0, SessionTTL <- 0, MaxTime <- 1, Refreshing <- {"c1"},
    RefreshTTL <- 2, MaxLogins <- 2, MaxCodes <- 1, MaxGrants <- 1,
    now <- a_now, logins <- a_logins, sessions <- a_sessions,
    cookie <- a_cookie, saved <- a_saved, codes <- a_codes, req <- a_req,
    grants <- a_grants, live <- a_live, taken <- a_taken
\* The token endpoint: two clients, and refreshes, after one login.
Tokens == INSTANCE AuthorizationServer WITH
    Clients <- {"c1", "c2"}, Registered <- [c1 |-> {"r1"}, c2 |-> {"r2"}],
    Refreshing <- {"c2"}, Users <- {"u1"}, Browsers <- {"b1"},
    Challenges <- {"x"}, Handlers <- {"h1", "h2"}, AuthCodeTTL <- 1,
    SessionTTL <- 1, RefreshTTL <- 2, MaxLogins <- 1, MaxCodes <- 1,
    MaxGrants <- 3, MaxTime <- 3,
    now <- a_now, logins <- a_logins, sessions <- a_sessions,
    cookie <- a_cookie, saved <- a_saved, codes <- a_codes, req <- a_req,
    grants <- a_grants, live <- a_live, taken <- a_taken
aVars == <<a_now, a_logins, a_sessions, a_cookie, a_saved, a_codes, a_req,
           a_grants, a_live, a_taken>>

VARIABLES o_idp, o_signed, o_inflight, o_prov, o_verif, o_sf, o_call, o_popped
Oidc == INSTANCE OidcFlow WITH
    Flows <- {"f1", "f2"}, Handlers <- {"h1", "h2"}, MaxRevisions <- 2,
    idp <- o_idp, signed <- o_signed, inflight <- o_inflight, prov <- o_prov,
    verif <- o_verif, sf <- o_sf, call <- o_call, popped <- o_popped
oVars == <<o_idp, o_signed, o_inflight, o_prov, o_verif, o_sf, o_call,
           o_popped>>

VARIABLES f_now, f_ext, f_states, f_users, f_login, f_writes, f_granted
Federation == INSTANCE FederatedLogin WITH
    Tenants <- {"t1", "t2"}, IdPs <- {"i1"}, Emails <- {"a@x", "b@y"},
    DomainOf <- DomainOf, Policies <- Narrow, Logins <- {"l1"}, StateAge <- 1,
    ClockSkew <- 0, MaxTime <- 2, MaxWrites <- 2, now <- f_now, ext <- f_ext,
    states <- f_states, users <- f_users, login <- f_login,
    writes <- f_writes, granted <- f_granted
fVars == <<f_now, f_ext, f_states, f_users, f_login, f_writes, f_granted>>

VARIABLES g_now, g_ext, g_states, g_users, g_login, g_writes, g_granted
Logons == INSTANCE FederatedLogin WITH
    Tenants <- {"t1"}, IdPs <- {"i1"}, Emails <- {"a@x"},
    DomainOf <- DomainOf, Policies <- Open, Logins <- {"l1", "l2"},
    StateAge <- 1, ClockSkew <- 0, MaxTime <- 0, MaxWrites <- 2, now <- g_now,
    ext <- g_ext, states <- g_states, users <- g_users, login <- g_login,
    writes <- g_writes, granted <- g_granted
gVars == <<g_now, g_ext, g_states, g_users, g_login, g_writes, g_granted>>

VARIABLES u_household, u_row, u_links, u_call
House == INSTANCE Household WITH
    Members <- {"m1", "m2"}, Born <- {"m1"}, Kids <- {},
    Callers <- {"c1", "c2"}, InMemory <- FALSE, household <- u_household,
    row <- u_row, links <- u_links, call <- u_call
uVars == <<u_household, u_row, u_links, u_call>>

VARIABLES p_household, p_row, p_links, p_call
Parents == INSTANCE Household WITH
    Members <- {"m1", "m2"}, Born <- {"m1"}, Kids <- {"m1"},
    Callers <- {"c1"}, InMemory <- FALSE, household <- p_household,
    row <- p_row, links <- p_links, call <- p_call
pVars == <<p_household, p_row, p_links, p_call>>

VARIABLES t_parent, t_closure, t_todo, t_step, t_clean, t_member, t_cap,
          t_access, t_updates, t_res
Companies == INSTANCE CompanyTree WITH
    N <- 3, None <- 0, Levels <- {2}, NoCap <- 9, MaxUpdates <- 2,
    Asked <- {3}, Settings <- {<<1, "full">>, <<9, "none">>},
    parent <- t_parent, closure <- t_closure, todo <- t_todo, step <- t_step,
    clean <- t_clean, member <- t_member, cap <- t_cap, access <- t_access,
    updates <- t_updates, res <- t_res
tVars == <<t_parent, t_closure, t_todo, t_step, t_clean, t_member, t_cap,
           t_access, t_updates, t_res>>

VARIABLES x_users, x_bound, x_call, x_issued, x_vouched, x_signIns, x_faults,
          x_removals
Social == INSTANCE SocialSignIn WITH
    Google <- {"g1"}, Apple <- {}, X <- {}, Others <- {"o1"},
    Emails <- {"e1"}, Callers <- {"c1", "c2"}, MaxSignIns <- 3,
    MaxFaults <- 1, MaxRemovals <- 1, users <- x_users, bound <- x_bound,
    call <- x_call, issued <- x_issued, vouched <- x_vouched,
    signIns <- x_signIns, faults <- x_faults, removals <- x_removals
xVars == <<x_users, x_bound, x_call, x_issued, x_vouched, x_signIns,
           x_faults, x_removals>>

----
Components == {"handoff", "handoff store", "sessions", "consent", "machine",
               "issuer", "issuer tokens", "oidc", "federation", "federated logins",
               "household", "parents", "companies", "social"}

MCInit ==
    /\ part \in Components
    /\ part # "federation" => f_users = {}
    /\ part # "federated logins" => g_users = {}
    /\ Handoff!Init /\ Store!Init /\ Sessions!Init /\ Consent!Init
    /\ IF part = "issuer tokens" THEN Tokens!Init ELSE Issuer!Init
    /\ Machine!Init /\ Oidc!Init /\ Federation!Init
    /\ Logons!Init /\ House!Init /\ Parents!Init /\ Companies!Init
    /\ Social!Init

\* A step of the component that runs; the others stand still.
MCNext ==
    /\ part' = part
    /\ IF part = "handoff" THEN Handoff!Next ELSE UNCHANGED hVars
    /\ IF part = "handoff store" THEN Store!Next ELSE UNCHANGED iVars
    /\ IF part = "sessions" THEN Sessions!Next ELSE UNCHANGED sVars
    /\ IF part = "consent" THEN Consent!Next ELSE UNCHANGED cVars
    /\ IF part = "machine" THEN Machine!Next ELSE UNCHANGED mVars
    /\ IF part = "issuer" THEN Issuer!Next
       ELSE IF part = "issuer tokens" THEN Tokens!Next ELSE UNCHANGED aVars
    /\ IF part = "oidc" THEN Oidc!Next ELSE UNCHANGED oVars
    /\ IF part = "federation" THEN Federation!Next ELSE UNCHANGED fVars
    /\ IF part = "federated logins" THEN Logons!Next ELSE UNCHANGED gVars
    /\ IF part = "household" THEN House!Next ELSE UNCHANGED uVars
    /\ IF part = "parents" THEN Parents!Next ELSE UNCHANGED pVars
    /\ IF part = "companies" THEN Companies!Next ELSE UNCHANGED tVars
    /\ IF part = "social" THEN Social!Next ELSE UNCHANGED xVars

allVars == <<part, hVars, iVars, sVars, cVars, mVars, aVars, oVars, fVars,
                   gVars, uVars, pVars, tVars, xVars>>

MCSpec == MCInit /\ [][MCNext]_allVars

----
\* A line of rotations never dies by itself: a stored token is live, or has been
\* replaced, or a refresh is replacing it, unless it was logged out, expired or
\* lost in a refresh that failed after the revoke.
SessionKept == part = "sessions" => Sessions!SessionKept

\* One revoke ends a token: the refreshes that had read it before then may each
\* still replace it, but none that comes later, so a token never has more
\* replacements, issued and under way, than requests served at once
\* (RefreshToken reads the row and revokes it in two statements).
RefreshFanout == part = "sessions" => Sessions!RefreshFanout

\* A Revoke that has returned, with a row or with ErrAlreadyRevoked, has taken
\* effect: the consent is invalid unless it was granted again after the call
\* began.
RevokeTakesEffect == part = "consent" => Consent!RevokeTakesEffect

\* A subscriber of the state machine hears of committed transitions only, of none
\* twice, misses only those whose call is under way or died or lost the store's
\* answer after the Save, and hears of two in the wrong order only when the later
\* one was saved before the earlier one was told. The history is a path through
\* the table, but for entries whose Get came before another call's Save.
ToldIsCommitted ==
    /\ part = "machine" => Machine!ToldIsCommitted
    /\ part = "machine" => Machine!PathUnlessRaced

\* What is good for one use is used once, whatever else runs, expires or
\* restarts. A handoff code yields its token pair at most once, on either store;
\* an authorization code leaves the store for one request, right or wrong, and
\* at most one bundle of tokens comes of it; an in-flight login resumes one
\* callback, however many carry its state.
SingleUse ==
    /\ part = "handoff" => Handoff!SingleUse
    /\ part = "handoff store" => Store!SingleUse
    /\ part = "issuer" => Issuer!SingleUse
    /\ part = "issuer tokens" => Tokens!SingleUse
    /\ part = "oidc" => Oidc!SingleUse

\* Tokens follow a login that still counts. The authorization server gives a
\* user's tokens for a code only to the client that asked for it, within a
\* session's and a code's life of the login on that browser, and refreshed ones
\* for the same user, to whichever client presents them; and federation gives tokens,
\* and makes users, only under a configuration that was in force after the
\* assertion arrived. Social sign-in gives them for the account made for
\* the identity alone, or for the owner of an address its provider vouched for,
\* and no callback moves an identity that is bound.
GrantFollowsLogin ==
    /\ [](part = "issuer" => Issuer!GrantFollowsLogin)
    /\ [](part = "issuer tokens" => Tokens!GrantFollowsLogin)
    /\ [](part = "federation" => Federation!AllowedOnArrival)
    /\ [](part = "federated logins" => Logons!AllowedOnArrival)
    /\ [](part = "social" => Social!OwnAccount)
    /\ Social!KeptByCallbacks

\* A household that has an account owner keeps exactly one and one that has a
\* manager keeps at least one, whatever the removals, demotions and transfers in
\* flight at once checked before them; and no child is an owner or a manager,
\* even when a role change commits between a transfer's check and its write.
HouseholdKept ==
    /\ House!OwnerAndManagerKept
    /\ [](part = "household" => House!ChildHoldsNothing)
    /\ Parents!OwnerAndManagerKept
    /\ [](part = "parents" => Parents!ChildHoldsNothing)

\* Every closure entry tells the truth, and a company created after its parents
\* has its whole line, whatever other creations failed or ran beside it. So what
\* a user may do in a company comes from a company on its line that has a
\* membership, at no more than its cap unless something is written meanwhile,
\* and from the nearest that passes one on unless a read failed: a broken
\* closure can hide a membership, never lend one from elsewhere.
InheritedFromLine ==
    /\ part = "companies" => Companies!ClosureExact
    /\ part = "companies" => Companies!InheritedFromLine

\* The stores, the clocks and the handlers in flight keep their types.
TypeOK ==
    /\ part = "handoff" => Handoff!TypeOK
    /\ part = "handoff store" => Store!TypeOK
    /\ part = "sessions" => Sessions!TypeOK
    /\ part = "consent" => Consent!TypeOK
    /\ part = "machine" => Machine!TypeOK
    /\ part = "issuer" => Issuer!TypeOK
    /\ part = "issuer tokens" => Tokens!TypeOK
    /\ part = "oidc" => Oidc!TypeOK
    /\ part = "federation" => Federation!TypeOK
    /\ part = "federated logins" => Logons!TypeOK
    /\ part = "household" => House!TypeOK
    /\ part = "parents" => Parents!TypeOK
    /\ part = "companies" => Companies!TypeOK
    /\ part = "social" => Social!TypeOK
====
