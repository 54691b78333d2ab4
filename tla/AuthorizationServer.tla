------------------------- MODULE AuthorizationServer ------------------------
(***************************************************************************)
(* AO ID as an OpenID Connect issuer: the login session in the browser's   *)
(* cookie, the authorization code, the tokens it is exchanged for and the  *)
(* tokens those are refreshed to.                                          *)
(*                                                                         *)
(* Code: internal/aoid/issuer (issuer.go, codes.go, token.go) and          *)
(* internal/aoid/clients.  Sessions and codes are maps in memory, each     *)
(* under one mutex: a restart loses them, the browsers keep their cookies. *)
(* A request looks its session up, or consumes its code, in one critical   *)
(* section and goes on outside of it.  IDs are random; here they count     *)
(* logins, codes and bundles.  How the rows of refresh tokens behave when  *)
(* statements fail is module AuthSessions.                                 *)
(***************************************************************************)
EXTENDS Naturals, Sequences

CONSTANTS Clients, Registered,   \* each client's redirect URIs
          Refreshing,            \* the clients allowed the refresh_token grant
          Users, Browsers, Challenges, Handlers,
          AuthCodeTTL, SessionTTL, RefreshTTL,
          MaxLogins, MaxCodes, MaxGrants, MaxTime

VARIABLES now,
          logins,    \* every login: who, on which browser, when
          sessions,  \* the logins whose session is in the store
          cookie,    \* each browser's session cookie: a login, or 0
          saved,     \* what each code was saved with
          codes,     \* the codes in the store
          req,       \* requests under way
          grants,    \* the token bundles written, in order
          live,      \* the bundles whose refresh token is on record
          taken      \* how many requests got each code out of the store

vars == <<now, logins, sessions, cookie, saved, codes, req, grants, live, taken>>

URIs == UNION {Registered[c] : c \in Clients}
Requests == [client : Clients, redirect : URIs, challenge : Challenges]
Idle == [op |-> "idle"]
Done(h) == req' = [req EXCEPT ![h] = Idle]

\* Stores, cookies, requests and bundles keep their types.
TypeOK ==
  /\ now \in 0..MaxTime /\ sessions \subseteq DOMAIN logins
  /\ cookie \in [Browsers -> {0} \cup DOMAIN logins]
  /\ codes \subseteq DOMAIN saved /\ DOMAIN taken = DOMAIN saved
  /\ \A h \in Handlers : req[h].op \in {"idle", "authorize", "code", "refresh"}
  /\ \A i \in DOMAIN grants : grants[i].code \in DOMAIN saved /\ grants[i].from \in 0..(i - 1)
  /\ live \subseteq DOMAIN grants

Init ==
  /\ now = 0 /\ logins = <<>> /\ sessions = {} /\ cookie = [b \in Browsers |-> 0]
  /\ saved = <<>> /\ codes = {} /\ req = [h \in Handlers |-> Idle]
  /\ grants = <<>> /\ live = {} /\ taken = <<>>

Tick ==
  /\ now < MaxTime /\ now' = now + 1
  /\ UNCHANGED <<logins, sessions, cookie, saved, codes, req, grants, live, taken>>

-----------------------------------------------------------------------------
\* The checks of /authorize: a known client and one of its redirect URIs,
\* response_type, PKCE and scopes (a request that fails them is answered and
\* leaves no trace).
Accepts(r) == r.redirect \in Registered[r.client]

\* A session is good up to and including its expiry.
Lookup_NoExpiry(s) == s \in sessions

Lookup(s) == s \in sessions /\ now <= logins[s].at + SessionTTL

\* The request of browser b has its user, by login i; the session's cookie goes
\* out with the answer, if there is one.
Known(h, b, r, user, i, sets) ==
  req' = [req EXCEPT ![h] = [op |-> "authorize", browser |-> b, request |-> r, user |-> user,
                             login |-> i, looked |-> now, sets |-> sets]]

\* /authorize with a live session.
AuthorizeSession(h, b, r) ==
  /\ req[h] = Idle /\ Accepts(r) /\ Lookup(cookie[b])
  /\ Known(h, b, r, logins[cookie[b]].user, cookie[b], FALSE)
  /\ UNCHANGED <<now, logins, sessions, cookie, saved, codes, grants, live, taken>>

\* /authorize with an expired session: the session goes, the login page comes.
AuthorizeExpired(b) ==
  /\ cookie[b] \in sessions /\ ~Lookup(cookie[b])
  /\ sessions' = sessions \ {cookie[b]}
  /\ UNCHANGED <<now, logins, cookie, saved, codes, req, grants, live, taken>>

\* The login form: auth.Service.Login, and a session (or none, when it cannot
\* be created: the flow goes on without a cookie).
HandleLoginPost(h, b, user, r) ==
  /\ req[h] = Idle /\ Accepts(r) /\ Len(logins) < MaxLogins
  /\ logins' = Append(logins, [user |-> user, browser |-> b, at |-> now])
  /\ \E sets \in BOOLEAN :
       /\ sessions' = IF sets THEN sessions \cup {Len(logins')} ELSE sessions
       /\ Known(h, b, r, user, Len(logins'), sets)
  /\ UNCHANGED <<now, cookie, saved, codes, grants, live, taken>>

\* completeAuthorization: a new code, valid for AuthCodeTTL, or an error that
\* is sent to the client; either answer carries the cookie.
CompleteAuthorization(h) ==
  /\ req[h].op = "authorize"
  /\ \/ /\ Len(saved) < MaxCodes
        /\ saved' = Append(saved, [for |-> req[h].request, user |-> req[h].user, at |-> now,
                                   browser |-> req[h].browser, login |-> req[h].login,
                                   looked |-> req[h].looked])
        /\ codes' = codes \cup {Len(saved')} /\ taken' = Append(taken, 0)
     \/ UNCHANGED <<saved, codes, taken>>
  /\ cookie' = IF req[h].sets THEN [cookie EXCEPT ![req[h].browser] = req[h].login] ELSE cookie
  /\ Done(h)
  /\ UNCHANGED <<now, logins, sessions, grants, live>>

-----------------------------------------------------------------------------
Consume_AfterChecks(c) == codes' = codes

\* Consume deletes the code whatever becomes of the request.
Consume(c) == codes' = codes \ {c}

\* /token, authorization_code: an authenticated client presents a code.
TokenConsume(h, c, r) ==
  /\ req[h] = Idle /\ c \in codes
  /\ Consume(c)
  /\ taken' = [taken EXCEPT ![c] = @ + 1]
  /\ req' = IF now > saved[c].at + AuthCodeTTL THEN req
            ELSE [req EXCEPT ![h] = [op |-> "code", code |-> c, sent |-> r, asked |-> now]]
  /\ UNCHANGED <<now, logins, sessions, cookie, saved, grants, live>>

\* The code's client, its redirect URI and its PKCE challenge must match.
MatchesCode(h) == req[h].sent = saved[req[h].code].for

\* The bundle is written, and its refresh token is on record if "kept".
Written(g, kept, others) ==
  /\ grants' = Append(grants, g)
  /\ live' = IF kept THEN others \cup {Len(grants')} ELSE others

\* The checks pass, the user is found and the bundle is written, whether its
\* refresh token could be remembered or not.
TokenGrant(h) ==
  /\ req[h].op = "code" /\ MatchesCode(h)
  /\ \E kept \in BOOLEAN :
       Written([code |-> req[h].code, client |-> req[h].sent.client,
                user |-> saved[req[h].code].user, asked |-> req[h].asked, at |-> now, from |-> 0],
               kept, live)
  /\ Done(h)
  /\ UNCHANGED <<now, logins, sessions, cookie, saved, codes, taken>>

\* Not revoked and not expired.
GetRefreshToken_AnyAge(i) == i \in live

GetRefreshToken(i) == i \in live /\ now < grants[i].at + RefreshTTL

\* /token, refresh_token: any authenticated client that has the grant presents
\* a refresh token; nothing ties the token to the client it was given to.
RefreshRead(h, c, i) ==
  /\ req[h] = Idle /\ c \in Refreshing /\ GetRefreshToken(i) /\ Len(grants) < MaxGrants
  /\ req' = [req EXCEPT ![h] = [op |-> "refresh", token |-> i, client |-> c, asked |-> now]]
  /\ UNCHANGED <<now, logins, sessions, cookie, saved, codes, grants, live, taken>>

\* The token is revoked, also when another request did so meanwhile, and the
\* new one is on record before the bundle is written.
RefreshGrant(h) ==
  /\ req[h].op = "refresh"
  /\ LET g == grants[req[h].token] IN
     Written([g EXCEPT !.client = req[h].client, !.asked = req[h].asked, !.at = now,
                       !.from = req[h].token], TRUE, live \ {req[h].token})
  /\ Done(h)
  /\ UNCHANGED <<now, logins, sessions, cookie, saved, codes, taken>>

\* A check, a lookup or the minting fails; a refresh may have revoked its token.
TokenRefuse(h) ==
  /\ req[h].op \in {"code", "refresh"}
  /\ live' = live \/ (req[h].op = "refresh" /\ live' = live \ {req[h].token})
  /\ Done(h)
  /\ UNCHANGED <<now, logins, sessions, cookie, saved, codes, grants, taken>>

\* The minute's sweep of expired codes.
Prune ==
  /\ \E c \in codes : now > saved[c].at + AuthCodeTTL
  /\ codes' = {c \in codes : now <= saved[c].at + AuthCodeTTL}
  /\ UNCHANGED <<now, logins, sessions, cookie, saved, req, grants, live, taken>>

\* The process restarts: the maps and the requests are gone.
Restart ==
  /\ sessions' = {} /\ codes' = {} /\ req' = [h \in Handlers |-> Idle]
  /\ UNCHANGED <<now, logins, cookie, saved, grants, live, taken>>

Next ==
  \/ Tick \/ Prune \/ Restart
  \/ \E b \in Browsers : AuthorizeExpired(b)
  \/ \E h \in Handlers :
       \/ \E b \in Browsers, r \in Requests :
            AuthorizeSession(h, b, r) \/ \E u \in Users : HandleLoginPost(h, b, u, r)
       \/ \E r \in Requests, c \in codes : TokenConsume(h, c, r)
       \/ \E c \in Clients, i \in live : RefreshRead(h, c, i)
       \/ CompleteAuthorization(h) \/ TokenGrant(h) \/ RefreshGrant(h) \/ TokenRefuse(h)

Spec == Init /\ [][Next]_vars

-----------------------------------------------------------------------------
\* One code, one try: at most one request ever gets an authorization code out
\* of the store, right or wrong, and at most one bundle of tokens comes of it
\* (Consume's "single-use" delete ahead of every check).
SingleUse ==
  /\ \A c \in DOMAIN taken : taken[c] <= 1
  /\ \A i, j \in DOMAIN grants :
       grants[i].code = grants[j].code /\ grants[i].from = 0 /\ grants[j].from = 0 => i = j

\* Tokens follow a login, across restarts, other logins on the browser and late
\* requests.  Those a code is exchanged for go to the client that asked for the
\* code, and are for the user who logged in on the browser that asked, by a
\* session that was good when the request was looked at, asked for within the
\* code's life.  Those that are refreshed may go to any client that has the
\* grant, but are for the user of the tokens they replace, asked for while those
\* were good.
GrantFollowsLogin ==
  \A i \in DOMAIN grants :
    LET g == grants[i] IN
    \/ /\ g.from = 0
       /\ LET c == saved[g.code]   l == logins[saved[g.code].login] IN
          /\ g.client = c.for.client /\ g.user = l.user /\ c.browser = l.browser
          /\ c.looked <= l.at + SessionTTL /\ g.asked <= c.at + AuthCodeTTL
    \/ /\ g.from # 0
       /\ g.user = grants[g.from].user /\ g.asked < grants[g.from].at + RefreshTTL
=============================================================================
