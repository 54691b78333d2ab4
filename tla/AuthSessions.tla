---- MODULE AuthSessions ----
(***************************************************************************)
(* Accounts and refresh tokens: auth.Service (service.go), the just-in-time *)
(* provisioning of the SSO logins (sso.go) and their PostgreSQL store.      *)
(* SignUp is one transaction; every other handler is a sequence of          *)
(* statements, so that handlers interleave between any two of them and each *)
(* statement may fail and end its handler.                                  *)
(***************************************************************************)
EXTENDS Naturals, FiniteSets

CONSTANTS Emails, Tokens, Workers, NoToken, NoEmail

VARIABLES
    users,     \* emails that have a users row
    members,   \* emails whose user has a company membership
    row,       \* refresh_tokens: "none", "live", "revoked" or "expired"
    owner,     \* the user a token was issued to
    parent,    \* the token a token replaced, or NoToken after a login
    pc, tok, who,  \* per handler: its next statement, its token, its user
    excused,   \* history: tokens whose line of rotations may end without a live one
    raced      \* history: tokens that two refreshes held at the same time

vars == <<users, members, row, owner, parent, pc, tok, who, excused, raced>>

Init ==
    /\ users = {} /\ members = {}
    /\ row = [t \in Tokens |-> "none"]
    /\ owner = [t \in Tokens |-> NoEmail]
    /\ parent = [t \in Tokens |-> NoToken]
    /\ pc = [w \in Workers |-> "idle"]
    /\ tok = [w \in Workers |-> NoToken]
    /\ who = [w \in Workers |-> NoEmail]
    /\ excused = {} /\ raced = {}

Goto(w, l) == pc' = [pc EXCEPT ![w] = l]

\* The handler of w returns: its locals are gone.
Return(w) ==
    /\ Goto(w, "idle")
    /\ tok' = [tok EXCEPT ![w] = NoToken]
    /\ who' = [who EXCEPT ![w] = NoEmail]

\* CreateRefreshToken: a new token t of e, in place of p.
Store(t, e, p) ==
    /\ row[t] = "none"
    /\ row' = [row EXCEPT ![t] = "live"]
    /\ owner' = [owner EXCEPT ![t] = e]
    /\ parent' = [parent EXCEPT ![t] = p]

RevokedUser(t) == [u \in Tokens |-> IF owner[u] = owner[t] /\ row[u] # "none"
                                    THEN "revoked" ELSE row[u]]

----
\* SignUp: user, company, owner membership and token in one transaction, which
\* the unique constraint on the email rolls back.
Joins(e) == {e}

SignUp(e, t) ==
    /\ e \notin users
    /\ users' = users \cup {e}
    /\ members' = members \cup Joins(e)
    /\ Store(t, e, NoToken)
    /\ UNCHANGED <<pc, tok, who, excused, raced>>

\* Login and SignInNavigators up to the token: the user exists, the password
\* matches, and there is a membership.
Login(w, e) ==
    /\ pc[w] = "idle"
    /\ e \in users /\ e \in members
    /\ Goto(w, "issue")
    /\ who' = [who EXCEPT ![w] = e]
    /\ UNCHANGED <<users, members, row, owner, parent, tok, excused, raced>>

\* jitProvision: GetUserByEmail.
JitFind(w, e) ==
    /\ pc[w] = "idle"
    /\ Goto(w, IF e \in users THEN "member" ELSE "create")
    /\ who' = [who EXCEPT ![w] = e]
    /\ UNCHANGED <<users, members, row, owner, parent, tok, excused, raced>>

\* jitProvision: CreateUser, which the unique constraint refuses when another
\* handler has created the user meanwhile.
JitCreate(w) ==
    /\ pc[w] = "create"
    /\ IF who[w] \in users
       THEN Return(w) /\ UNCHANGED users
       ELSE /\ users' = users \cup {who[w]}
            /\ Goto(w, "member")
            /\ UNCHANGED <<tok, who>>
    /\ UNCHANGED <<members, row, owner, parent, excused, raced>>

\* jitProvision: CreateCompanyMembership, whose error is ignored.
JitMember(w) ==
    /\ pc[w] = "member"
    /\ members' \in {members \cup {who[w]}, members}
    /\ Goto(w, "issue")
    /\ UNCHANGED <<users, row, owner, parent, tok, who, excused, raced>>

\* The last statement of every handler that issues a token.
Issue(w, t) ==
    /\ pc[w] = "issue"
    /\ Store(t, who[w], tok[w])
    /\ Return(w)
    /\ UNCHANGED <<users, members, excused, raced>>

----
Usable_EvenRevoked(t) == row[t] \in {"live", "revoked"}

\* RefreshToken: ValidateRefreshToken and GetRefreshToken.
Usable(t) == row[t] = "live"

RefreshGet(w, t) ==
    /\ pc[w] = "idle"
    /\ row[t] # "none"
    /\ Usable(t)
    /\ Goto(w, "revoke")
    /\ tok' = [tok EXCEPT ![w] = t]
    /\ raced' = IF \E v \in Workers : tok[v] = t THEN raced \cup {t} ELSE raced
    /\ UNCHANGED <<users, members, row, owner, parent, who, excused>>

\* RevokeRefreshToken is an UPDATE that sets revoked on one row.
RevokedRow(t) == [row EXCEPT ![t] = IF @ = "none" THEN @ ELSE "revoked"]

RefreshRevoke(w) ==
    /\ pc[w] = "revoke"
    /\ row' = RevokedRow(tok[w])
    /\ Goto(w, "user")
    /\ UNCHANGED <<users, members, owner, parent, tok, who, excused, raced>>

\* RefreshToken: GetUserByID, GetCompanyMembershipByUser and GetRoleByID; a user
\* without a membership gets an error, with the old token already revoked.
RefreshUser(w) ==
    /\ pc[w] = "user"
    /\ IF owner[tok[w]] \in members
       THEN /\ Goto(w, "issue")
            /\ who' = [who EXCEPT ![w] = owner[tok[w]]]
            /\ UNCHANGED <<tok, excused>>
       ELSE Return(w) /\ excused' = excused \cup {tok[w]}
    /\ UNCHANGED <<users, members, row, owner, parent, raced>>

\* Logout revokes the token it is given.
Logout(t) ==
    /\ row[t] # "none"
    /\ row' = RevokedRow(t)
    /\ excused' = excused \cup {t}
    /\ UNCHANGED <<users, members, owner, parent, pc, tok, who, raced>>

\* A token reaches expires_at, in its row and in its own exp claim.
Expire(t) ==
    /\ row[t] = "live"
    /\ row' = [row EXCEPT ![t] = "expired"]
    /\ excused' = excused \cup {t}
    /\ UNCHANGED <<users, members, owner, parent, pc, tok, who, raced>>

\* A statement fails, or the process stops: the handler ends where it is.
Fail(w) ==
    /\ pc[w] # "idle"
    /\ Return(w)
    /\ excused' = excused \cup (IF pc[w] \in {"user", "issue"} THEN {tok[w]} \ {NoToken} ELSE {})
    /\ UNCHANGED <<users, members, row, owner, parent, raced>>

\* RevokeRefreshToken takes effect and its answer is lost: the handler ends.
RevokeLost(w) ==
    /\ pc[w] = "revoke"
    /\ row' = RevokedRow(tok[w])
    /\ excused' = excused \cup {tok[w]}
    /\ Return(w)
    /\ UNCHANGED <<users, members, owner, parent, raced>>

Next ==
    \/ \E e \in Emails, t \in Tokens : SignUp(e, t)
    \/ \E w \in Workers, e \in Emails : Login(w, e) \/ JitFind(w, e)
    \/ \E w \in Workers : JitCreate(w) \/ JitMember(w)
    \/ \E w \in Workers, t \in Tokens : Issue(w, t) \/ RefreshGet(w, t)
    \/ \E w \in Workers : RefreshRevoke(w) \/ RefreshUser(w) \/ Fail(w) \/ RevokeLost(w)
    \/ \E t \in Tokens : Logout(t) \/ Expire(t)

Spec == Init /\ [][Next]_vars

----
TypeOK ==
    /\ users \subseteq Emails /\ members \subseteq users
    /\ row \in [Tokens -> {"none", "live", "revoked", "expired"}]
    /\ owner \in [Tokens -> Emails \cup {NoEmail}]
    /\ parent \in [Tokens -> Tokens \cup {NoToken}]
    /\ pc \in [Workers -> {"idle", "create", "member", "issue", "revoke", "user"}]
    /\ tok \in [Workers -> Tokens \cup {NoToken}]
    /\ who \in [Workers -> Emails \cup {NoEmail}]
    /\ excused \subseteq Tokens /\ raced \subseteq Tokens
    /\ \A t \in Tokens : row[t] # "none" => owner[t] \in users

Successors(t) == {u \in Tokens : parent[u] = t}

\* A line of rotations never dies by itself: a stored token is live, or has been
\* replaced, or a refresh is replacing it, unless it was logged out, expired or
\* lost in a refresh that failed after the revoke.  A refresh that fails before
\* the revoke, or that loses a race, costs nobody the session; one that fails
\* after it does, since RefreshToken revokes first and puts nothing back.
SessionKept ==
    \A t \in Tokens :
        \/ row[t] \in {"none", "live"} \/ t \in excused
        \/ Successors(t) # {}
        \/ \E w \in Workers : tok[w] = t /\ pc[w] \in {"user", "issue"}

Redemptions(t) ==
    Cardinality(Successors(t)) + Cardinality({w \in Workers : tok[w] = t})

\* One revoke ends a token.  It is replaced once, as the README of AO ID says,
\* unless two refreshes held it at the same time; those may each replace it
\* (RefreshToken reads the row and revokes it in two statements), but none that
\* comes later, so that the replacements, issued and under way, are never more
\* than the requests served at once.
RefreshFanout ==
    \A t \in Tokens :
        /\ t \notin raced => Redemptions(t) <= 1
        /\ Redemptions(t) <= Cardinality(Workers)

\* What internal/aoid/README.md says of the refresh grant: "The old refresh token
\* is single-use; a second redemption returns 400 invalid_grant".
RedeemedOnce == \A t \in Tokens : Cardinality(Successors(t)) <= 1

====
