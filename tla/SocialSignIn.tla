----------------------------- MODULE SocialSignIn ---------------------------
(***************************************************************************)
(* Consumer sign-in through Google, Apple, Microsoft, Facebook or X        *)
(* (platform/auth/social): what each provider's answer says of the email,  *)
(* and Provision, which finds, links or creates the user of an identity    *)
(* and issues tokens.  Provision is a sequence of store calls without a    *)
(* transaction; other callbacks run and calls fail between them.           *)
(*                                                                         *)
(* users.email is unique and nothing changes it, so a user is its email.   *)
(* An identity is a provider and a subject; placeholderEmail makes one     *)
(* address of it, which tells identities apart: the identity stands for it.*)
(***************************************************************************)
EXTENDS Integers

CONSTANTS Google, Apple, X,    \* identities at each provider
          Others,              \* and at Microsoft and Facebook
          Emails,
          Callers,             \* concurrent callbacks
          MaxSignIns,          \* callbacks there are
          MaxFaults,           \* store calls that fail
          MaxRemovals          \* rows deleted

VARIABLES
  users,     \* the emails of the users table
  bound,     \* user_identities: the user_id of an identity's row
  call,      \* what each callback is doing
  issued,    \* who got tokens: the identity and the user
  vouched,   \* history: the emails providers vouched for, by identity
  signIns, faults, removals

vars == <<users, bound, call, issued, vouched, signIns, faults, removals>>

Identities == Google \cup Apple \cup X \cup Others
NoEmail == "none"
Nobody == "nobody"

placeholderEmail(i) == i
Accounts == Emails \cup {placeholderEmail(i) : i \in Identities}

\* claimsToIdentity, appleClaimsToIdentity, facebookToIdentity and xToIdentity:
\* the emails a provider may hand over, and whether it vouches for them.
Verifies(i) == IF i \in Google THEN BOOLEAN ELSE {i \in Apple}

Claims(i) ==
  [who      : {i},
   email    : IF i \in X THEN {NoEmail} ELSE Emails \cup {NoEmail},
   verified : Verifies(i)]

Ended == {"idle", "ok", "error", "collided"}
Idle == [at |-> "idle"]

TypeOK ==
  /\ users \subseteq Accounts
  /\ bound \in [Identities -> Accounts \cup {Nobody}]
  /\ \A c \in Callers : call[c].at \in Ended \cup {"lookup", "email", "create", "upsert", "issue"}
  /\ signIns \in 0..MaxSignIns /\ faults \in 0..MaxFaults /\ removals \in 0..MaxRemovals

Init ==
  /\ users = {}
  /\ bound = [i \in Identities |-> Nobody]
  /\ call = [c \in Callers |-> Idle]
  /\ issued = {} /\ vouched = {}
  /\ signIns = 0 /\ faults = 0 /\ removals = 0

\* A user who signs up with a password (auth.Service.SignUp).
SignUp(e) ==
  /\ e \notin users
  /\ users' = users \cup {e}
  /\ UNCHANGED <<bound, call, issued, vouched, signIns, faults, removals>>

Goto(c, a) == call' = [call EXCEPT ![c].at = a]

\* HandleCallback: the exchange with the provider is over and Provision begins.
HandleCallback(c) ==
  /\ call[c].at \in Ended
  /\ signIns < MaxSignIns
  /\ signIns' = signIns + 1
  /\ \E i \in Identities : \E in \in Claims(i) :
       /\ call' = [call EXCEPT ![c] = [at |-> "lookup", in |-> in, user |-> Nobody]]
       /\ vouched' = vouched \cup {v \in {<<i, in.email>>} : in.verified /\ in.email # NoEmail}
  /\ UNCHANGED <<users, bound, issued, faults, removals>>

CanLink_Unverified(in) == in.email # NoEmail
\* A verified email may be linked to the user who has it.
CanLink(in) == in.email # NoEmail /\ in.verified

\* Where Provision goes with an identity it does not know.
Unknown(c) == IF CanLink(call[c].in) THEN "email" ELSE "create"

\* GetUserIdentityByProviderSub; GetUserByID of a known identity finds its user.
Lookup(c) ==
  /\ call[c].at = "lookup"
  /\ LET u == bound[call[c].in.who]
     IN  call' = [call EXCEPT ![c].user = u, ![c].at = IF u # Nobody THEN "issue" ELSE Unknown(c)]
  /\ UNCHANGED <<users, bound, issued, vouched, signIns, faults, removals>>

\* GetUserByEmail: link to the user who is there, else create one.
ByEmail(c) ==
  /\ call[c].at = "email"
  /\ LET e == call[c].in.email
     IN  call' = [call EXCEPT ![c].user = IF e \in users THEN e ELSE Nobody,
                              ![c].at = IF e \in users THEN "upsert" ELSE "create"]
  /\ UNCHANGED <<users, bound, issued, vouched, signIns, faults, removals>>

\* The email of a user Provision creates.
NewEmail(in) == IF CanLink(in) THEN in.email ELSE placeholderEmail(in.who)

\* CreateUser, which users.email UNIQUE may refuse.
CreateUser(c) ==
  /\ call[c].at = "create"
  /\ LET e == NewEmail(call[c].in)
     IN  IF e \in users
           THEN Goto(c, "collided") /\ UNCHANGED users
           ELSE /\ users' = users \cup {e}
                /\ call' = [call EXCEPT ![c].user = e, ![c].at = "upsert"]
  /\ UNCHANGED <<bound, issued, vouched, signIns, faults, removals>>

Upserted_Moves(i, u) == u
\* ON CONFLICT (provider, provider_sub) DO UPDATE leaves user_id as it is.
Upserted(i, u) == IF bound[i] = Nobody THEN u ELSE bound[i]

\* UpsertUserIdentity, whose answer Provision does not look at.
UpsertUserIdentity(c) ==
  /\ call[c].at = "upsert"
  /\ LET i == call[c].in.who IN bound' = [bound EXCEPT ![i] = Upserted(i, call[c].user)]
  /\ Goto(c, "issue")
  /\ UNCHANGED <<users, issued, vouched, signIns, faults, removals>>

issueTokens(c) ==
  /\ call[c].at = "issue"
  /\ issued' = issued \cup {<<call[c].in.who, call[c].user>>}
  /\ Goto(c, "ok")
  /\ UNCHANGED <<users, bound, vouched, signIns, faults, removals>>

\* A store call fails, or the process dies, before it took effect.  The two reads
\* take any error for "not found"; the writes end the callback.
StoreFails(c) ==
  /\ faults < MaxFaults
  /\ faults' = faults + 1
  /\ \/ call[c].at = "lookup" /\ Goto(c, Unknown(c))
     \/ call[c].at = "email" /\ Goto(c, "create")
     \/ call[c].at \in {"create", "upsert", "issue"} /\ Goto(c, "error")
  /\ UNCHANGED <<users, bound, issued, vouched, signIns, removals>>

\* DeleteUserIdentity: an application takes an identity off its user.
DeleteUserIdentity(i) ==
  /\ bound[i] # Nobody /\ removals < MaxRemovals
  /\ removals' = removals + 1
  /\ bound' = [bound EXCEPT ![i] = Nobody]
  /\ UNCHANGED <<users, call, issued, vouched, signIns, faults>>

Step(c) ==
  \/ Lookup(c) \/ ByEmail(c) \/ CreateUser(c)
  \/ UpsertUserIdentity(c) \/ issueTokens(c) \/ StoreFails(c)

Next ==
  \/ \E e \in Emails : SignUp(e)
  \/ \E i \in Identities : DeleteUserIdentity(i)
  \/ \E c \in Callers : HandleCallback(c) \/ Step(c)

Spec == Init /\ [][Next]_vars

----------------------------------------------------------------------------
(* Properties *)

Rightful(i, u) == u = placeholderEmail(i) \/ <<i, u>> \in vouched

\* Whoever signs in gets tokens for the account made for its identity alone, or
\* for that of an address its provider vouched for in this callback or an earlier
\* one of the identity; and a row binds an identity to no other.  So an identity
\* whose provider vouches for nothing never gets into an account somebody else
\* made, whatever lookups failed, rows were deleted or callbacks ran beside it.
OwnAccount ==
  /\ \A t \in issued : Rightful(t[1], t[2])
  /\ \A i \in Identities : bound[i] # Nobody => Rightful(i, bound[i])

\* A callback never moves an identity that is bound to a user, nor takes it off,
\* if it missed the row or raced its insertion; only DeleteUserIdentity does.
KeptByCallbacks ==
  [][\A i \in Identities : bound[i] # Nobody /\ removals' = removals => bound'[i] = bound[i]]_vars

\* What the comment of placeholderEmail says: the placeholder is stable per
\* identity so that retries do not collide on users.email UNIQUE.
RetriesDoNotCollide == \A c \in Callers : call[c].at # "collided"
============================================================================
