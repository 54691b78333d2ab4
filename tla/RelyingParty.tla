---- MODULE RelyingParty ----
(***************************************************************************)
(* The relying-party side of AOID sessions (platform/rpauth): an LRU cache *)
(* of introspection results that HTTP requests read through, and the       *)
(* re-check loop of long-lived connections, which does not.  Tokens are    *)
(* revoked in AOID at any moment; the question is how long one still works.*)
(***************************************************************************)
EXTENDS Integers, SequencesExt, FiniteSetsExt

CONSTANTS Tokens, Requests,
          Refresh,     \* the tokens that are refresh tokens
          Exp,         \* when the tokens expire, 0 for never
          MaxTTL,      \* the revocation lag budget
          MaxAges,     \* the max-age values AOID answers with, 0 for none
          RTT,         \* bound on one introspection, start to end
          Size,        \* the capacity of the cache
          MaxTime      \* bound on the clock

Actors == Requests \cup Tokens    \* the loop of a connection goes by its token

VARIABLES
    now,
    revoked,            \* when AOID revoked a token, 0 if it did not
    late,               \* history: tokens revoked with a positive answer under way
    lru, expires,       \* the cache, most recently used first
    pc, tok, start, ttl,    \* introspections under way
    conn, due,          \* connections, and when their next check is due
    unsure              \* tokens with a check after revocation without verdict

cache == <<lru, expires>>
actor == <<pc, tok, start, ttl>>
stream == <<conn, due, unsure>>
vars == <<now, revoked, late, cache, actor, stream>>

Init ==
    /\ now = 1
    /\ revoked = [t \in Tokens |-> 0] /\ late = {}
    /\ lru = <<>> /\ expires = [t \in Tokens |-> 0]
    /\ pc = [a \in Actors |-> "idle"]
    /\ tok = [a \in Actors |-> CHOOSE t \in Tokens : a \in Tokens => t = a]
    /\ start = [a \in Actors |-> 0] /\ ttl = [a \in Actors |-> 0]
    /\ conn = [t \in Tokens |-> "none"] /\ due = [t \in Tokens |-> 0]
    /\ unsure = {}

Expired(time) == Exp # 0 /\ time >= Exp

\* Cache.Get finds an entry that has not expired.
Live(t) == Contains(lru, t) /\ now < expires[t]

Without(t) == SelectSeq(lru, LAMBDA x : x # t)

\* Cache.Invalidate
Invalidate(t) ==
    /\ lru' = Without(t)
    /\ expires' = [expires EXCEPT ![t] = 0]

\* Mutations of the code.
TrimNothing(s) == s
ComputeTTLMaxAge(maxAge) ==
    LET best == IF maxAge > 0 THEN maxAge ELSE MaxTTL
    IN  IF Exp # 0 /\ Exp - now < best THEN Exp - now ELSE best

\* Cache.Put evicts from the back.
Trim(s) == SubSeq(s, 1, Min({Size, Len(s)}))

Put(t, d) ==
    LET s == Trim(<<t>> \o Without(t))
    IN  /\ lru' = s
        /\ expires' = [x \in Tokens |-> IF ~Contains(s, x) THEN 0
                                        ELSE IF x = t THEN now + d ELSE expires[x]]

\* Introspector.computeTTL
ComputeTTL(maxAge) ==
    LET best == Min({MaxTTL} \cup ({maxAge} \ {0}))
    IN  IF Exp # 0 /\ Exp - now < best THEN Max({0, Exp - now}) ELSE best

\* Authenticator.nextDelay, of the interval MaxTTL
Delays ==
    LET half == MaxTTL \div 2
    IN  IF half = 0 THEN {MaxTTL} ELSE {half + n : n \in 0..(half - 1)}

----
Idle(a) ==
    /\ pc' = [pc EXCEPT ![a] = "idle"]
    /\ start' = [start EXCEPT ![a] = 0]
    /\ ttl' = [ttl EXCEPT ![a] = 0]
    /\ tok' = tok

\* RevalidateLoop: the timer is reset after an answer that closes nothing.
Rearm(t) == \E d \in Delays : due' = [due EXCEPT ![t] = now + d]

\* RevalidationRevoked: the connection is closed and its loop ends.
Reject(a, t) ==
    IF a \in Requests THEN UNCHANGED stream
    ELSE /\ conn' = [conn EXCEPT ![t] = "none"]
         /\ due' = [due EXCEPT ![t] = 0]
         /\ unsure' = unsure

\* A check without verdict, or a principal that does not load.
Indeterminate(a) ==
    IF a \in Requests THEN UNCHANGED stream
    ELSE /\ Rearm(a)
         /\ unsure' = IF revoked[a] # 0 THEN unsure \cup {a} ELSE unsure
         /\ UNCHANGED <<conn>>

\* A request that is let in may upgrade to a connection, whose loop checks
\* immediately; a check that confirms the token rearms the timer.
Upgrade(t) ==
    /\ conn[t] = "none" /\ pc[t] = "idle"
    /\ conn' = [conn EXCEPT ![t] = "open"]
    /\ due' = [due EXCEPT ![t] = now]
    /\ unsure' = unsure \ {t}

Valid(a, t) ==
    \/ a \in Requests /\ (Upgrade(t) \/ UNCHANGED stream)
    \/ a \in Tokens /\ Rearm(t) /\ UNCHANGED <<conn, unsure>>
    \/ a \in Tokens /\ Indeterminate(a)

----
\* Mutation of the code: the loop goes through the cache.
ReadsCacheAlways(a) == TRUE

\* Validate reads the cache, ValidateUncached does not.
ReadsCache(a) == a \in Requests

Begin(a, t) ==
    /\ pc[a] = "idle"
    /\ IF ReadsCache(a) /\ Live(t)
       THEN /\ lru' = <<t>> \o Without(t) /\ expires' = expires
            /\ Valid(a, t)
            /\ UNCHANGED actor
       ELSE /\ IF ReadsCache(a) THEN Invalidate(t) ELSE UNCHANGED cache
            /\ pc' = [pc EXCEPT ![a] = "ask"]
            /\ tok' = [tok EXCEPT ![a] = t]
            /\ start' = [start EXCEPT ![a] = now]
            /\ UNCHANGED <<ttl, stream>>
    /\ UNCHANGED <<now, revoked, late>>

\* Authenticator.authenticate, for a request that carries t
Request(r, t) == Begin(r, t)

\* Authenticator.Revalidate, when the timer of the connection fires
Revalidate(t) == conn[t] = "open" /\ now >= due[t] /\ Begin(t, t)

\* AOID answers; it need not look at the expiry of a token.
Active(t) == revoked[t] = 0

Respond(a, yes) ==
    /\ pc[a] = "ask"
    /\ yes => Active(tok[a])
    /\ ~yes => ~Active(tok[a]) \/ Expired(now)
    /\ pc' = [pc EXCEPT ![a] = IF yes THEN "active" ELSE "inactive"]
    /\ UNCHANGED <<now, revoked, late, cache, tok, start, ttl, stream>>

\* The request fails, is answered with an error or does not parse.
Unavailable(a) ==
    /\ pc[a] \in {"ask", "active", "inactive"}
    /\ Idle(a) /\ Indeterminate(a)
    /\ UNCHANGED <<now, revoked, late, cache>>

\* active=false, or a refresh token: a cached result is dropped.
Rejected(a) ==
    LET t == tok[a]
    IN  /\ pc[a] = "inactive" \/ (pc[a] = "active" /\ t \in Refresh)
        /\ Invalidate(t)
        /\ Idle(a) /\ Reject(a, t)
        /\ UNCHANGED <<now, revoked, late>>

\* The answer is positive: its time to live is computed ...
Accepted(a, maxAge) ==
    /\ pc[a] = "active" /\ tok[a] \notin Refresh
    /\ pc' = [pc EXCEPT ![a] = "put"]
    /\ ttl' = [ttl EXCEPT ![a] = ComputeTTL(maxAge)]
    /\ UNCHANGED <<now, revoked, late, cache, tok, start, stream>>

\* ... and the result is cached if it is positive.  A connection whose token
\* had expired when the check began is closed.
Stored(a) ==
    LET t == tok[a]
        over == a \in Tokens /\ Expired(start[a])
    IN  /\ pc[a] = "put"
        /\ CASE over -> Invalidate(t)
             [] ~over /\ ttl[a] > 0 -> Put(t, ttl[a])
             [] OTHER -> UNCHANGED cache
        /\ Idle(a)
        /\ IF over THEN Reject(a, t) ELSE Valid(a, t)
        /\ UNCHANGED <<now, revoked, late>>

\* The client hangs up and the context of the loop is cancelled.
HangUp(t) ==
    /\ conn[t] = "open" /\ pc[t] = "idle"
    /\ conn' = [conn EXCEPT ![t] = "none"] /\ due' = [due EXCEPT ![t] = 0]
    /\ UNCHANGED <<now, revoked, late, cache, actor, unsure>>

\* AOID revokes a token.
Revoke(t) ==
    /\ revoked[t] = 0
    /\ revoked' = [revoked EXCEPT ![t] = now]
    /\ late' = IF \E a \in Actors : tok[a] = t /\ pc[a] \in {"active", "put"}
               THEN late \cup {t} ELSE late
    /\ UNCHANGED <<now, cache, actor, stream>>

\* Introspections take at most RTT, and timers fire on time.
Tick ==
    /\ now < MaxTime
    /\ \A a \in Actors : pc[a] # "idle" => now < start[a] + RTT
    /\ \A t \in Tokens : conn[t] = "open" /\ pc[t] = "idle" => now < due[t]
    /\ now' = now + 1
    /\ UNCHANGED <<revoked, late, cache, actor, stream>>

Next ==
    \/ \E r \in Requests, t \in Tokens : Request(r, t)
    \/ \E t \in Tokens : Revalidate(t) \/ HangUp(t) \/ Revoke(t)
    \/ \E a \in Actors :
          \/ \E yes \in BOOLEAN : Respond(a, yes)
          \/ \E m \in MaxAges : Accepted(a, m)
          \/ Unavailable(a) \/ Rejected(a) \/ Stored(a)
    \/ Tick

Spec == Init /\ [][Next]_vars

----
TypeOK ==
    /\ now \in 1..MaxTime
    /\ revoked \in [Tokens -> 0..now] /\ late \subseteq Tokens
    /\ Len(lru) <= Size /\ IsInjective(lru) /\ ToSet(lru) \subseteq Tokens
    /\ expires \in [Tokens -> Nat]
    /\ \A t \in Tokens : Contains(lru, t) <=> expires[t] # 0
    /\ pc \in [Actors -> {"idle", "ask", "active", "inactive", "put"}]
    /\ tok \in [Actors -> Tokens] /\ \A t \in Tokens : tok[t] = t
    /\ start \in [Actors -> 0..now] /\ ttl \in [Actors -> Int]
    /\ conn \in [Tokens -> {"none", "open"}]
    /\ due \in [Tokens -> 0..(MaxTime + MaxTTL)]
    /\ unsure \subseteq Tokens

\* What the lag comments leave out: an answer AOID gave before the revocation
\* and still on its way has up to one round trip to arrive.
UnderWay(t) == IF t \in late THEN RTT ELSE 0

\* The cache lets a revoked token in for no longer than the documented budget,
\* MaxTTL, unless a positive answer was under way when AOID revoked the token;
\* then for MaxTTL from that answer's arrival, a round trip later at most.
HttpLag ==
    \A t \in Tokens : Live(t) /\ revoked[t] # 0 =>
        now < revoked[t] + MaxTTL + UnderWay(t)

\* A connection outlives the revocation of its token by no more than the
\* documented interval and one round trip, unless a positive answer was under way
\* (one round trip more) or a check since then found no verdict.
StreamLag ==
    \A t \in Tokens : conn[t] = "open" /\ revoked[t] # 0 /\ t \notin unsure =>
        now < revoked[t] + MaxTTL + RTT + UnderWay(t)

====
