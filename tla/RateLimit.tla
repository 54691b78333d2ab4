---- MODULE RateLimit ----
(***************************************************************************)
(* The rate limiter of platform/ratelimit for one key: every instance of   *)
(* the service has an adaptive token bucket of its own, and the instances  *)
(* share a fixed-window counter in Redis (INCR, then EXPIRE NX).  A Check  *)
(* is four steps; each Redis call may fail, in which case the code falls   *)
(* through to the local bucket.                                            *)
(*                                                                         *)
(* Time is counted in ticks, Minute of them to a minute, and tokens in     *)
(* 1/Minute of a token, so that a limit of n requests per minute refills n *)
(* units per tick.                                                         *)
(***************************************************************************)
EXTENDS Integers, FiniteSets, FiniteSetsExt

CONSTANTS Instances, Minute, RPM, Limits,
          MaxTime, MaxUpdates, MaxChecks   \* bounds on the clock and the calls

VARIABLES
    now,
    tokens, maxTokens, refillRate, lastRefill,  \* the bucket of an instance
    retryAfter, observedLimit,
    count, expires,   \* the Redis counter (0: no key) and its expiry (0: none)
    pc, ticket,       \* the Check in flight on an instance, and its window
    window,           \* how many windows the counter has had
    admitted,         \* requests admitted per window, 0 when Redis had failed
    updates, checks   \* calls so far, for the bounds

bucket == <<tokens, maxTokens, refillRate, lastRefill, retryAfter, observedLimit>>
fleet == <<count, expires, window>>
vars == <<now, bucket, fleet, pc, ticket, admitted, updates, checks>>

Unit == Minute

\* Mutations of the code.
FleetOverAt(n) == n > RPM + 1

\* getOrCreate starts a bucket with one token of headroom.
Init ==
    /\ now = 0
    /\ tokens = [i \in Instances |-> Min({Unit, RPM * Unit})]
    /\ maxTokens = [i \in Instances |-> RPM * Unit]
    /\ refillRate = [i \in Instances |-> RPM]
    /\ lastRefill = [i \in Instances |-> 0]
    /\ retryAfter = [i \in Instances |-> 0]
    /\ observedLimit = [i \in Instances |-> 0]
    /\ count = 0 /\ expires = 0 /\ window = 0
    /\ pc = [i \in Instances |-> "idle"]
    /\ ticket = [i \in Instances |-> 0]
    /\ admitted = [w \in 0..(MaxTime + 1) |-> 0]
    /\ updates = 0 /\ checks = 0

----
\* incrWindowCounter: INCR, which creates the key of a new window.
FleetOver(n) == n > RPM

Begin(i) ==
    /\ pc[i] = "idle"
    /\ checks < MaxChecks
    /\ checks' = checks + 1

Counted ==
    /\ count' = count + 1
    /\ window' = IF count = 0 THEN window + 1 ELSE window

Incr(i) ==
    /\ Begin(i)
    /\ Counted
    /\ ticket' = [ticket EXCEPT ![i] = window']
    /\ pc' = [pc EXCEPT ![i] = IF FleetOver(count') THEN "expireOver" ELSE "expire"]
    /\ UNCHANGED <<now, bucket, expires, admitted, updates>>

\* INCR fails, or its answer is lost: the local bucket decides alone.
IncrFails(i) ==
    /\ Begin(i)
    /\ Counted \/ UNCHANGED <<count, window>>
    /\ ticket' = [ticket EXCEPT ![i] = 0]
    /\ pc' = [pc EXCEPT ![i] = "consume"]
    /\ UNCHANGED <<now, bucket, expires, admitted, updates>>

\* What EXPIRE NX leaves: an expiry that is there stays.
Expiry(e) == IF expires = 0 THEN e ELSE expires

\* EXPIRE NX, whose error is ignored; a request over the limit is then refused.
ExpireNX(i) ==
    /\ pc[i] \in {"expire", "expireOver"}
    /\ \/ expires' = IF count = 0 THEN 0 ELSE Expiry(now + Minute)
       \/ UNCHANGED expires
    /\ pc' = [pc EXCEPT ![i] = IF @ = "expire" THEN "consume" ELSE "idle"]
    /\ UNCHANGED <<now, bucket, count, window, ticket, admitted, updates, checks>>

\* bucket.refill, which leaves the tokens alone when no time has passed.
Refilled(i) ==
    IF now = lastRefill[i] THEN tokens[i]
    ELSE Min({tokens[i] + (now - lastRefill[i]) * refillRate[i], maxTokens[i]})
Stamp(i) == now

\* bucket.tryConsume under the bucket's mutex: refill, then the upstream block,
\* then a token if there is one.
TryConsume(i) ==
    /\ pc[i] = "consume"
    /\ lastRefill' = [lastRefill EXCEPT ![i] = Stamp(i)]
    /\ IF now >= retryAfter[i] /\ Refilled(i) >= Unit
       THEN /\ tokens' = [tokens EXCEPT ![i] = Refilled(i) - Unit]
            /\ admitted' = [admitted EXCEPT ![ticket[i]] = @ + 1]
       ELSE /\ tokens' = [tokens EXCEPT ![i] = Refilled(i)]
            /\ UNCHANGED admitted
    /\ pc' = [pc EXCEPT ![i] = "idle"]
    /\ UNCHANGED <<now, maxTokens, refillRate, retryAfter, observedLimit, fleet,
                   ticket, updates, checks>>

\* Snapshot refills a bucket to report it.
Snapshot(i) ==
    /\ tokens' = [tokens EXCEPT ![i] = Refilled(i)]
    /\ lastRefill' = [lastRefill EXCEPT ![i] = Stamp(i)]
    /\ UNCHANGED <<now, maxTokens, refillRate, retryAfter, observedLimit, fleet, pc,
                   ticket, admitted, updates, checks>>

\* bucket.update under the mutex: an upstream answer with a limit, what remains
\* of it (-1: not given), the time to its reset (0: not given) and a Retry-After
\* (0: none); nothing says that what remains is below the limit.  A limit of 0
\* stands for an answer without one: only the Retry-After counts.
\* lastRefill is left alone, so the next refill pays for the time before too.
Update(i, limit, remaining, reset, after) ==
    /\ updates < MaxUpdates
    /\ updates' = updates + 1
    /\ retryAfter' = [retryAfter EXCEPT ![i] = IF after > 0 THEN now + after ELSE @]
    /\ IF limit = 0
       THEN UNCHANGED <<tokens, maxTokens, refillRate, observedLimit>>
       ELSE LET fresh == limit # observedLimit[i] IN
            /\ observedLimit' = [observedLimit EXCEPT ![i] = limit]
            /\ maxTokens' = [maxTokens EXCEPT ![i] = IF fresh THEN limit * Unit ELSE @]
            /\ refillRate' = [refillRate EXCEPT ![i] =
                    IF reset > 0 /\ limit > remaining
                    THEN ((limit - remaining) * Unit) \div reset
                    ELSE IF fresh THEN limit ELSE @]
            /\ tokens' = [tokens EXCEPT ![i] = IF remaining >= 0 THEN remaining * Unit ELSE @]
    /\ UNCHANGED <<now, lastRefill, fleet, pc, ticket, admitted, checks>>

\* A tick of the clock; Redis drops the counter when it expires.
Tick ==
    /\ now < MaxTime
    /\ now' = now + 1
    /\ IF expires # 0 /\ now' >= expires
       THEN count' = 0 /\ expires' = 0
       ELSE UNCHANGED <<count, expires>>
    /\ UNCHANGED <<bucket, window, pc, ticket, admitted, updates, checks>>

Next ==
    \/ \E i \in Instances : Incr(i) \/ IncrFails(i) \/ ExpireNX(i) \/ TryConsume(i)
    \/ \E i \in Instances : Snapshot(i)
    \/ \E i \in Instances, l \in Limits, rem \in Limits \cup {-1}, reset \in {0, 1, Minute},
          after \in {0, 2} : Update(i, l, rem, reset, after)
    \/ Tick

Spec == Init /\ [][Next]_vars

----
TypeOK ==
    /\ now \in 0..MaxTime
    /\ \A i \in Instances : tokens[i] \in 0..(Max(Limits \cup {RPM}) * Unit)
    /\ maxTokens \in [Instances -> Nat] /\ refillRate \in [Instances -> Nat]
    /\ lastRefill \in [Instances -> 0..now]
    /\ retryAfter \in [Instances -> Nat] /\ observedLimit \in [Instances -> Limits \cup {0}]
    /\ count \in 0..MaxChecks /\ expires \in 0..(MaxTime + Minute)
    /\ pc \in [Instances -> {"idle", "expire", "expireOver", "consume"}]
    /\ ticket \in [Instances -> 0..window]

\* Of the requests counted in one fleet window at most RPM are admitted, over
\* all instances: INCR decides, however the rest of the Checks interleave with
\* each other and with the end of the window ("enforces fleet-wide caps").
FleetCap == \A w \in 1..window : admitted[w] <= RPM

====
