------------------------------ MODULE KeySets ------------------------------
(***************************************************************************)
(* Verification keys of a remote issuer (platform/identity): RemoteJWKS    *)
(* caches the key set the issuer serves, refetches it when a context names *)
(* a kid it does not hold or when the set has outlived its TTL, and sends  *)
(* no request within minRefetch of the last one.  The Verifier answers a   *)
(* context with the key the source returns; KeySetHandler is the issuer's  *)
(* side, a document rendered once and replaced when the signer is.         *)
(*                                                                         *)
(* A key is a version number: `key` is what a kid names now, and a context *)
(* is the pair of the kid its header claims and the version that signed    *)
(* it.  KeyForKID holds the source's mutex across the request, so a lookup *)
(* waits for the lock, decides, and may keep the lock while it fetches.    *)
(***************************************************************************)
EXTENDS Integers, TLC

CONSTANTS Kids,        \* the kids the issuer may use
          Lookups,     \* concurrent calls of Verify
          TTL,         \* WithJWKSCacheTTL
          MinRefetch,  \* WithMinRefetchInterval
          Timeout,     \* the deadline of one request, in the same unit
          MaxTime,     \* bound on the clock
          MaxRotations \* bound on the issuer's key changes

\* NewRemoteJWKS refuses a floor that is not in 1..TTL; the default client gives
\* a request 10 seconds (Timeout), far less than the default TTL of 5 minutes.

VARIABLES
  now,
  key,         \* the issuer: what each kid names in the document it serves, 0 for absent
  gone,        \* the issuer: when each retired <<kid, version>> left the document
  keys,        \* RemoteJWKS.keys
  fetchedAt,   \* RemoteJWKS.fetchedAt
  lastAttempt, \* RemoteJWKS.lastAttempt
  mu,          \* the lookup that holds RemoteJWKS.mu
  look,        \* what each lookup is doing
  sent,        \* the moment the last request left, whatever the source recorded
  accepted     \* the last context the verifier accepted, and when

vars == <<now, key, gone, keys, fetchedAt, lastAttempt, mu, look, sent, accepted>>

Never == 0 - TTL - MinRefetch
Versions == 1..(MaxRotations + 1)
NoKeys == [k \in Kids |-> 0]
Contexts == [kid : Kids, key : Versions]
Idle == [at |-> "idle"]
Free == "none"

\* The contexts the issuer has signed so far carry a key it serves or has served.
Signed == {c \in Contexts : key[c.kid] = c.key \/ <<c.kid, c.key>> \in DOMAIN gone}

TypeOK ==
  /\ now \in 0..MaxTime
  /\ key \in [Kids -> 0..(MaxRotations + 1)]
  /\ keys \in [Kids -> 0..(MaxRotations + 1)]
  /\ {fetchedAt, lastAttempt, sent} \subseteq Never..MaxTime
  /\ mu \in Lookups \cup {Free}
  /\ \A l \in Lookups : look[l].at \in {"idle", "waiting", "fetching", "served"}

Init ==
  /\ now = 0
  /\ \E k \in Kids : key = [NoKeys EXCEPT ![k] = 1]
  /\ gone = [p \in {} |-> 0]
  /\ keys = NoKeys
  /\ fetchedAt = Never /\ lastAttempt = Never /\ sent = Never
  /\ mu = Free
  /\ look = [l \in Lookups |-> Idle]
  /\ accepted = [kid |-> "none", key |-> 0, at |-> 0, floored |-> FALSE]

(***************************************************************************)
(* The issuer: a new KeySetHandler serves one signer's key.                *)
(***************************************************************************)
\* Rotation serves the next version, under the same kid or under another one.
NewKeySetHandler ==
  \E old, new \in Kids :
    /\ key[old] # 0 /\ key[old] <= MaxRotations
    /\ key' = [NoKeys EXCEPT ![new] = key[old] + 1]
    /\ gone' = (<<old, key[old]>> :> now) @@ gone
    /\ UNCHANGED <<now, keys, fetchedAt, lastAttempt, mu, look, sent, accepted>>

(***************************************************************************)
(* RemoteJWKS.                                                             *)
(***************************************************************************)
expiredLocked == fetchedAt = Never \/ now >= fetchedAt + TTL

throttledLocked == now < lastAttempt + MinRefetch

\* The verifier checks the signature with the key it was given.
Answer(l, held, floored) ==
  LET ctx == look[l].ctx IN
  /\ look' = [look EXCEPT ![l] = Idle]
  /\ accepted' = IF held[ctx.kid] = ctx.key
                   THEN [kid |-> ctx.kid, key |-> ctx.key, at |-> now, floored |-> floored]
                   ELSE accepted

Verify(l) ==
  /\ look[l] = Idle
  /\ \E c \in Signed : look' = [look EXCEPT ![l] = [at |-> "waiting", ctx |-> c]]
  /\ UNCHANGED <<now, key, gone, keys, fetchedAt, lastAttempt, mu, sent, accepted>>

\* The answer needs no request: the key is held and fresh, or the floor forbids one.
KeyForKID(l) ==
  /\ look[l].at = "waiting" /\ mu = Free
  /\ (keys[look[l].ctx.kid] # 0 /\ ~expiredLocked) \/ throttledLocked
  /\ Answer(l, keys, expiredLocked /\ throttledLocked)
  /\ UNCHANGED <<now, key, gone, keys, fetchedAt, lastAttempt, mu, sent>>

Stamped_OnSuccess(begins) == IF begins THEN lastAttempt ELSE sent

\* refreshLocked records the attempt when it begins, not when it succeeds.
Stamped(begins) == IF begins THEN now ELSE lastAttempt

refreshLocked(l) ==
  /\ look[l].at = "waiting" /\ mu = Free
  /\ keys[look[l].ctx.kid] = 0 \/ expiredLocked
  /\ ~throttledLocked
  /\ mu' = l
  /\ lastAttempt' = Stamped(TRUE)
  /\ sent' = now
  /\ look' = [look EXCEPT ![l] = [at |-> "fetching", ctx |-> @.ctx, began |-> now]]
  /\ UNCHANGED <<now, key, gone, keys, fetchedAt, accepted>>

\* The issuer answers the request with the document it serves at that moment.
ServeHTTP(l) ==
  /\ look[l].at = "fetching"
  /\ look' = [look EXCEPT ![l] = [at |-> "served", ctx |-> @.ctx, began |-> @.began, doc |-> key]]
  /\ UNCHANGED <<now, key, gone, keys, fetchedAt, lastAttempt, mu, sent, accepted>>

FetchTime_AtArrival(l) == now

\* The set is as old as the moment the lookup read the clock, before the request.
FetchTime(l) == look[l].began

FetchSucceeds(l) ==
  /\ look[l].at = "served"
  /\ keys' = look[l].doc
  /\ fetchedAt' = FetchTime(l)
  /\ lastAttempt' = Stamped(FALSE)
  /\ mu' = Free
  /\ Answer(l, look[l].doc, FALSE)
  /\ UNCHANGED <<now, key, gone, sent>>

\* A timeout, a status, a size or a parse error: the keys and their age stay.
FetchFails(l) ==
  /\ look[l].at \in {"fetching", "served"}
  /\ mu' = Free
  /\ look' = [look EXCEPT ![l] = Idle]
  /\ UNCHANGED <<now, key, gone, keys, fetchedAt, lastAttempt, sent, accepted>>

Tick ==
  /\ now < MaxTime
  /\ \A l \in Lookups : look[l].at \in {"fetching", "served"} => now < look[l].began + Timeout
  /\ now' = now + 1
  /\ UNCHANGED <<key, gone, keys, fetchedAt, lastAttempt, mu, look, sent, accepted>>

Next ==
  \/ NewKeySetHandler
  \/ Tick
  \/ \E l \in Lookups :
       Verify(l) \/ KeyForKID(l) \/ refreshLocked(l) \/ ServeHTTP(l)
         \/ FetchSucceeds(l) \/ FetchFails(l)

Spec == Init /\ [][Next]_vars

(***************************************************************************)
(* Properties.                                                             *)
(***************************************************************************)
\* Contexts can drive no more than one request per floor interval, however
\* many lookups miss, expire or wait for the lock behind a slow request
\* (throttledLocked, and lastAttempt stamped before the request).
FetchFloor == [][sent' # sent => sent' >= sent + MinRefetch]_vars

\* A retired key stops being accepted a TTL after it left the issuer's
\* document, rotation under an unchanged kid included, except while the floor
\* holds back the refresh of an expired set after a failed request
\* (KeyForKID answers from the cache then).
RetiredKeyBounded ==
  LET p == <<accepted.kid, accepted.key>> IN
  p \in DOMAIN gone /\ ~accepted.floored => accepted.at < gone[p] + TTL

=============================================================================
