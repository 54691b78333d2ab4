---- MODULE HandoffCodes ----
(***************************************************************************)
(* Handoff codes (platform/auth/handoff.go): a short-lived, single-use,    *)
(* audience-bound reference to a token pair, minted at the end of a social *)
(* or SSO login and redeemed over POST.  Every replica (a pod) keeps its   *)
(* own InMemoryHandoffStore, whose methods each run under one mutex; the   *)
(* redeem is three of those steps, so redeems of one code interleave with  *)
(* each other, with the clock and with a restart of the pod.               *)
(***************************************************************************)
EXTENDS Naturals, FiniteSets

CONSTANTS Codes, Audiences, Pods, Redeemers,
          TTL,          \* HandoffTTL, in ticks of the clock
          MaxEntries,   \* maxInMemoryHandoffs
          MaxTime       \* bound on the clock

VARIABLES
    now,          \* the clock
    home,         \* the pod that minted the code, or None
    aud,          \* the audience the code is bound to
    exp,          \* the exp claim of the signed code; 0 while it is unsigned
    entries,      \* entries[p][c] = expiresAt, 0 when there is no entry
    redeemed,     \* redeemed[p][c] = until, 0 when there is no mark
    pc, job,      \* per redeemer: its next step, and the code, audience, pod
    yields,       \* how many times the code's token pair was returned
    refused       \* mints refused because the store was full

vars == <<now, home, aud, exp, entries, redeemed, pc, job, yields, refused>>

None == "none"
NoJob == [code |-> None, aud |-> None, pod |-> None]

Init ==
    /\ now = 1
    /\ home = [c \in Codes |-> None]
    /\ aud = [c \in Codes |-> None]
    /\ exp = [c \in Codes |-> 0]
    /\ entries = [p \in Pods |-> [c \in Codes |-> 0]]
    /\ redeemed = [p \in Pods |-> [c \in Codes |-> 0]]
    /\ pc = [r \in Redeemers |-> "idle"]
    /\ job = [r \in Redeemers |-> NoJob]
    /\ yields = [c \in Codes |-> 0]
    /\ refused = {}

\* Mutations of the code.
UntilNow == now

\* sweepLocked: what is left of a pod's two maps once the expired are dropped.
Swept(m) == [c \in Codes |-> IF now > m[c] THEN 0 ELSE m[c]]

Full(m) == Cardinality({c \in Codes : m[c] # 0}) >= MaxEntries

\* Put under the mutex: sweep, then refuse when the store is still full.
Put(c, p, a) ==
    /\ home[c] = None /\ c \notin refused
    /\ redeemed' = [redeemed EXCEPT ![p] = Swept(@)]
    /\ \/ /\ Full(Swept(entries[p]))
          /\ refused' = refused \cup {c}
          /\ entries' = [entries EXCEPT ![p] = Swept(@)]
          /\ UNCHANGED <<home, aud>>
       \/ /\ ~Full(Swept(entries[p]))
          /\ entries' = [entries EXCEPT ![p] = [Swept(@) EXCEPT ![c] = now + TTL]]
          /\ home' = [home EXCEPT ![c] = p]
          /\ aud' = [aud EXCEPT ![c] = a]
          /\ UNCHANGED refused
    /\ UNCHANGED <<now, exp, pc, job, yields>>

\* The rest of mintHandoff: sign the subject.  It reads the clock again, at a
\* later instant than Put did: two readings of the clock are never equal.
Sign(c) ==
    /\ home[c] # None /\ exp[c] = 0
    /\ now + TTL > entries[home[c]][c]
    /\ exp' = [exp EXCEPT ![c] = now + TTL]
    /\ UNCHANGED <<now, home, aud, entries, redeemed, pc, job, yields, refused>>

\* RedeemHandoff up to the audience check: the signature is valid and not
\* expired, the subject is a handoff, and it is bound to this audience.
CheckCode(r, c, a, p) ==
    /\ pc[r] = "idle"
    /\ exp[c] # 0
    /\ IF now < exp[c] /\ aud[c] = a
       THEN /\ pc' = [pc EXCEPT ![r] = "mark"]
            /\ job' = [job EXCEPT ![r] = [code |-> c, aud |-> a, pod |-> p]]
       ELSE UNCHANGED <<pc, job>>
    /\ UNCHANGED <<now, home, aud, exp, entries, redeemed, yields, refused>>

\* The mark MarkRedeemed leaves, and whether it finds an older one.
Until == now + TTL
Spent(p, c) == now < redeemed[p][c]

\* MarkRedeemed under the mutex: sweep, then the first caller wins.
MarkRedeemed(r) ==
    LET c == job[r].code  p == job[r].pod IN
    /\ pc[r] = "mark"
    /\ entries' = [entries EXCEPT ![p] = Swept(@)]
    /\ IF Spent(p, c)
       THEN /\ redeemed' = [redeemed EXCEPT ![p] = Swept(@)]
            /\ pc' = [pc EXCEPT ![r] = "idle"]
            /\ job' = [job EXCEPT ![r] = NoJob]
       ELSE /\ redeemed' = [redeemed EXCEPT ![p] = [Swept(@) EXCEPT ![c] = Until]]
            /\ pc' = [pc EXCEPT ![r] = "load"]
            /\ UNCHANGED job
    /\ UNCHANGED <<now, home, aud, exp, yields, refused>>

\* Load under the mutex: the pair, unless its entry is unknown or expired.
Found(p, c) == entries[p][c] # 0 /\ now <= entries[p][c]

Load(r) ==
    LET c == job[r].code  p == job[r].pod IN
    /\ pc[r] = "load"
    /\ yields' = [yields EXCEPT ![c] = IF Found(p, c) THEN @ + 1 ELSE @]
    /\ pc' = [pc EXCEPT ![r] = "idle"]
    /\ job' = [job EXCEPT ![r] = NoJob]
    /\ UNCHANGED <<now, home, aud, exp, entries, redeemed, refused>>

\* The process behind a pod restarts: both of its maps are gone, and so are the
\* redeems it was serving and the mints that had not yet signed their code.
Restart(p) ==
    /\ home' = [c \in Codes |-> IF home[c] = p /\ exp[c] = 0 THEN None ELSE home[c]]
    /\ aud' = [c \in Codes |-> IF home[c] = p /\ exp[c] = 0 THEN None ELSE aud[c]]
    /\ entries' = [entries EXCEPT ![p] = [c \in Codes |-> 0]]
    /\ redeemed' = [redeemed EXCEPT ![p] = [c \in Codes |-> 0]]
    /\ pc' = [r \in Redeemers |-> IF job[r].pod = p THEN "idle" ELSE pc[r]]
    /\ job' = [r \in Redeemers |-> IF job[r].pod = p THEN NoJob ELSE job[r]]
    /\ UNCHANGED <<now, exp, yields, refused>>

Tick ==
    /\ now < MaxTime
    /\ now' = now + 1
    /\ UNCHANGED <<home, aud, exp, entries, redeemed, pc, job, yields, refused>>

Next ==
    \/ \E c \in Codes, p \in Pods, a \in Audiences : Put(c, p, a)
    \/ \E c \in Codes : Sign(c)
    \/ \E r \in Redeemers, c \in Codes, p \in Pods, a \in Audiences : CheckCode(r, c, a, p)
    \/ \E r \in Redeemers : MarkRedeemed(r) \/ Load(r)
    \/ \E p \in Pods : Restart(p)
    \/ Tick

Spec == Init /\ [][Next]_vars

----
TypeOK ==
    /\ now \in 1..MaxTime
    /\ home \in [Codes -> Pods \cup {None}]
    /\ aud \in [Codes -> Audiences \cup {None}]
    /\ exp \in [Codes -> 0..MaxTime + TTL]
    /\ entries \in [Pods -> [Codes -> 0..MaxTime + TTL]]
    /\ redeemed \in [Pods -> [Codes -> 0..MaxTime + TTL]]
    /\ pc \in [Redeemers -> {"idle", "mark", "load"}]
    /\ \A r \in Redeemers : job[r] = NoJob <=> pc[r] = "idle"
    /\ yields \in [Codes -> Nat]
    /\ refused \subseteq Codes

\* A code yields its token pair at most once, whatever the interleaving of the
\* redeems with the sweep, the clock, the other pods and restarts: "single-use",
\* and "two concurrent calls for the same jti must not both return true".
SingleUse == \A c \in Codes : yields[c] <= 1

====
