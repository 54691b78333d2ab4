---- MODULE FeatureFlags ----
(***************************************************************************)
(* Feature flags (platform/feature-flags): one flag in a MemorySource that *)
(* an operator replaces with Set, one attribute at a time, or deletes, and *)
(* the evaluation of that flag for a caller by Client.IsEnabled and        *)
(* Client.Variant, as functions of the flag and the evaluation context.    *)
(* The SHA-256 bucket of a subject is a constant of the model.             *)
(***************************************************************************)
EXTENDS Naturals, Sequences, FiniteSets, SequencesExt, FiniteSetsExt

CONSTANTS
    Names,          \* variant names overrides and Default may mention
    Variants,       \* those the flag's table defines
    Percentages,    \* rollout percentages in use
    Buckets,        \* buckets of the subjects, out of 0..99
    MaxOverrides    \* bound on the overrides of the flag

Axes == {"subject", "household", "tenant", "environment"}

None == "none"

\* An Override pins a set of axes to the values of one tenant, household, user
\* and environment; an Eval is the set of axes on which the caller has those
\* very values, with the bucket of the caller's subject.
Override == [pins : SUBSET Axes, value : BOOLEAN \X {None} \cup {TRUE} \X Names]
Evals == [axes : SUBSET Axes, bucket : Buckets]

VARIABLES flag,   \* the flag in the source, or NoFlag
          up      \* whether the source answers

vars == <<flag, up>>

NoFlag == [key |-> FALSE]
NewFlag(table, default) ==
    [key |-> TRUE, enabled |-> TRUE, table |-> table, default |-> default,
     rollout |-> 101, overrides |-> <<>>]

\* An override's value: a bool, or the name of a variant.
Bool(b) == <<b, None>>
IsName(v) == v[2] # None

\* Mutations of the code.
WeightFlat(a) == CASE a = "subject" -> 4 [] a = "household" -> 3
                   [] a = "tenant" -> 2 [] a = "environment" -> 1

----
Matches(o, e) == o.pins \subseteq e.axes

Weight(a) == CASE a = "subject" -> 8 [] a = "household" -> 4
               [] a = "tenant" -> 2 [] a = "environment" -> 1
Specificity(o) == MapThenSumSet(Weight, o.pins)

\* bestOverride: the index of the first match once the matches are sorted by
\* specificity, highest first, then by index; 0 when none matches.
BestOverride(f, e) ==
    LET idx == {i \in DOMAIN f.overrides : Matches(f.overrides[i], e)}
        before(i, j) ==
            LET si == Specificity(f.overrides[i])  sj == Specificity(f.overrides[j])
            IN  IF si # sj THEN si > sj ELSE i < j
    IN  IF idx = {} THEN 0 ELSE SetToSortSeq(idx, before)[1]

\* inRollout: 0 is nobody, 100 everybody, else the bucket is below.
InRollout(bucket, pct) == bucket < pct

\* evaluateVariant: an override that names no variant of the table falls
\* through to the rollout and the default.
EvaluateVariant(f, e) ==
    LET b == BestOverride(f, e)
        v == IF b = 0 THEN Bool(FALSE) ELSE f.overrides[b].value
    IN  IF IsName(v) /\ v[2] \in f.table THEN v[2]
        ELSE IF f.rollout # 101 /\ ~InRollout(e.bucket, f.rollout) THEN None
        ELSE f.default

\* Variant: the name it resolves to, or None.
Variant(f, e) ==
    IF up /\ f.key /\ f.enabled /\ EvaluateVariant(f, e) \in f.table
    THEN EvaluateVariant(f, e) ELSE None

----
Init == flag = NoFlag /\ up = TRUE

\* MemorySource.Set replaces the flag.
Set(f) == flag' = f /\ UNCHANGED up

Create == ~flag.key /\ \E table \in {{}, Variants}, d \in Names \cup {None} :
              /\ table = {} => d = None
              /\ Set(NewFlag(table, d))
Toggle == flag.key /\ Set([flag EXCEPT !.enabled = ~@])
Roll(p) == flag.key /\ Set([flag EXCEPT !.rollout = p])
AddOverride(o) ==
    /\ flag.key /\ Len(flag.overrides) < MaxOverrides
    /\ Set([flag EXCEPT !.overrides = Append(@, o)])
Delete == flag.key /\ flag' = NoFlag /\ UNCHANGED up

\* The source stops answering (ErrSourceUnavailable), or answers again.
Outage == up' = ~up /\ UNCHANGED flag

Next ==
    \/ Create \/ Toggle \/ Delete \/ Outage
    \/ \E p \in Percentages \cup {101} : Roll(p)
    \/ \E o \in Override : AddOverride(o)

Spec == Init /\ [][Next]_vars

----
TypeOK ==
    /\ up \in BOOLEAN
    /\ flag.key =>
        /\ flag.enabled \in BOOLEAN
        /\ flag.table \in {{}, Variants} /\ flag.default \in Names \cup {None}
        /\ flag.rollout \in Percentages \cup {101}
        /\ flag.overrides \in BoundedSeq(Override, MaxOverrides)
        /\ \A e \in Evals : Variant(flag, e) \in flag.table \cup {None}

Priority == <<"subject", "household", "tenant", "environment">>

\* o pins more specific axes than q: on the first axis, in the README's order,
\* where they differ, it is o that pins it.
MoreSpecific(o, q) ==
    \E k \in 1..4 :
        /\ Priority[k] \in o.pins \ q.pins
        /\ \A m \in 1..(k - 1) : Priority[m] \in o.pins <=> Priority[m] \in q.pins

\* flag.go asks for the more specific overrides to be listed first.
MostSpecificFirst(os) == \A i, j \in DOMAIN os : i < j => ~MoreSpecific(os[j], os[i])

\* A flag that lists its more specific overrides first, as the comment of
\* Flag.Overrides asks, is decided for every caller by the first override that
\* matches, which is what that comment and the README's order (subject >
\* household > tenant > environment, then declaration order) both promise; with
\* no match no override decides.  In another order the two disagree, and the code
\* follows the README: bestOverride sorts the matches by specificity.
FirstMatchWins ==
    flag.key => \A e \in Evals :
        LET matching == {i \in DOMAIN flag.overrides : Matches(flag.overrides[i], e)}
            b == BestOverride(flag, e)
        IN  /\ b = 0 <=> matching = {}
            /\ MostSpecificFirst(flag.overrides) => \A i \in matching : b <= i

====
