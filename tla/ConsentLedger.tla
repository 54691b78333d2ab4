---------------------------- MODULE ConsentLedger ---------------------------
(***************************************************************************)
(* The append-only consent ledger of one principal: grants, revocations    *)
(* that point at a grant, and the question whether a consent is valid.     *)
(*                                                                         *)
(* Code: platform/consent/service.go over platform/pgstore/consent_store.go*)
(* and internal/aoid/composition/inmem_consent.go.  An entry's position in *)
(* the ledger is its ID and its granted_at: the store stamps entries in    *)
(* the order of the inserts.  Revoke reads, decides and inserts; the calls *)
(* of different clients interleave at those steps.                         *)
(***************************************************************************)
EXTENDS Naturals, Sequences, FiniteSetsExt

CONSTANTS Purposes,
          Threads,     \* Revoke calls in flight
          MaxEntries   \* bound on the ledger

VARIABLES ledger,
          th,     \* Revoke in flight: the grant, the ledger when it started
          calls   \* returned Revokes: the purpose, the ledger when they started

vars == <<ledger, th, calls>>

Idle == [op |-> "idle", of |-> 0, since |-> 0]
Entries == [p : Purposes, revokes : 0..MaxEntries]  \* revokes = 0: a grant

\* Ledger, calls in flight and returned calls keep their types.
TypeOK ==
  /\ ledger \in Seq(Entries) /\ Len(ledger) <= MaxEntries
  /\ th \in [Threads -> [op : {"idle", "insert"}, of : 0..MaxEntries, since : 0..MaxEntries]]
  /\ calls \subseteq [p : Purposes, since : 0..MaxEntries]

Init == ledger = <<>> /\ th = [t \in Threads |-> Idle] /\ calls = {}

IsRevocation(e) == e.revokes # 0
Of(p) == {i \in 1..Len(ledger) : ledger[i].p = p}

\* The position of the newest entry, 0 when there is none.
LatestForPurpose(p) == Max({0} \cup Of(p))

\* IsValid at a time: by the newest entry alone.
IsValid(p, at) ==
  LET n == LatestForPurpose(p) IN n # 0 /\ n <= at /\ ~IsRevocation(ledger[n])

Now == Len(ledger)

-----------------------------------------------------------------------------
InsertEntry(p, r) ==
  /\ Len(ledger) < MaxEntries
  /\ ledger' = Append(ledger, [p |-> p, revokes |-> r])

Grant(p) == InsertEntry(p, 0) /\ UNCHANGED <<th, calls>>

AlreadyRevoked_Ever(i) ==
  \E j \in Of(ledger[i].p) : ledger[j].revokes = i

\* The newest entry is a revocation of i.
AlreadyRevoked(i) ==
  LET n == LatestForPurpose(ledger[i].p) IN n # 0 /\ ledger[n].revokes = i

\* Revoke: the original must be a grant; then the newest entry is read, and
\* ErrAlreadyRevoked returned when it revokes the original.
RevokeCheck(t, i) ==
  /\ th[t] = Idle
  /\ ~IsRevocation(ledger[i])
  /\ IF AlreadyRevoked(i)
       THEN calls' = calls \cup {[p |-> ledger[i].p, since |-> Now]} /\ UNCHANGED th
       ELSE th' = [th EXCEPT ![t] = [op |-> "insert", of |-> i, since |-> Now]] /\ UNCHANGED calls
  /\ UNCHANGED ledger

RevokeInsert_OutOfRange(t) ==
  /\ th[t].op = "insert"
  /\ InsertEntry(ledger[th[t].of].p, MaxEntries + th[t].of)
  /\ calls' = calls \cup {[p |-> ledger[th[t].of].p, since |-> th[t].since]}
  /\ th' = [th EXCEPT ![t] = Idle]

RevokeInsert(t) ==
  /\ th[t].op = "insert"
  /\ InsertEntry(ledger[th[t].of].p, th[t].of)
  /\ calls' = calls \cup {[p |-> ledger[th[t].of].p, since |-> th[t].since]}
  /\ th' = [th EXCEPT ![t] = Idle]

Next ==
  \/ \E p \in Purposes : Grant(p)
  \/ \E t \in Threads : RevokeInsert(t) \/ \E i \in 1..Len(ledger) : RevokeCheck(t, i)

Spec == Init /\ [][Next]_vars

-----------------------------------------------------------------------------
\* A Revoke that has returned, with a row or with ErrAlreadyRevoked, has taken
\* effect: the consent is invalid unless it was granted again after the call
\* began.
RevokeTakesEffect ==
  \A c \in calls :
    (\A i \in Of(c.p) : i > c.since => IsRevocation(ledger[i])) => ~IsValid(c.p, Now)

=============================================================================
