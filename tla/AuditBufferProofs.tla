------------------------- MODULE AuditBufferProofs -------------------------
(***************************************************************************)
(* Proofs about AuditBuffer: type correctness, and that rows are held by   *)
(* one transaction at a time, are never lost, are sent signed and are sent *)
(* twice only after a fault.                                               *)
(***************************************************************************)
EXTENDS AuditBuffer, FiniteSetTheorems, TLAPS

\* The inductive invariant behind the safety properties: a transaction
\* only holds unsent rows, signed ones in the forward loop and unsigned ones
\* in the re-signer; a batch at "sent" has been received; and what the sink
\* received of an event is bounded by the faults and by one success.
Succeeded(e) ==
  \/ row[e] \in {"sent", "vacuumed"}
  \/ \E r \in Replicas : pc[r] = "sent" /\ e \in sending[r]

BatchInv ==
  \A r \in Replicas :
    /\ \A e \in sending[r] : row[e] = "unsent" /\ e \in jws
    /\ \A e \in signing[r] : row[e] = "unsent" /\ e \notin jws
    /\ pc[r] = "sent" => \A e \in sending[r] : received[e] > 0
    /\ pc[r] \in {"idle", "backoff"} => sending[r] = {}

RowInv ==
  \A e \in Events :
    /\ row[e] = "vacuumed" => call[e] \in {"done", "dropped"}
    /\ row[e] = "absent" => received[e] = 0
    /\ received[e] <= faults + (IF Succeeded(e) THEN 1 ELSE 0)

IInv == TypeOK /\ LocksExclusive /\ NoLoss /\ SinkSeesSigned /\ BatchInv /\ RowInv

-----------------------------------------------------------------------------

\* Cardinality of a set of events is a number: emitted_at stays in its type.
LEMMA EventCount ==
  ASSUME NEW S \in SUBSET Events
  PROVE  Cardinality(S) \in Nat
BY FS_Subset, FS_CardinalityType, BufferAssumption

\* A dequeue returns rows of the set it selects from.
LEMMA OldestSubset ==
  ASSUME NEW S
  PROVE  Oldest(S) \subseteq S
BY DEF Oldest

\* Every step keeps the columns and the loops in their types.
LEMMA TypeStep == TypeOK /\ [Next]_vars => TypeOK'
<1> SUFFICES ASSUME TypeOK, [Next]_vars PROVE TypeOK'
  OBVIOUS
<1> USE DEF TypeOK, Calls, PCs, table, loops
<1>1. ASSUME NEW e \in Events, CreateSignedAuditLog(e) PROVE TypeOK'
  BY <1>1 DEF CreateSignedAuditLog, Kinds, Fault
<1>2. ASSUME NEW e \in Events, InsertRow(e)
      PROVE  /\ row' \in [Events -> {"absent", "unsent", "sent", "vacuumed"}]
             /\ emitted' \in [Events -> Nat]
             /\ jws' \subseteq Events
             /\ serr' \subseteq Events
  <2>1. Cardinality({f \in Events : row[f] # "absent"}) \in Nat
    BY EventCount
  <2>2. row' \in [Events -> {"absent", "unsent", "sent", "vacuumed"}]
    BY <1>2 DEF InsertRow
  <2>3. emitted' \in [Events -> Nat]
    BY <1>2, <2>1 DEF InsertRow
  <2>4. jws' \subseteq Events /\ serr' \subseteq Events
    BY <1>2 DEF InsertRow
  <2> QED BY <2>2, <2>3, <2>4
<1>3. ASSUME NEW e \in Events, InsertOK(e) PROVE TypeOK'
  <2> InsertRow(e)
    BY <1>3 DEF InsertOK
  <2> QED BY <1>2, <1>3 DEF InsertOK
<1>4. ASSUME NEW e \in Events, InsertError(e) PROVE TypeOK'
  <2>1. CASE InsertRow(e)
    BY <1>2, <1>4, <2>1 DEF InsertError, Fault
  <2>2. CASE UNCHANGED <<row, emitted, jws, serr>>
    BY <1>4, <2>2 DEF InsertError, Fault
  <2> QED BY <1>4, <2>1, <2>2 DEF InsertError
<1>5. ASSUME NEW e \in Events, GiveUp(e) PROVE TypeOK'
  BY <1>5 DEF GiveUp
<1>6. ASSUME NEW r \in Replicas, Forward(r) PROVE TypeOK'
  <2>1. CASE DequeuePending(r)
    <3> Oldest(PendingRows) \subseteq Events
      BY OldestSubset DEF PendingRows, Unsent
    <3> QED BY <2>1 DEF DequeuePending
  <2>2. CASE SendOK(r)
    BY <2>2 DEF SendOK, Accept
  <2>3. CASE SendError(r)
    BY <2>3 DEF SendError, Accept, Fault
  <2>4. CASE ReleaseSent(r)
    BY <2>4 DEF ReleaseSent, EndTx
  <2>5. CASE ReleaseSentFails(r)
    BY <2>5 DEF ReleaseSentFails, EndTx, Fault
  <2>6. CASE ReleaseFailed(r)
    BY <2>6 DEF ReleaseFailed, EndTx
  <2>7. CASE BackoffOver(r)
    BY <2>7 DEF BackoffOver
  <2> QED BY <1>6, <2>1, <2>2, <2>3, <2>4, <2>5, <2>6, <2>7 DEF Forward
<1>7. ASSUME NEW r \in Replicas, Resign(r) PROVE TypeOK'
  <2>1. CASE DequeueUnsigned(r)
    <3> Oldest(UnsignedRows) \subseteq Events
      BY OldestSubset DEF UnsignedRows, Unsent
    <3> QED BY <2>1 DEF DequeueUnsigned
  <2>2. CASE ReleaseResign(r)
    BY <2>2 DEF ReleaseResign
  <2>3. CASE ReleaseResignFails(r)
    BY <2>3 DEF ReleaseResignFails, Fault
  <2> QED BY <1>7, <2>1, <2>2, <2>3 DEF Resign
<1>8. ASSUME NEW r \in Replicas, Crash(r) PROVE TypeOK'
  BY <1>8 DEF Crash, EndTx, Fault
<1>9. ASSUME NEW r \in Replicas, Stop(r) PROVE TypeOK'
  BY <1>9 DEF Stop
<1>10. CASE Vacuum
  BY <1>10 DEF Vacuum, Expired
<1>11. CASE UNCHANGED vars
  BY <1>11 DEF vars
<1> QED BY <1>1, <1>3, <1>4, <1>5, <1>6, <1>7, <1>8, <1>9, <1>10, <1>11 DEF Next, Write

\* Type correctness of the buffer table and of the loops.
THEOREM TypeCorrect == Spec => []TypeOK
<1>1. Init => TypeOK
  BY DEF Init, TypeOK, Calls, PCs
<1> QED BY <1>1, TypeStep, PTL DEF Spec

-----------------------------------------------------------------------------
(* The invariant is inductive.  TypeOK' comes from TypeStep; the lemmas     *)
(* below show the other conjuncts, one group of actions each.               *)

Safe == LocksExclusive /\ NoLoss /\ SinkSeesSigned /\ BatchInv /\ RowInv

\* A step that changes neither rows, batches nor deliveries keeps the invariant.
LEMMA QuietStep ==
  ASSUME IInv, UNCHANGED <<row, jws, pc, sending, signing, received>>,
         faults' \in Nat, faults' >= faults,
         \A e \in Events : /\ row[e] = "vacuumed" => call'[e] \in {"done", "dropped"}
                           /\ call'[e] = "done" => row[e] # "absent"
  PROVE  Safe'
<1> USE DEF IInv, TypeOK
<1>1. LocksExclusive' /\ BatchInv'
  BY DEF LocksExclusive, BatchInv
<1>2. NoLoss' /\ SinkSeesSigned'
  BY DEF NoLoss, SinkSeesSigned
<1>3. \A e \in Events : Succeeded(e)' <=> Succeeded(e)
  BY DEF Succeeded
<1>4. RowInv'
  BY <1>3 DEF RowInv
<1> QED BY <1>1, <1>2, <1>4 DEF Safe

LEMMA StutterStep ==
  ASSUME IInv, UNCHANGED <<call, row, jws, pc, sending, signing, received, faults>>
  PROVE  Safe'
<1>1. faults' \in Nat /\ faults' >= faults
  BY DEF IInv, TypeOK
<1>2. \A e \in Events : /\ row[e] = "vacuumed" => call'[e] \in {"done", "dropped"}
                        /\ call'[e] = "done" => row[e] # "absent"
  BY DEF IInv, RowInv, NoLoss
<1> QED BY <1>1, <1>2, QuietStep

\* INSERT ... ON CONFLICT DO NOTHING touches a row nobody holds or has sent.
LEMMA InsertStep ==
  ASSUME IInv, NEW e \in Events, InCall(e), InsertRow(e), UNCHANGED <<loops, received>>,
         faults' \in Nat, faults' >= faults,
         \E c \in {"new", "done"} : call' = [call EXCEPT ![e] = c]
  PROVE  Safe'
<1> USE DEF IInv, TypeOK, loops
<1>0. row[e] # "vacuumed"
  BY DEF InCall, RowInv
<1>1. CASE row[e] = "absent"
  <2>1. row' = [row EXCEPT ![e] = "unsent"] /\ received[e] = 0
    BY <1>1 DEF InsertRow, RowInv
  <2>2. \A f \in Events \ {e} : (f \in jws' <=> f \in jws)
    BY <1>1 DEF InsertRow
  <2>3. \A r \in Replicas : e \notin sending[r] /\ e \notin signing[r]
    BY <1>1 DEF BatchInv
  <2>4. LocksExclusive'
    BY DEF LocksExclusive
  <2>5. BatchInv'
    BY <2>1, <2>2, <2>3 DEF BatchInv
  <2>6. NoLoss' /\ SinkSeesSigned'
    BY <2>1, <2>2 DEF NoLoss, SinkSeesSigned
  <2>7. \A f \in Events : Succeeded(f)' <=> Succeeded(f)
    BY <1>1, <2>1 DEF Succeeded
  <2>8. RowInv'
    BY <2>1, <2>7 DEF RowInv
  <2> QED BY <2>4, <2>5, <2>6, <2>8 DEF Safe
<1>2. CASE row[e] # "absent"
  <2>1. UNCHANGED <<row, jws, pc, sending, signing, received>>
    BY <1>0, <1>2 DEF InsertRow
  <2> QED BY <1>0, <1>2, <2>1, QuietStep DEF RowInv, NoLoss
<1> QED BY <1>1, <1>2

\* A writer's step.
LEMMA WriteStep ==
  ASSUME IInv, NEW e \in Events, Write(e)
  PROVE  Safe'
<1> USE DEF loops
<1>1. CASE CreateSignedAuditLog(e)
  <2>1. /\ UNCHANGED <<row, jws, pc, sending, signing, received>>
        /\ faults' \in Nat /\ faults' >= faults
    BY <1>1 DEF CreateSignedAuditLog, Fault, IInv, TypeOK
  <2>2. row[e] # "vacuumed"
    BY <1>1 DEF CreateSignedAuditLog, IInv, RowInv
  <2>3. call' \in [Events -> Calls] /\ call'[e] # "done" /\ \A f \in Events \ {e} : call'[f] = call[f]
    BY <1>1 DEF CreateSignedAuditLog, Kinds, IInv, TypeOK, Calls
  <2> QED BY <2>1, <2>2, <2>3, QuietStep DEF IInv, RowInv, NoLoss
<1>2. CASE InsertOK(e)
  <2>1. faults' \in Nat /\ faults' >= faults
    BY <1>2 DEF InsertOK, IInv, TypeOK
  <2>2. InCall(e) /\ InsertRow(e) /\ UNCHANGED <<loops, received>>
    BY <1>2 DEF InsertOK
  <2>3. \E c \in {"new", "done"} : call' = [call EXCEPT ![e] = c]
    BY <1>2 DEF InsertOK
  <2> QED BY <2>1, <2>2, <2>3, InsertStep
<1>3. CASE InsertError(e)
  <2>1. faults' \in Nat /\ faults' >= faults
    BY <1>3 DEF InsertError, Fault, IInv, TypeOK
  <2>2. CASE InsertRow(e)
    BY <1>3, <2>1, <2>2, InsertStep DEF InsertError
  <2>3. CASE UNCHANGED <<row, emitted, jws, serr>>
    <3>1. row[e] # "vacuumed" /\ InCall(e)
      BY <1>3 DEF InsertError, InCall, IInv, RowInv
    <3>2. call' = [call EXCEPT ![e] = "new"] /\ UNCHANGED <<row, jws, pc, sending, signing, received>>
      BY <1>3, <2>3 DEF InsertError
    <3> QED BY <2>1, <3>1, <3>2, QuietStep DEF IInv, TypeOK, RowInv, NoLoss
  <2> QED BY <1>3, <2>2, <2>3 DEF InsertError
<1>4. CASE GiveUp(e)
  <2>1. /\ call' = [call EXCEPT ![e] = "dropped"]
        /\ UNCHANGED <<row, jws, pc, sending, signing, received, faults>>
    BY <1>4 DEF GiveUp
  <2> QED BY <2>1, QuietStep DEF IInv, TypeOK, RowInv, NoLoss
<1> QED BY <1>1, <1>2, <1>3, <1>4 DEF Write

\* A transaction of the forward loop rolls back, which costs a fault.
LEMMA RollbackStep ==
  ASSUME IInv, NEW r \in Replicas, pc' = [pc EXCEPT ![r] = "idle"],
         sending' = [sending EXCEPT ![r] = {}], faults' = faults + 1,
         \A s \in Replicas : signing'[s] \in {signing[s], {}},
         UNCHANGED <<call, row, jws, received>>
  PROVE  Safe'
<1> USE DEF IInv, TypeOK, PCs
<1>1. LocksExclusive'
  BY DEF LocksExclusive
<1>2. BatchInv'
  BY DEF BatchInv
<1>3. NoLoss' /\ SinkSeesSigned'
  BY DEF NoLoss, SinkSeesSigned
<1>4. RowInv'
  BY DEF RowInv
<1> QED BY <1>1, <1>2, <1>3, <1>4 DEF Safe

\* A loop that is not at "sent" drops its locks.
LEMMA NotSentStep ==
  ASSUME IInv, NEW r \in Replicas, pc[r] # "sent", NEW q \in {"idle", "backoff"},
         pc' = [pc EXCEPT ![r] = q], sending' = [sending EXCEPT ![r] = {}],
         UNCHANGED <<call, row, jws, signing, received, faults>>
  PROVE  Safe'
<1> USE DEF IInv, TypeOK, PCs
<1>1. LocksExclusive'
  BY DEF LocksExclusive
<1>2. BatchInv'
  BY DEF BatchInv
<1>3. NoLoss' /\ SinkSeesSigned'
  BY DEF NoLoss, SinkSeesSigned
<1>4. \A e \in Events : Succeeded(e)' <=> Succeeded(e)
  BY DEF Succeeded
<1>5. RowInv'
  BY <1>4 DEF RowInv
<1> QED BY <1>1, <1>2, <1>3, <1>5 DEF Safe

\* A step of the forward loop.
LEMMA ForwardStep ==
  ASSUME IInv, NEW r \in Replicas, Forward(r)
  PROVE  Safe'
<1> USE DEF IInv, TypeOK, PCs, table
<1>1. CASE DequeuePending(r)
  <2>1. Oldest(PendingRows) \subseteq PendingRows
    BY OldestSubset
  <2>2. /\ pc' = [pc EXCEPT ![r] = "send"]
        /\ sending' = [sending EXCEPT ![r] = Oldest(PendingRows)]
        /\ UNCHANGED <<call, row, jws, signing, received, faults>>
    BY <1>1 DEF DequeuePending
  <2>3. \A e \in sending'[r] : /\ row[e] = "unsent" /\ e \in jws
                               /\ \A s \in Replicas : e \notin sending[s] /\ e \notin signing[s]
    BY <2>1, <2>2 DEF PendingRows, Unsent, Locked
  <2>4. LocksExclusive'
    BY <2>2, <2>3 DEF LocksExclusive
  <2>5. BatchInv'
    BY <2>2, <2>3 DEF BatchInv
  <2>6. NoLoss' /\ SinkSeesSigned'
    BY <2>2 DEF NoLoss, SinkSeesSigned
  <2>7. pc[r] # "sent"
    BY <1>1 DEF DequeuePending
  <2>8. \A e \in Events : Succeeded(e) => Succeeded(e)'
    BY <2>2, <2>7 DEF Succeeded
  <2>9. RowInv'
    BY <2>2, <2>8 DEF RowInv
  <2> QED BY <2>4, <2>5, <2>6, <2>9 DEF Safe
<1>2. CASE SendOK(r)
  <2>1. /\ pc[r] = "send" /\ pc' = [pc EXCEPT ![r] = "sent"]
        /\ UNCHANGED <<call, row, jws, sending, signing, faults>>
    BY <1>2 DEF SendOK
  <2>2. \A e \in Events : received'[e] = received[e] + (IF e \in sending[r] THEN 1 ELSE 0)
    BY <1>2 DEF SendOK, Accept
  <2>3. LocksExclusive'
    BY <2>1 DEF LocksExclusive
  <2>4. \A e \in sending[r] : e \in Events /\ row[e] = "unsent" /\ e \in jws /\ received'[e] > 0
    BY <2>2 DEF BatchInv
  <2>5. BatchInv'
    BY <2>1, <2>2, <2>4 DEF BatchInv
  <2>6. NoLoss' /\ SinkSeesSigned'
    BY <2>1, <2>2, <2>4 DEF NoLoss, SinkSeesSigned
  <2>7. \A e \in Events : Succeeded(e)' <=> (Succeeded(e) \/ e \in sending[r])
    BY <2>1 DEF Succeeded
  <2>8. \A e \in sending[r] : ~Succeeded(e)
    BY <2>1, <2>4 DEF Succeeded, LocksExclusive
  <2>9. RowInv'
    BY <2>1, <2>2, <2>4, <2>7, <2>8 DEF RowInv
  <2> QED BY <2>3, <2>5, <2>6, <2>9 DEF Safe
<1>3. CASE SendError(r)
  <2>1. PICK S \in SUBSET sending[r] : Accept(S)
    BY <1>3 DEF SendError
  <2>2. /\ pc[r] = "send" /\ pc' = [pc EXCEPT ![r] = "failed"] /\ faults' = faults + 1
        /\ UNCHANGED <<call, row, jws, sending, signing>>
    BY <1>3 DEF SendError, Fault
  <2>3. \A e \in Events : received'[e] = received[e] + (IF e \in S THEN 1 ELSE 0)
    BY <2>1 DEF Accept
  <2>4. LocksExclusive'
    BY <2>2 DEF LocksExclusive
  <2>5. \A e \in S : row[e] = "unsent" /\ e \in jws
    BY DEF BatchInv
  <2>6. BatchInv'
    BY <2>2, <2>3 DEF BatchInv
  <2>7. NoLoss' /\ SinkSeesSigned'
    BY <2>2, <2>3, <2>5 DEF NoLoss, SinkSeesSigned
  <2>8. \A e \in Events : Succeeded(e)' <=> Succeeded(e)
    BY <2>2 DEF Succeeded
  <2>9. RowInv'
    BY <2>2, <2>3, <2>5, <2>8 DEF RowInv
  <2> QED BY <2>4, <2>6, <2>7, <2>9 DEF Safe
<1>4. CASE ReleaseSent(r)
  <2>1. /\ pc[r] = "sent" /\ pc' = [pc EXCEPT ![r] = "idle"]
        /\ sending' = [sending EXCEPT ![r] = {}]
        /\ row' = [e \in Events |-> IF e \in sending[r] THEN "sent" ELSE row[e]]
        /\ UNCHANGED <<call, jws, signing, received, faults>>
    BY <1>4 DEF ReleaseSent, EndTx
  <2>2. LocksExclusive'
    BY <2>1 DEF LocksExclusive
  <2>3. BatchInv'
    BY <2>1 DEF BatchInv, LocksExclusive
  <2>4. NoLoss' /\ SinkSeesSigned'
    BY <2>1 DEF BatchInv, NoLoss, SinkSeesSigned
  <2>5. \A e \in Events : Succeeded(e) => Succeeded(e)'
    BY <2>1 DEF Succeeded
  <2>6. RowInv'
    BY <2>1, <2>5 DEF RowInv
  <2> QED BY <2>2, <2>3, <2>4, <2>6 DEF Safe
<1>5. CASE ReleaseSentFails(r)
  BY <1>5, RollbackStep DEF ReleaseSentFails, EndTx, Fault
<1>6. CASE ReleaseFailed(r)
  BY <1>6, NotSentStep DEF ReleaseFailed, EndTx
<1>7. CASE BackoffOver(r)
  <2>1. sending' = [sending EXCEPT ![r] = {}]
    BY <1>7 DEF BackoffOver, BatchInv
  <2> QED BY <1>7, <2>1, NotSentStep DEF BackoffOver
<1> QED BY <1>1, <1>2, <1>3, <1>4, <1>5, <1>6, <1>7 DEF Forward

\* A step of the re-signer loop.
LEMMA ResignStep ==
  ASSUME IInv, NEW r \in Replicas, Resign(r)
  PROVE  Safe'
<1> USE DEF IInv, TypeOK, table
<1>1. CASE DequeueUnsigned(r)
  <2>1. Oldest(UnsignedRows) \subseteq UnsignedRows
    BY OldestSubset
  <2>2. /\ signing' = [signing EXCEPT ![r] = Oldest(UnsignedRows)]
        /\ UNCHANGED <<call, row, jws, pc, sending, received, faults>>
    BY <1>1 DEF DequeueUnsigned
  <2>3. \A e \in signing'[r] : /\ row[e] = "unsent" /\ e \notin jws
                               /\ \A s \in Replicas : e \notin sending[s] /\ e \notin signing[s]
    BY <2>1, <2>2 DEF UnsignedRows, Unsent, Locked
  <2>4. LocksExclusive' /\ BatchInv'
    BY <2>2, <2>3 DEF LocksExclusive, BatchInv
  <2>5. NoLoss' /\ SinkSeesSigned'
    BY <2>2 DEF NoLoss, SinkSeesSigned
  <2>6. RowInv'
    BY <2>2 DEF RowInv, Succeeded
  <2> QED BY <2>4, <2>5, <2>6 DEF Safe
<1>2. CASE ReleaseResign(r)
  <2>1. PICK S \in SUBSET signing[r] : jws' = jws \cup S
    BY <1>2 DEF ReleaseResign
  <2>2. /\ signing' = [signing EXCEPT ![r] = {}]
        /\ UNCHANGED <<call, row, pc, sending, received, faults>>
    BY <1>2 DEF ReleaseResign
  <2>3. LocksExclusive' /\ BatchInv'
    BY <2>1, <2>2 DEF LocksExclusive, BatchInv
  <2>4. NoLoss' /\ SinkSeesSigned'
    BY <2>1, <2>2 DEF NoLoss, SinkSeesSigned
  <2>5. RowInv'
    BY <2>2 DEF RowInv, Succeeded
  <2> QED BY <2>3, <2>4, <2>5 DEF Safe
<1>3. CASE ReleaseResignFails(r)
  <2>1. /\ signing' = [signing EXCEPT ![r] = {}] /\ faults' = faults + 1
        /\ UNCHANGED <<call, row, jws, pc, sending, received>>
    BY <1>3 DEF ReleaseResignFails, Fault
  <2>2. LocksExclusive' /\ BatchInv'
    BY <2>1 DEF LocksExclusive, BatchInv
  <2>3. NoLoss' /\ SinkSeesSigned'
    BY <2>1 DEF NoLoss, SinkSeesSigned
  <2>4. \A e \in Events : Succeeded(e)' <=> Succeeded(e)
    BY <2>1 DEF Succeeded
  <2>5. RowInv'
    BY <2>1, <2>4 DEF RowInv
  <2> QED BY <2>2, <2>3, <2>5 DEF Safe
<1> QED BY <1>1, <1>2, <1>3 DEF Resign

\* Vacuum only touches rows that nobody holds.
LEMMA VacuumStep ==
  ASSUME IInv, Vacuum
  PROVE  Safe'
<1> USE DEF IInv, TypeOK, loops
<1>1. PICK S \in SUBSET {e \in Events : Expired(e)} :
        /\ row' = [e \in Events |-> IF e \in S THEN "vacuumed" ELSE row[e]]
        /\ jws' = jws \ S
        /\ UNCHANGED <<call, loops, received, faults>>
  BY DEF Vacuum
<1>2. \A e \in S : row[e] = "sent" /\ call[e] \in {"done", "dropped"}
  BY DEF Expired, Returned
<1>3. LocksExclusive' /\ BatchInv'
  BY <1>1, <1>2 DEF LocksExclusive, BatchInv
<1>4. NoLoss' /\ SinkSeesSigned'
  BY <1>1, <1>2 DEF NoLoss, SinkSeesSigned
<1>5. \A e \in Events : Succeeded(e)' <=> Succeeded(e)
  BY <1>1, <1>2 DEF Succeeded
<1>6. RowInv'
  BY <1>1, <1>2, <1>5 DEF RowInv
<1> QED BY <1>3, <1>4, <1>6 DEF Safe

LEMMA InvStep == IInv /\ [Next]_vars => IInv'
<1> SUFFICES ASSUME IInv, [Next]_vars PROVE IInv'
  OBVIOUS
<1>1. TypeOK'
  BY TypeStep DEF IInv
<1>2. ASSUME NEW r \in Replicas, Crash(r) PROVE Safe'
  <2>1. \A s \in Replicas : signing'[s] \in {signing[s], {}}
    BY <1>2 DEF Crash, IInv, TypeOK
  <2> QED BY <1>2, <2>1, RollbackStep DEF Crash, EndTx, Fault, table
<1>3. ASSUME NEW r \in Replicas, Stop(r) PROVE Safe'
  <2>1. UNCHANGED <<call, row, jws, pc, sending, signing, received, faults>>
    BY <1>3 DEF Stop, table
  <2> QED BY <2>1, StutterStep
<1>4. ASSUME UNCHANGED vars PROVE Safe'
  BY <1>4, StutterStep DEF vars
<1>5. Safe'
  BY <1>2, <1>3, <1>4, WriteStep, ForwardStep, ResignStep, VacuumStep DEF Next
<1> QED BY <1>1, <1>5 DEF IInv, Safe

LEMMA InvInit == Init => IInv
<1> SUFFICES ASSUME Init PROVE IInv
  OBVIOUS
<1>1. TypeOK
  BY DEF Init, TypeOK, Calls, PCs
<1>2. LocksExclusive /\ NoLoss /\ SinkSeesSigned /\ BatchInv
  BY DEF Init, LocksExclusive, NoLoss, SinkSeesSigned, BatchInv
<1>3. RowInv
  BY DEF Init, RowInv
<1> QED BY <1>1, <1>2, <1>3 DEF IInv

LEMMA Invariant == Spec => []IInv
BY InvInit, InvStep, PTL DEF Spec

-----------------------------------------------------------------------------
(* The theorems.                                                            *)

\* No row is held by two open transactions, for any number of replicas.
THEOREM LocksAreExclusive == Spec => []LocksExclusive
<1>1. IInv => LocksExclusive
  BY DEF IInv
<1> QED BY <1>1, Invariant, PTL

\* No accepted event leaves the table before the sink has taken it.
THEOREM NothingLost == Spec => []NoLoss
<1>1. IInv => NoLoss
  BY DEF IInv
<1> QED BY <1>1, Invariant, PTL

\* The sink only ever sees signed rows.
THEOREM OnlySignedSent == Spec => []SinkSeesSigned
<1>1. IInv => SinkSeesSigned
  BY DEF IInv
<1> QED BY <1>1, Invariant, PTL

\* A second delivery of an event needs a fault.
THEOREM DuplicatesPaidFor == Spec => []DuplicatesNeedFaults
<1>1. IInv => DuplicatesNeedFaults
  BY DEF IInv, RowInv, DuplicatesNeedFaults, TypeOK
<1> QED BY <1>1, Invariant, PTL

\* What a step does to the rows: one is inserted, the batch of a release is
\* marked sent, or sent rows are vacuumed.
LEMMA RowStep ==
  ASSUME IInv, [Next]_vars
  PROVE  \/ UNCHANGED row
         \/ \E e \in Events : /\ row[e] = "absent"
                              /\ row' = [row EXCEPT ![e] = "unsent"]
                              /\ UNCHANGED received
         \/ \E r \in Replicas : /\ pc[r] = "sent"
                                /\ row' = [e \in Events |-> IF e \in sending[r] THEN "sent" ELSE row[e]]
                                /\ UNCHANGED received
         \/ \E S \in SUBSET Events : /\ \A e \in S : row[e] = "sent"
                                     /\ row' = [e \in Events |-> IF e \in S THEN "vacuumed" ELSE row[e]]
                                     /\ UNCHANGED received
<1> USE DEF table, loops
<1>1. ASSUME NEW e \in Events, InsertRow(e), InCall(e), UNCHANGED received
      PROVE  UNCHANGED row \/ (row[e] = "absent" /\ row' = [row EXCEPT ![e] = "unsent"])
  <2>1. row[e] # "vacuumed"
    BY <1>1 DEF InCall, IInv, RowInv
  <2> QED BY <1>1, <2>1 DEF InsertRow
<1>2. ASSUME NEW e \in Events, Write(e)
      PROVE  UNCHANGED row \/ (row[e] = "absent" /\ row' = [row EXCEPT ![e] = "unsent"] /\ UNCHANGED received)
  BY <1>1, <1>2 DEF Write, CreateSignedAuditLog, InsertOK, InsertError, GiveUp
<1>3. ASSUME NEW r \in Replicas, Forward(r)
      PROVE  \/ UNCHANGED row
             \/ /\ pc[r] = "sent"
                /\ row' = [e \in Events |-> IF e \in sending[r] THEN "sent" ELSE row[e]]
                /\ UNCHANGED received
  BY <1>3 DEF Forward, DequeuePending, SendOK, SendError, ReleaseSent, ReleaseSentFails,
              ReleaseFailed, BackoffOver
<1>4. ASSUME NEW r \in Replicas, Resign(r) \/ Crash(r) \/ Stop(r) PROVE UNCHANGED row
  BY <1>4 DEF Resign, DequeueUnsigned, ReleaseResign, ReleaseResignFails, Crash, Stop
<1>5. CASE Vacuum
  <2>1. PICK S \in SUBSET {e \in Events : Expired(e)} :
          row' = [e \in Events |-> IF e \in S THEN "vacuumed" ELSE row[e]] /\ UNCHANGED received
    BY <1>5 DEF Vacuum
  <2>2. S \in SUBSET Events /\ \A e \in S : row[e] = "sent"
    BY DEF Expired
  <2> QED BY <2>1, <2>2
<1>6. CASE UNCHANGED vars
  BY <1>6 DEF vars
<1> QED BY <1>2, <1>3, <1>4, <1>5, <1>6 DEF Next

\* A row that was sent is never sent again: it stays, or Vacuum removes it.
THEOREM SentStaysSent == Spec => SentIsFinal
<1>1. IInv /\ [Next]_vars => [\A e \in Events :
                                 /\ row[e] = "sent" => row'[e] \in {"sent", "vacuumed"}
                                 /\ row[e] = "vacuumed" => row'[e] = "vacuumed"]_vars
  <2> SUFFICES ASSUME IInv, [Next]_vars, NEW e \in Events
               PROVE  /\ row[e] = "sent" => row'[e] \in {"sent", "vacuumed"}
                      /\ row[e] = "vacuumed" => row'[e] = "vacuumed"
    OBVIOUS
  <2> QED BY RowStep DEF IInv, TypeOK, BatchInv
<1> QED BY <1>1, Invariant, PTL DEF Spec, SentIsFinal

-----------------------------------------------------------------------------
(* AuditBuffer implements AuditOutbox.                                      *)

\* What a step does to the deliveries: only rows some replica holds are sent.
LEMMA ReceivedStep ==
  ASSUME [Next]_vars
  PROVE  \/ UNCHANGED received
         \/ \E r \in Replicas : \E S \in SUBSET sending[r] : Accept(S) /\ UNCHANGED row
<1> USE DEF table, loops
<1>1. ASSUME NEW r \in Replicas, Forward(r)
      PROVE  UNCHANGED received \/ \E S \in SUBSET sending[r] : Accept(S) /\ UNCHANGED row
  <2>1. CASE SendOK(r)
    <3>1. Accept(sending[r]) /\ UNCHANGED row
      BY <2>1 DEF SendOK
    <3> QED BY <3>1
  <2>2. CASE SendError(r)
    BY <2>2 DEF SendError
  <2>3. CASE ~SendOK(r) /\ ~SendError(r)
    BY <1>1, <2>3 DEF Forward, DequeuePending, ReleaseSent, ReleaseSentFails,
                      ReleaseFailed, BackoffOver
  <2> QED BY <2>1, <2>2, <2>3
<1>2. ASSUME NEW e \in Events, Write(e) PROVE UNCHANGED received
  BY <1>2 DEF Write, CreateSignedAuditLog, InsertOK, InsertError, GiveUp
<1>3. ASSUME NEW r \in Replicas, Resign(r) \/ Crash(r) \/ Stop(r) PROVE UNCHANGED received
  BY <1>3 DEF Resign, DequeueUnsigned, ReleaseResign, ReleaseResignFails, Crash, Stop
<1>4. CASE Vacuum
  BY <1>4 DEF Vacuum
<1>5. CASE UNCHANGED vars
  BY <1>5 DEF vars
<1> QED BY <1>1, <1>2, <1>3, <1>4, <1>5 DEF Next

\* Every step of the table and its loops is a step of the outbox, or leaves it
\* as it is.
LEMMA OutboxStep == IInv /\ IInv' /\ [Next]_vars => [Outbox!Next]_<<[e \in Events |-> Item(e)], received>>
<1> SUFFICES ASSUME IInv, IInv', [Next]_vars
             PROVE  [Outbox!Next]_<<[e \in Events |-> Item(e)], received>>
  OBVIOUS
<1> DEFINE item == [e \in Events |-> Item(e)]
<1> USE DEF IInv, TypeOK
<1>0. \A e \in Events : item'[e] = Item(e)' /\ item[e] = Item(e)
  OBVIOUS
<1>1. ASSUME UNCHANGED row PROVE UNCHANGED item
  BY <1>1 DEF Item
<1>2. ASSUME NEW r \in Replicas, NEW S \in SUBSET sending[r], Accept(S), UNCHANGED row
      PROVE  Outbox!Next
  <2>1. S \in SUBSET Events /\ \A e \in S : item[e] = "held"
    BY DEF BatchInv, Item
  <2>2. Outbox!Deliver(S)
    BY <1>1, <1>2, <2>1 DEF Outbox!Deliver, Accept
  <2> QED BY <2>1, <2>2 DEF Outbox!Next
<1>3. ASSUME NEW e \in Events, row[e] = "absent", row' = [row EXCEPT ![e] = "unsent"], UNCHANGED received
      PROVE  Outbox!Next
  <2>1. item[e] = "none" /\ item' = [item EXCEPT ![e] = "held"]
    BY <1>3 DEF Item
  <2> QED BY <1>3, <2>1 DEF Outbox!Next, Outbox!Put
<1>4. ASSUME NEW r \in Replicas, pc[r] = "sent", UNCHANGED received,
             row' = [e \in Events |-> IF e \in sending[r] THEN "sent" ELSE row[e]]
      PROVE  Outbox!Next
  <2>1. \A e \in sending[r] : item[e] = "held" /\ received[e] > 0
    BY <1>4 DEF BatchInv, Item
  <2>2. item' = [e \in Events |-> IF e \in sending[r] THEN "retired" ELSE item[e]]
    BY <1>4 DEF Item
  <2>3. Outbox!Retire(sending[r])
    BY <1>4, <2>1, <2>2 DEF Outbox!Retire
  <2> QED BY <2>3 DEF Outbox!Next
<1>5. ASSUME NEW S \in SUBSET Events, \A e \in S : row[e] = "sent",
             row' = [e \in Events |-> IF e \in S THEN "vacuumed" ELSE row[e]]
      PROVE  UNCHANGED item
  BY <1>5 DEF Item
<1>6. CASE UNCHANGED received
  BY <1>1, <1>3, <1>4, <1>5, <1>6, RowStep
<1>7. CASE received' # received
  BY <1>2, <1>7, ReceivedStep
<1> QED BY <1>6, <1>7

\* The audit buffer and its loops implement the at-least-once outbox.
THEOREM BufferImplementsOutbox == Spec => ImplementsOutbox
<1>1. Init => Outbox!Init
  BY DEF Init, Outbox!Init, Item
<1> QED BY <1>1, OutboxStep, Invariant, PTL DEF Spec, ImplementsOutbox, Outbox!Spec

=============================================================================
