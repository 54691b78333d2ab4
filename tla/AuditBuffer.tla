---------------------------- MODULE AuditBuffer ----------------------------
(***************************************************************************)
(* The durable half of the audit pipeline: SignedStore signs an event and  *)
(* hands it to PostgresBufferStore, and on every replica a Forwarder runs  *)
(* a forward loop (table -> sink) and a re-signer loop (unsigned rows).    *)
(*                                                                         *)
(* Code: platform/audit/{signed,postgres_buffer,forwarder,otlp_sink}.go.   *)
(*                                                                         *)
(* An event stands for its jti, the unique key of the table.  A dequeue    *)
(* opens a transaction that keeps its rows locked until it is released;    *)
(* the batch a loop holds is the set of rows its transaction has locked.   *)
(* Columns that no decision reads (attempts, last_error, tenant_id) and    *)
(* the length of the back-off are left out.                                *)
(***************************************************************************)
EXTENDS Naturals, FiniteSets

CONSTANTS Events,     \* jtis
          Legacy,     \* the events whose caller bypasses SignedStore
          Replicas,   \* processes that run a Forwarder on the same table
          Stoppable,  \* the replicas whose Forwarder may be stopped for good
          Writers,    \* how many Loggers write: each is one goroutine
          HardCap,    \* PostgresBufferStore.hardCap; 0 disables it
          BatchSize,  \* Forwarder.batchSize
          MaxFaults   \* bound on crashes, failed releases and failed sends

ASSUME BufferAssumption ==
  /\ IsFiniteSet(Events)
  /\ Writers \in Nat
  /\ HardCap \in Nat
  /\ BatchSize \in Nat \ {0}
  /\ MaxFaults \in Nat
  /\ Stoppable \subseteq Replicas
  /\ Legacy \subseteq Events

VARIABLES call,      \* the CreateSignedAuditLog call for the event
          row,       \* the event's row: absent, unsent, sent, vacuumed
          emitted,   \* emitted_at
          jws,       \* the rows whose jws_compact is not empty
          serr,      \* the rows whose signing_error is not null
          pc,        \* where the forward loop of each replica is
          sending,   \* the rows locked by its transaction
          signing,   \* the rows locked by the replica's re-signer loop
          running,   \* the Forwarder of the replica has not been stopped
          received,  \* how often the sink has accepted the event
          faults     \* crashes, failed releases and failed sends so far

vars == <<call, row, emitted, jws, serr, pc, sending, signing, running, received, faults>>
table == <<call, row, emitted, jws, serr>>
loops == <<pc, sending, signing, running>>

Calls == {"new", "signed", "unsigned", "legacy", "done", "dropped"}
PCs == {"idle", "send", "sent", "failed", "backoff"}

\* Columns and row states as Init leaves them, and as every step keeps them.
TypeOK ==
  /\ call \in [Events -> Calls]
  /\ row \in [Events -> {"absent", "unsent", "sent", "vacuumed"}]
  /\ emitted \in [Events -> Nat]
  /\ jws \subseteq Events
  /\ serr \subseteq Events
  /\ pc \in [Replicas -> PCs]
  /\ sending \in [Replicas -> SUBSET Events]
  /\ signing \in [Replicas -> SUBSET Events]
  /\ running \in [Replicas -> BOOLEAN]
  /\ received \in [Events -> Nat]
  /\ faults \in Nat

Init ==
  /\ call = [e \in Events |-> "new"]
  /\ row = [e \in Events |-> "absent"]
  /\ emitted = [e \in Events |-> 0]
  /\ jws = {}
  /\ serr = {}
  /\ pc = [r \in Replicas |-> "idle"]
  /\ sending = [r \in Replicas |-> {}]
  /\ signing = [r \in Replicas |-> {}]
  /\ running = [r \in Replicas |-> TRUE]
  /\ received = [e \in Events |-> 0]
  /\ faults = 0

Unsent == {e \in Events : row[e] = "unsent"}
BufferDepth == Cardinality(Unsent)
Fault == faults < MaxFaults /\ faults' = faults + 1

-----------------------------------------------------------------------------
(* Writers.  A call first signs, then compares the depth with the cap and   *)
(* then inserts: three statements, so calls of several replicas interleave. *)

\* A call passes the check below the cap, and also (a fault) when the depth
\* cannot be read: err == nil is part of the condition.
UnderCap_OffByOne == HardCap = 0 \/ BufferDepth <= HardCap
UnderCap == HardCap = 0 \/ BufferDepth < HardCap

\* SignedStore.CreateAuditLog arrives with a JWS or with a signing error (KMS
\* failure), PostgresBufferStore.CreateAuditLog with neither.
Kinds(e) == IF e \in Legacy THEN {"legacy"} ELSE {"signed", "unsigned"}

InCall(e) == call[e] \in {"signed", "unsigned", "legacy"}
InFlight == {e \in Events : InCall(e)}

\* Logger.run makes one call at a time.
CreateSignedAuditLog(e) ==
  /\ call[e] = "new"
  /\ Cardinality(InFlight) < Writers
  /\ \E kind \in Kinds(e) : call' = [call EXCEPT ![e] = kind]
  /\ (UnderCap /\ UNCHANGED faults) \/ Fault
  /\ UNCHANGED <<row, emitted, jws, serr, loops, received>>

InsertRow_Upsert(e) ==
  /\ row' = [row EXCEPT ![e] = "unsent"]
  /\ jws' = IF call[e] = "signed" THEN jws \cup {e} ELSE jws
  /\ UNCHANGED <<emitted, serr>>

\* INSERT ... ON CONFLICT (jti) DO NOTHING.
InsertRow(e) ==
  IF row[e] \in {"absent", "vacuumed"}
  THEN /\ row' = [row EXCEPT ![e] = "unsent"]
       /\ emitted' = [emitted EXCEPT ![e] = Cardinality({f \in Events : row[f] # "absent"})]
       /\ jws' = IF call[e] = "signed" THEN jws \cup {e} ELSE jws \ {e}
       /\ serr' = IF call[e] = "unsigned" THEN serr \cup {e} ELSE serr \ {e}
  ELSE UNCHANGED <<row, emitted, jws, serr>>

\* The call returns nil.
InsertOK(e) ==
  /\ InCall(e)
  /\ InsertRow(e)
  /\ call' = [call EXCEPT ![e] = "done"]
  /\ UNCHANGED <<loops, received, faults>>

\* The call returns an error: either nothing was inserted, or the insert was
\* committed and the answer lost.  The caller may try again with the same jti.
InsertError(e) ==
  /\ InCall(e)
  /\ InsertRow(e) \/ UNCHANGED <<row, emitted, jws, serr>>
  /\ call' = [call EXCEPT ![e] = "new"]
  /\ Fault
  /\ UNCHANGED <<loops, received>>

\* audit.Logger only logs the error; no further call is made for the event.
GiveUp(e) ==
  /\ call[e] = "new"
  /\ call' = [call EXCEPT ![e] = "dropped"]
  /\ UNCHANGED <<row, emitted, jws, serr, loops, received, faults>>

-----------------------------------------------------------------------------
(* FOR UPDATE SKIP LOCKED ... ORDER BY emitted_at LIMIT batchSize.          *)

Locked == UNION {sending[r] \cup signing[r] : r \in Replicas}
Oldest(S) == {e \in S : Cardinality({f \in S : emitted[f] < emitted[e]}) < BatchSize}

PendingRows_IgnoresLocks == Unsent \cap jws
PendingRows_Resends == jws \ Locked
PendingRows_AnySignature == Unsent \ Locked
PendingRows == (Unsent \cap jws) \ Locked
UnsignedRows == ((Unsent \ jws) \cap serr) \ Locked

-----------------------------------------------------------------------------
(* The forward loop: drainOnce.                                             *)

\* An empty batch commits at once and leaves the loop where it was.
DequeuePending(r) ==
  /\ pc[r] = "idle" /\ running[r]
  /\ PendingRows # {}
  /\ pc' = [pc EXCEPT ![r] = "send"]
  /\ sending' = [sending EXCEPT ![r] = Oldest(PendingRows)]
  /\ UNCHANGED <<table, signing, running, received, faults>>

Accept(S) == received' = [e \in Events |-> received[e] + (IF e \in S THEN 1 ELSE 0)]

SendOK(r) ==
  /\ pc[r] = "send"
  /\ Accept(sending[r])
  /\ pc' = [pc EXCEPT ![r] = "sent"]
  /\ UNCHANGED <<table, sending, signing, running, faults>>

\* Send returns an error, after the sink has taken some part of the batch.
SendError(r) ==
  /\ pc[r] = "send"
  /\ \E S \in SUBSET sending[r] : Accept(S)
  /\ pc' = [pc EXCEPT ![r] = "failed"]
  /\ Fault
  /\ UNCHANGED <<table, sending, signing, running>>

\* The transaction ends and the loop goes on at q.
EndTx_NoSuchState(r, q) ==
  pc' = [pc EXCEPT ![r] = "stopped"] /\ sending' = [sending EXCEPT ![r] = {}]
EndTx_KeepsLocks(r, q) == pc' = [pc EXCEPT ![r] = q] /\ UNCHANGED sending
EndTx(r, q) ==
  /\ pc' = [pc EXCEPT ![r] = q]
  /\ sending' = [sending EXCEPT ![r] = {}]

\* release(true): sent_at is set for the batch and the transaction commits.
ReleaseSent(r) ==
  /\ pc[r] = "sent"
  /\ row' = [e \in Events |-> IF e \in sending[r] THEN "sent" ELSE row[e]]
  /\ EndTx(r, "idle")
  /\ UNCHANGED <<call, emitted, jws, serr, signing, running, received, faults>>

\* The update or the commit fails; drainOnce ignores the error.
ReleaseSentFails(r) ==
  /\ pc[r] = "sent"
  /\ EndTx(r, "idle")
  /\ Fault
  /\ UNCHANGED <<table, signing, running, received>>

ReleaseFailed_MarksSent(r) ==
  /\ pc[r] = "failed"
  /\ row' = [e \in Events |-> IF e \in sending[r] THEN "sent" ELSE row[e]]
  /\ EndTx(r, "backoff")
  /\ UNCHANGED <<call, emitted, jws, serr, signing, running, received, faults>>

\* release(false) frees the rows, committed or not; then the loop backs off.
ReleaseFailed(r) ==
  /\ pc[r] = "failed"
  /\ EndTx(r, "backoff")
  /\ UNCHANGED <<table, signing, running, received, faults>>

BackoffOver(r) ==
  /\ pc[r] = "backoff"
  /\ pc' = [pc EXCEPT ![r] = "idle"]
  /\ UNCHANGED <<table, sending, signing, running, received, faults>>

-----------------------------------------------------------------------------
(* The re-signer loop: resignOnce.  What it does to the rows between the    *)
(* dequeue and the release is visible to nobody else.                       *)

DequeueUnsigned(r) ==
  /\ signing[r] = {} /\ running[r]
  /\ UnsignedRows # {}
  /\ signing' = [signing EXCEPT ![r] = Oldest(UnsignedRows)]
  /\ UNCHANGED <<table, pc, sending, running, received, faults>>

\* SignForResign and SetJWSInTx succeed for the rows of S, the others do not
\* parse or the KMS still fails for them.  release(true) then clears
\* signing_error for the whole batch, also for the rows that are not signed.
ReleaseResign(r) ==
  /\ signing[r] # {}
  /\ \E S \in SUBSET signing[r] : jws' = jws \cup S
  /\ serr' = serr \ signing[r]
  /\ signing' = [signing EXCEPT ![r] = {}]
  /\ UNCHANGED <<call, row, emitted, pc, sending, running, received, faults>>

\* A failed SetJWSInTx has aborted the transaction, or its commit fails.
ReleaseResignFails(r) ==
  /\ signing[r] # {}
  /\ signing' = [signing EXCEPT ![r] = {}]
  /\ Fault
  /\ UNCHANGED <<table, pc, sending, running, received>>

-----------------------------------------------------------------------------
(* Life cycle of a replica, and retention.                                  *)

\* The process dies or its context is cancelled: open transactions roll back.
Crash(r) ==
  /\ pc[r] # "idle" \/ signing[r] # {}
  /\ EndTx(r, "idle")
  /\ signing' = [signing EXCEPT ![r] = {}]
  /\ Fault
  /\ UNCHANGED <<table, running, received>>

\* Stop closes done: a loop in its select returns, a batch is still finished.
Stop(r) ==
  /\ r \in Stoppable /\ running[r]
  /\ running' = [running EXCEPT ![r] = FALSE]
  /\ UNCHANGED <<table, pc, sending, signing, received, faults>>

Returned(e) == call[e] \in {"done", "dropped"}
Expired_AnyRow(e) == row[e] \in {"sent", "unsent"} /\ Returned(e)
Expired(e) == row[e] = "sent" /\ Returned(e)

\* Vacuum deletes rows sent more than retentionDays (at least one day) ago;
\* by then no caller retries the event any more.
Vacuum ==
  \E S \in SUBSET {e \in Events : Expired(e)} :
    /\ S # {}
    /\ row' = [e \in Events |-> IF e \in S THEN "vacuumed" ELSE row[e]]
    /\ jws' = jws \ S
    /\ serr' = serr \ S
    /\ UNCHANGED <<call, emitted, loops, received, faults>>

Write(e) ==
  \/ CreateSignedAuditLog(e) \/ InsertOK(e) \/ InsertError(e) \/ GiveUp(e)

Forward(r) ==
  \/ DequeuePending(r) \/ SendOK(r) \/ SendError(r)
  \/ ReleaseSent(r) \/ ReleaseSentFails(r) \/ ReleaseFailed(r) \/ BackoffOver(r)

Resign(r) == DequeueUnsigned(r) \/ ReleaseResign(r) \/ ReleaseResignFails(r)

Next ==
  \/ \E e \in Events : Write(e)
  \/ \E r \in Replicas : Forward(r) \/ Resign(r) \/ Crash(r) \/ Stop(r)
  \/ Vacuum

\* The loops keep ticking; faults are finite, so sends and releases succeed
\* in the end.  Nobody is obliged to write, to stop or to vacuum.
Fairness ==
  \A r \in Replicas :
    /\ WF_vars(DequeuePending(r)) /\ WF_vars(SendOK(r))
    /\ WF_vars(ReleaseSent(r)) /\ WF_vars(ReleaseFailed(r))
    /\ WF_vars(BackoffOver(r))

Spec == Init /\ [][Next]_vars

-----------------------------------------------------------------------------
(* Properties.                                                              *)

\* FOR UPDATE SKIP LOCKED: two open transactions, of the two loops or of two
\* replicas, never hold the same row, so no row is sent by two at a time.
LocksExclusive ==
  \A r, s \in Replicas :
    /\ sending[r] \cap signing[s] = {}
    /\ r # s => sending[r] \cap sending[s] = {} /\ signing[r] \cap signing[s] = {}

\* An event whose call returned nil is in the table until the sink has taken
\* it: neither a crash, nor a failed release, nor Vacuum loses it.
NoLoss ==
  \A e \in Events :
    /\ call[e] = "done" => row[e] # "absent"
    /\ row[e] \in {"sent", "vacuumed"} => received[e] > 0

\* Delivery is at least once, and each delivery beyond the first is paid for
\* by a fault: the loops alone never send an event twice.
DuplicatesNeedFaults == \A e \in Events : received[e] <= 1 + faults

\* The depth is compared with the cap in one statement and the row inserted in
\* another, so the table outgrows the cap, but by no more than the other calls
\* that can be between the two, and the calls that could not read the depth.
CapOvershoot == HardCap > 0 => BufferDepth < HardCap + Writers + faults

\* The sink only ever sees signed rows, and a row it has seen keeps its JWS.
SinkSeesSigned ==
  \A e \in Events : received[e] > 0 /\ row[e] # "vacuumed" => e \in jws

\* A row that was sent stays sent until Vacuum removes it, whatever a retried
\* call, a late release or a re-signing transaction does.
SentIsFinal ==
  [][\A e \in Events : /\ row[e] = "sent" => row'[e] \in {"sent", "vacuumed"}
                       /\ row[e] = "vacuumed" => row'[e] = "vacuumed"]_vars

\* A signed row is sent to the sink in the end, also after crashes, failed
\* sends and a replica that stops while it holds the row.
SignedForwarded ==
  \A e \in Events : (row[e] = "unsent" /\ e \in jws) ~> row[e] \in {"sent", "vacuumed"}

\* The table and its loops implement an at-least-once outbox: held while
\* unsent, retired by the release that sets sent_at.
Item(e) == CASE row[e] = "absent" -> "none"
             [] row[e] = "unsent" -> "held"
             [] OTHER -> "retired"

Outbox == INSTANCE AuditOutbox WITH item <- [e \in Events |-> Item(e)]
ImplementsOutbox == Outbox!Spec

\* What the comment on SignedStore.CreateAuditLog promises: an unsigned row
\* stays in the re-signer's input set until it has been signed.
UnsignedRetried ==
  \A e \in Events : (row[e] = "unsent" /\ e \notin jws) => e \in serr

=============================================================================
