--------------------------- MODULE WebhookDelivery --------------------------
(***************************************************************************)
(* Outbound webhooks: the deliveries of one subscription, from Trigger     *)
(* through the delivering goroutines to the retry sweep.                   *)
(*                                                                         *)
(* Code: platform/webhook/{service,retry}.go over the Postgres store       *)
(* (platform/pgstore/webhook_store.go, platform/devstore/webhook_store.go).*)
(* Every store call is a step of its own.  A goroutine whose context ends  *)
(* (Trigger and ExecuteDelivery hand on their caller's) can still run but  *)
(* its store calls fail; for the rows that is the same as a crash, and     *)
(* Drop models both.                                                       *)
(***************************************************************************)
EXTENDS Naturals, FiniteSets

CONSTANTS Deliveries,
          Workers,     \* goroutines running deliver
          MaxRetries, MaxFails,
          Overlap,     \* a sweep may start while deliveries of the last one run
          MaxDrops,    \* bound on cancelled contexts, crashes, lost answers
                       \*   and failed updates
          MaxExec,     \* bound on calls of ExecuteDelivery
          MaxRestarts  \* bound on restarts of the paused webhook

VARIABLES hook, fails,          \* the webhook's row
          status, attempts,     \* the deliveries' rows
          sweep,                \* the rows a RetryFailedDeliveries still holds
          pc, job, seen,        \* goroutines: step, delivery, Attempts it read
          accepted, resent,     \* history: deliveries the receiver took, and those
                                \*   it was sent again after that
          sends, lost,          \* history: requests sent; attempts whose outcome
                                \*   is not in the row
          drops, execs, restarts

hookRow == <<hook, fails>>
rows == <<status, attempts>>
workers == <<pc, job, seen>>
history == <<accepted, resent, sends, lost>>
bounds == <<drops, execs, restarts>>
vars == <<hookRow, rows, sweep, workers, history, bounds>>

Absent == "none"
Steps == {"free", "send", "success", "failure", "reset", "incr", "pause"}

\* Rows, goroutines and counters keep their types.
TypeOK ==
  /\ hook \in {"active", "paused", "deleted"} /\ fails \in Nat
  /\ status \in [Deliveries -> {Absent, "listed", "pending", "success", "failed", "exhausted", "gone"}]
  /\ attempts \in [Deliveries -> Nat]
  /\ sweep \subseteq Deliveries \X (0..MaxRetries - 1)
  /\ pc \in [Workers -> Steps] /\ job \in [Workers -> Deliveries \cup {Absent}]
  /\ seen \in [Workers -> Nat]
  /\ accepted \subseteq Deliveries /\ resent \subseteq accepted
  /\ sends \in [Deliveries -> Nat] /\ lost \in [Deliveries -> 0..MaxDrops]
  /\ drops \in 0..MaxDrops /\ execs \in 0..MaxExec /\ restarts \in 0..MaxRestarts

Init ==
  /\ hook = "active" /\ fails = 0
  /\ status = [d \in Deliveries |-> Absent]
  /\ attempts = [d \in Deliveries |-> 0]
  /\ sweep = {}
  /\ pc = [w \in Workers |-> "free"]
  /\ job = [w \in Workers |-> Absent]
  /\ seen = [w \in Workers |-> 0]
  /\ accepted = {} /\ resent = {}
  /\ sends = [d \in Deliveries |-> 0] /\ lost = [d \in Deliveries |-> 0]
  /\ drops = 0 /\ execs = 0 /\ restarts = 0

Exists(d) == status[d] \notin {Absent, "listed", "gone"}

\* A goroutine starts to deliver d, whose row it read with n attempts.
Spawn(w, d, n) ==
  /\ pc[w] = "free"
  /\ pc' = [pc EXCEPT ![w] = "send"]
  /\ job' = [job EXCEPT ![w] = d]
  /\ seen' = [seen EXCEPT ![w] = n]

Goto(w, step) ==
  /\ pc' = [pc EXCEPT ![w] = step]
  /\ job' = [job EXCEPT ![w] = IF step = "free" THEN Absent ELSE @]
  /\ seen' = [seen EXCEPT ![w] = IF step = "free" THEN 0 ELSE @]

-----------------------------------------------------------------------------
(* Trigger lists the active subscriptions, then creates the delivery.      *)

TriggerList(d) ==
  /\ status[d] = Absent /\ hook = "active"
  /\ status' = [status EXCEPT ![d] = "listed"]
  /\ UNCHANGED <<hookRow, attempts, sweep, workers, history, bounds>>

\* CreateDelivery fails on the foreign key when the webhook is gone.
TriggerCreate(w, d) ==
  /\ status[d] = "listed" /\ hook # "deleted"
  /\ status' = [status EXCEPT ![d] = "pending"]
  /\ Spawn(w, d, 0)
  /\ UNCHANGED <<hookRow, attempts, sweep, history, bounds>>

\* RetryFailedDeliveries: the failed rows with attempts left; the query does
\* not look at next_retry_at.
RetryList ==
  /\ sweep = {}
  /\ Overlap \/ \A w \in Workers : pc[w] = "free"
  /\ sweep' = {<<d, attempts[d]>> : d \in {e \in Deliveries :
                 status[e] = "failed" /\ attempts[e] < MaxRetries}}
  /\ sweep' # {}
  /\ UNCHANGED <<hookRow, rows, workers, history, bounds>>

\* One turn of its loop: the webhook is read again, and skipped unless active.
RetryOne(w, r) ==
  /\ r \in sweep /\ hook = "active"
  /\ sweep' = sweep \ {r}
  /\ Spawn(w, r[1], r[2])
  /\ UNCHANGED <<hookRow, rows, history, bounds>>

RetrySkip(r) ==
  /\ r \in sweep /\ hook # "active"
  /\ sweep' = sweep \ {r}
  /\ UNCHANGED <<hookRow, rows, workers, history, bounds>>

\* ExecuteDelivery delivers whatever row it is given.
ExecuteDelivery(w, d) ==
  /\ Exists(d) /\ execs < MaxExec
  /\ execs' = execs + 1
  /\ Spawn(w, d, attempts[d])
  /\ UNCHANGED <<hookRow, rows, sweep, history, drops, restarts>>

-----------------------------------------------------------------------------
(* deliver and recordFailure.                                              *)

\* One outcome fewer finds its way into the row of d.
Lose(d) ==
  /\ drops < MaxDrops
  /\ drops' = drops + 1
  /\ lost' = [lost EXCEPT ![d] = @ + 1]

\* The request reaches the receiver, which takes the delivery or not.
Sent(d, taken) ==
  /\ sends' = [sends EXCEPT ![d] = @ + 1]
  /\ resent' = IF d \in accepted THEN resent \cup {d} ELSE resent
  /\ accepted' = IF taken THEN accepted \cup {d} ELSE accepted

Respond(w, ok) ==
  /\ pc[w] = "send"
  /\ Sent(job[w], ok)
  /\ Goto(w, IF ok THEN "success" ELSE "failure")
  /\ UNCHANGED <<hookRow, rows, sweep, lost, bounds>>

\* The receiver takes the delivery and the client sees an error: a timeout, a
\* connection cut before the answer.
AnswerLost(w) ==
  /\ pc[w] = "send"
  /\ Sent(job[w], TRUE)
  /\ Lose(job[w])
  /\ Goto(w, "failure")
  /\ UNCHANGED <<hookRow, rows, sweep, execs, restarts>>

\* UpdateDelivery counts the attempt in the row, and sets a next_retry_at that
\* nothing reads; a deleted row is not there.
UpdateDelivery(d, s) ==
  IF Exists(d)
    THEN /\ status' = [status EXCEPT ![d] = s]
         /\ attempts' = [attempts EXCEPT ![d] = @ + 1]
    ELSE UNCHANGED rows

RecordSuccess_AsFailed(w) ==
  /\ pc[w] = "success"
  /\ UpdateDelivery(job[w], "failed")
  /\ Goto(w, "reset")
  /\ UNCHANGED <<hookRow, sweep, history, bounds>>

RecordSuccess(w) ==
  /\ pc[w] = "success"
  /\ UpdateDelivery(job[w], "success")
  /\ Goto(w, "reset")
  /\ UNCHANGED <<hookRow, sweep, history, bounds>>

\* recordFailure decides by the attempts that were read with the row.
Verdict(n) == IF n + 1 < MaxRetries THEN "failed" ELSE "exhausted"

RecordFailure_NotStored(w) ==
  /\ pc[w] = "failure"
  /\ Goto(w, "incr")
  /\ UNCHANGED <<hookRow, rows, sweep, history, bounds>>

RecordFailure(w) ==
  /\ pc[w] = "failure"
  /\ UpdateDelivery(job[w], Verdict(seen[w]))
  /\ Goto(w, "incr")
  /\ UNCHANGED <<hookRow, sweep, history, bounds>>

\* UpdateDelivery fails; its error is dropped and the next call is made.
UpdateFails(w) ==
  /\ pc[w] \in {"success", "failure"}
  /\ Lose(job[w])
  /\ Goto(w, IF pc[w] = "success" THEN "reset" ELSE "incr")
  /\ UNCHANGED <<hookRow, rows, sweep, accepted, resent, sends, execs, restarts>>

ResetFailureCount(w) ==
  /\ pc[w] = "reset"
  /\ fails' = 0
  /\ Goto(w, "free")
  /\ UNCHANGED <<hook, rows, sweep, history, bounds>>

IncrementFailureCount(w) ==
  /\ pc[w] = "incr"
  /\ fails' = IF hook = "deleted" THEN fails ELSE fails + 1
  /\ Goto(w, IF hook # "deleted" /\ fails + 1 >= MaxFails THEN "pause" ELSE "free")
  /\ UNCHANGED <<hook, rows, sweep, history, bounds>>

Pause(w) ==
  /\ pc[w] = "pause"
  /\ hook' = IF hook = "deleted" THEN hook ELSE "paused"
  /\ Goto(w, "free")
  /\ UNCHANGED <<fails, rows, sweep, history, bounds>>

\* The context ends or the process dies: nothing more is written.
Drop(w) ==
  /\ pc[w] # "free"
  /\ IF pc[w] \in {"send", "success", "failure"} THEN Lose(job[w])
     ELSE /\ drops < MaxDrops /\ drops' = drops + 1
          /\ UNCHANGED lost
  /\ Goto(w, "free")
  /\ UNCHANGED <<hookRow, rows, sweep, accepted, resent, sends, execs, restarts>>

-----------------------------------------------------------------------------
(* The administrator.                                                      *)

\* UpdateWebhookStatus; the failure count stays.
Restart ==
  /\ hook = "paused" /\ restarts < MaxRestarts
  /\ hook' = "active" /\ restarts' = restarts + 1
  /\ UNCHANGED <<fails, rows, sweep, workers, history, drops, execs>>

\* DeleteWebhook; the deliveries go with it.
DeleteWebhook ==
  /\ hook # "deleted"
  /\ hook' = "deleted"
  /\ status' = [d \in Deliveries |-> IF status[d] = Absent THEN Absent ELSE "gone"]
  /\ UNCHANGED <<fails, attempts, sweep, workers, history, bounds>>

Deliver(w) ==
  \/ \E ok \in BOOLEAN : Respond(w, ok)
  \/ RecordSuccess(w) \/ RecordFailure(w)
  \/ ResetFailureCount(w) \/ IncrementFailureCount(w) \/ Pause(w)

Retry(w) == RetryList \/ \E r \in sweep : RetryOne(w, r) \/ RetrySkip(r)

Next ==
  \/ \E d \in Deliveries : TriggerList(d)
  \/ \E w \in Workers, d \in Deliveries : TriggerCreate(w, d) \/ ExecuteDelivery(w, d)
  \/ \E w \in Workers : Deliver(w) \/ Retry(w)
  \/ \E w \in Workers : AnswerLost(w) \/ UpdateFails(w) \/ Drop(w)
  \/ Restart \/ DeleteWebhook

Spec == Init /\ [][Next]_vars

\* Goroutines run to their end, and the cron job keeps calling
\* RetryFailedDeliveries.
Fairness ==
  /\ \A w \in Workers : WF_vars(Deliver(w)) /\ SF_vars(Retry(w))
  /\ \A w \in Workers, d \in Deliveries : SF_vars(TriggerCreate(w, d))

-----------------------------------------------------------------------------

\* A delivery is sent at most MaxRetries times, one more time for each outcome
\* that was lost and each call of ExecuteDelivery, and, when a sweep may start
\* while deliveries of the last one run, once more per goroutine. What the
\* receiver took is sent again only after an outcome was lost, by
\* ExecuteDelivery, or by sweeps that overlap.
ResendsAccounted ==
  \A d \in Deliveries :
    /\ sends[d] <= MaxRetries + lost[d] + execs
                    + (IF Overlap THEN Cardinality(Workers) ELSE 0)
    /\ d \in resent => lost[d] > 0 \/ execs > 0 \/ Overlap

\* Every delivery none of whose outcomes is lost comes to success or exhaustion
\* as long as its webhook is neither paused nor deleted, whatever becomes of the
\* others. One whose outcome is lost may stay pending: the sweep takes failed
\* rows only.
Concludes ==
  \A d \in Deliveries :
    status[d] = "pending" ~> (\/ status[d] \in {"success", "exhausted", "gone"}
                             \/ hook # "active" \/ lost[d] > 0)

=============================================================================
