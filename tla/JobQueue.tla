------------------------------ MODULE JobQueue ------------------------------
(***************************************************************************)
(* The background-job queue: producers enqueue, the goroutines of the      *)
(* Workers claim, execute and settle jobs through one shared Store.        *)
(*                                                                         *)
(* Code: platform/jobs/{jobs,worker,memory_store,postgres_store}.go.       *)
(*                                                                         *)
(* A worker of this model is one processLoop goroutine: goroutines share   *)
(* nothing but the Store.  The clock is abstracted to the set of jobs      *)
(* whose scheduled_at has come; payloads, error texts and locked_at, which *)
(* nothing reads, are left out, and so is the branch of processJob for a   *)
(* job without a handler: Dequeue is given exactly the handled types.      *)
(***************************************************************************)
EXTENDS Naturals, FiniteSets

CONSTANTS Jobs, Workers, Types,
          TypeOf,       \* the type of each job
          Registered,   \* the types each worker has a handler for
          Cancellable,  \* the workers whose context may be cancelled
          MaxRetries,   \* DefaultMaxRetries
          MaxFaults,    \* bound on crashes and failed store calls
          None          \* no worker, no job

ASSUME JobAssumption ==
  /\ IsFiniteSet(Jobs)
  /\ TypeOf \in [Jobs -> Types]
  /\ Registered \in [Workers -> SUBSET Types]
  /\ Cancellable \subseteq Workers
  /\ MaxRetries \in Nat \ {0}
  /\ MaxFaults \in Nat
  /\ None \notin Workers \cup Jobs

VARIABLES status, attempts, lockedBy,  \* columns of the job's row
          prio, createdAt,             \* its place in the dequeue order
          due,        \* jobs whose scheduled_at is null or has come
          pc,         \* where each worker's loop is
          job, tries, \* the job the worker holds, the Attempts of its copy
          cancelled,  \* workers whose context is done
          succeeded,  \* history: jobs whose handler returned nil
          faults      \* crashes and failed store calls so far

rows == <<status, attempts, lockedBy, prio, createdAt, due>>
vars == <<rows, pc, job, tries, cancelled, succeeded, faults>>

Statuses == {"absent", "pending", "running", "completed", "dead"}
PCs == {"top", "poll", "execute", "succeeded", "failed", "stopped", "crashed"}

\* The rows, the loops and the history keep their types.
TypeOK ==
  /\ status \in [Jobs -> Statuses]
  /\ attempts \in [Jobs -> Nat]
  /\ lockedBy \in [Jobs -> Workers \cup {None}]
  /\ prio \in [Jobs -> {0, 1}]
  /\ createdAt \in [Jobs -> Nat]
  /\ due \subseteq Jobs
  /\ pc \in [Workers -> PCs]
  /\ job \in [Workers -> Jobs \cup {None}]
  /\ tries \in [Workers -> Nat]
  /\ cancelled \subseteq Workers
  /\ succeeded \subseteq Jobs
  /\ faults \in Nat

Init ==
  /\ status = [j \in Jobs |-> "absent"]
  /\ attempts = [j \in Jobs |-> 0]
  /\ lockedBy = [j \in Jobs |-> None]
  /\ prio = [j \in Jobs |-> 0]
  /\ createdAt = [j \in Jobs |-> 0]
  /\ due = {}
  /\ pc = [w \in Workers |-> "top"]
  /\ job = [w \in Workers |-> None]
  /\ tries = [w \in Workers |-> 0]
  /\ cancelled = {}
  /\ succeeded = {}
  /\ faults = 0

Fault == faults < MaxFaults /\ faults' = faults + 1
\* A store call of w may fail: at any time, and for a cancelled context freely.
CallFails(w) == (w \in cancelled /\ UNCHANGED faults) \/ Fault

-----------------------------------------------------------------------------
(* Producers.                                                              *)

\* Enqueue, EnqueueHigh, and EnqueueDelayed or EnqueueAt: only a job of
\* normal priority can have a scheduled_at.
Enqueue(j) ==
  /\ status[j] = "absent"
  /\ status' = [status EXCEPT ![j] = "pending"]
  /\ createdAt' = [createdAt EXCEPT ![j] = Cardinality({k \in Jobs : status[k] # "absent"})]
  /\ \/ /\ \E p \in {0, 1} : prio' = [prio EXCEPT ![j] = p]
        /\ due' = due \cup {j}
     \/ UNCHANGED <<prio, due>>
  /\ UNCHANGED <<attempts, lockedBy, pc, job, tries, cancelled, succeeded, faults>>

\* Time passes the scheduled_at of a pending job.
TimeComes(j) ==
  /\ status[j] = "pending" /\ j \notin due
  /\ due' = due \cup {j}
  /\ UNCHANGED <<status, attempts, lockedBy, prio, createdAt, pc, job, tries, cancelled,
                 succeeded, faults>>

-----------------------------------------------------------------------------
(* The worker loop.                                                        *)

Loop(w) ==
  /\ pc[w] = "top"
  /\ pc' = [pc EXCEPT ![w] = IF w \in cancelled THEN "stopped" ELSE "poll"]
  /\ UNCHANGED <<rows, job, tries, cancelled, succeeded, faults>>

Eligible_Running(w) ==
  {j \in Jobs : status[j] \in {"pending", "running"} /\ TypeOf[j] \in Registered[w] /\ j \in due}

Eligible_Dead(w) ==
  {j \in Jobs : status[j] \in {"pending", "dead"} /\ TypeOf[j] \in Registered[w] /\ j \in due}

Eligible(w) ==
  {j \in Jobs : status[j] = "pending" /\ TypeOf[j] \in Registered[w] /\ j \in due}

\* ORDER BY priority DESC, created_at ASC.
Precedes(j, k) == prio[j] > prio[k] \/ (prio[j] = prio[k] /\ createdAt[j] < createdAt[k])
First(w) == {j \in Eligible(w) : \A k \in Eligible(w) \ {j} : Precedes(j, k)}

Claim_NoCount(w, j) ==
  /\ status' = [status EXCEPT ![j] = "running"]
  /\ lockedBy' = [lockedBy EXCEPT ![j] = w]
  /\ UNCHANGED <<attempts, prio, createdAt, due>>

Claim(w, j) ==
  /\ status' = [status EXCEPT ![j] = "running"]
  /\ lockedBy' = [lockedBy EXCEPT ![j] = w]
  /\ attempts' = [attempts EXCEPT ![j] = @ + 1]
  /\ UNCHANGED <<prio, createdAt, due>>

Dequeue(w) ==
  /\ pc[w] = "poll"
  /\ \E j \in First(w) :
       /\ Claim(w, j)
       /\ job' = [job EXCEPT ![w] = j]
       /\ tries' = [tries EXCEPT ![w] = attempts'[j]]
  /\ pc' = [pc EXCEPT ![w] = "execute"]
  /\ UNCHANGED <<cancelled, succeeded, faults>>

\* No row: sleep one poll interval, then round the loop.
DequeueNone(w) ==
  /\ pc[w] = "poll" /\ Eligible(w) = {}
  /\ pc' = [pc EXCEPT ![w] = "top"]
  /\ UNCHANGED <<rows, job, tries, cancelled, succeeded, faults>>

\* The statement fails, or it takes effect and its answer is lost.
DequeueError(w) ==
  /\ pc[w] = "poll"
  /\ CallFails(w)
  /\ UNCHANGED rows \/ \E j \in First(w) : Claim(w, j)
  /\ pc' = [pc EXCEPT ![w] = "top"]
  /\ UNCHANGED <<job, tries, cancelled, succeeded>>

\* The handler returns nil, or an error; a panic or the job timeout is one.
Execute(w) ==
  /\ pc[w] = "execute"
  /\ \/ /\ pc' = [pc EXCEPT ![w] = "succeeded"]
        /\ succeeded' = succeeded \cup {job[w]}
     \/ /\ pc' = [pc EXCEPT ![w] = "failed"]
        /\ UNCHANGED succeeded
  /\ UNCHANGED <<rows, job, tries, cancelled, faults>>

\* The worker settles its job in the store and goes back to the top.
Settle(w, s) ==
  /\ status' = [status EXCEPT ![job[w]] = s]
  /\ lockedBy' = [lockedBy EXCEPT ![job[w]] = None]
  /\ pc' = [pc EXCEPT ![w] = "top"]
  /\ job' = [job EXCEPT ![w] = None]
  /\ UNCHANGED <<attempts, prio, createdAt, tries, cancelled, succeeded, faults>>

Complete(w) ==
  /\ pc[w] = "succeeded"
  /\ Settle(w, "completed")
  /\ UNCHANGED due


Exhausted(w) == tries[w] >= MaxRetries

MarkDead(w) ==
  /\ pc[w] = "failed" /\ Exhausted(w)
  /\ Settle(w, "dead")
  /\ UNCHANGED due

\* scheduled_at becomes now plus a positive back-off.
Retry(w) ==
  /\ pc[w] = "failed" /\ ~Exhausted(w)
  /\ Settle(w, "pending")
  /\ due' = due \ {job[w]}

\* Complete, Retry or MarkDead fails: the error is logged or ignored, and the
\* row stays as it is.
SettleFails(w) ==
  /\ pc[w] \in {"succeeded", "failed"}
  /\ CallFails(w)
  /\ pc' = [pc EXCEPT ![w] = "top"]
  /\ job' = [job EXCEPT ![w] = None]
  /\ UNCHANGED <<rows, tries, cancelled, succeeded>>

Cancel(w) ==
  /\ w \in Cancellable \ cancelled
  /\ cancelled' = cancelled \cup {w}
  /\ UNCHANGED <<rows, pc, job, tries, succeeded, faults>>

Crash(w) ==
  /\ pc[w] \notin {"stopped", "crashed"}
  /\ Fault
  /\ pc' = [pc EXCEPT ![w] = "crashed"]
  /\ job' = [job EXCEPT ![w] = None]
  /\ UNCHANGED <<rows, tries, cancelled, succeeded>>

Step(w) ==
  \/ Loop(w) \/ Dequeue(w) \/ DequeueNone(w) \/ Execute(w)
  \/ Complete(w) \/ MarkDead(w) \/ Retry(w)

Next ==
  \/ \E j \in Jobs : Enqueue(j) \/ TimeComes(j)
  \/ \E w \in Workers : Step(w) \/ DequeueError(w) \/ SettleFails(w) \/ Cancel(w) \/ Crash(w)

Spec == Init /\ [][Next]_vars

\* Goroutines keep being scheduled, handlers return (every handler runs under
\* the job timeout) and the clock advances, while the queue runs.
Fairness ==
  /\ \A w \in Workers : WF_vars(Step(w))
  /\ \A j \in Jobs : WF_vars(TimeComes(j))

-----------------------------------------------------------------------------
\* A claimed job has one holder, and the holder's copy is up to date: the row
\* is running, names the holder and has the Attempts of the copy.  This is
\* what lets the settle calls, which name only the job, be unconditional.
OneHolder ==
  \A w \in Workers : job[w] # None =>
    /\ status[job[w]] = "running" /\ lockedBy[job[w]] = w
    /\ attempts[job[w]] = tries[w]
    /\ \A v \in Workers \ {w} : job[v] # job[w]


\* Without faults every job of a handled type is completed or dead in the end.
JobsFinish ==
  \A j \in Jobs : (\E w \in Workers : TypeOf[j] \in Registered[w]) =>
    (status[j] = "pending" ~> status[j] \in {"completed", "dead"})

=============================================================================
