----------------------------- MODULE Scheduler ------------------------------
(***************************************************************************)
(* The cron scheduler on several replicas: each replica ticks, dispatches  *)
(* a goroutine for every task that is due and lets it compete for the      *)
(* lease of that task and tick.                                            *)
(*                                                                         *)
(* Code: platform/scheduler/{scheduler,postgres_locker}.go.  What makes a  *)
(* task due is CronSchedule's subject; here it is the constant DueAt.      *)
(***************************************************************************)
EXTENDS Naturals, FiniteSets

CONSTANTS Replicas, Tasks,
          DueAt,      \* the seconds at which each task is due
          MaxClock,   \* bound on the clock, in seconds
          InMemory,   \* MemoryLocker (TRUE) or PostgresLocker
          MaxFaults,  \* bound on crashes, lock errors and lost leases
          None        \* no replica

Seconds == 1..MaxClock
Leases == Tasks \X Seconds   \* "scheduler:<task>:<second>"

ASSUME SchedulerAssumption ==
  /\ MaxClock \in Nat /\ MaxFaults \in Nat
  /\ InMemory \in BOOLEAN
  /\ DueAt \in [Tasks -> SUBSET Nat]
  /\ None \notin Replicas

VARIABLES clock,     \* the wall clock
          lastTick,  \* Start's lastTick; 0 is the zero time
          run,       \* the runOne goroutine of a replica for a lease
          holder,    \* who holds the lease
          runs,      \* how often the handler was started for the lease
          lost,      \* leases that expired or dropped while held
          faults     \* crashes, lock errors and lost leases so far

vars == <<clock, lastTick, run, holder, runs, lost, faults>>

\* Goroutines, leases and counters keep their types.
TypeOK ==
  /\ clock \in 0..MaxClock
  /\ lastTick \in [Replicas -> 0..MaxClock]
  /\ run \in [Replicas \X Leases -> {"none", "trying", "running", "over"}]
  /\ holder \in [Leases -> Replicas \cup {None}]
  /\ runs \in [Leases -> Nat]
  /\ lost \subseteq Leases
  /\ faults \in 0..MaxFaults

Init ==
  /\ clock = 0
  /\ lastTick = [r \in Replicas |-> 0]
  /\ run = [x \in Replicas \X Leases |-> "none"]
  /\ holder = [l \in Leases |-> None]
  /\ runs = [l \in Leases |-> 0]
  /\ lost = {}
  /\ faults = 0

Fault == faults < MaxFaults /\ faults' = faults + 1

\* A second passes.
Advance ==
  /\ clock < MaxClock
  /\ clock' = clock + 1
  /\ UNCHANGED <<lastTick, run, holder, runs, lost, faults>>

\* The ticker fires: unless this second was already seen, one goroutine is
\* started for each task that is due.
Tick(r) ==
  /\ clock # lastTick[r]
  /\ lastTick' = [lastTick EXCEPT ![r] = clock]
  /\ run' = [x \in Replicas \X Leases |->
               IF x[1] = r /\ x[2][2] = clock /\ clock \in DueAt[x[2][1]]
               THEN "trying" ELSE run[x]]
  /\ UNCHANGED <<clock, holder, runs, lost, faults>>

Free_Always(l) == TRUE

\* pg_try_advisory_lock, or no unexpired entry in the map.
Free(l) == holder[l] = None

TryLock(r, l) ==
  /\ run[r, l] = "trying" /\ Free(l)
  /\ holder' = [holder EXCEPT ![l] = r]
  /\ run' = [run EXCEPT ![r, l] = "running"]
  /\ runs' = [runs EXCEPT ![l] = @ + 1]
  /\ UNCHANGED <<clock, lastTick, lost, faults>>

\* "Another replica got it."
TryLockBusy(r, l) ==
  /\ run[r, l] = "trying" /\ holder[l] # None
  /\ run' = [run EXCEPT ![r, l] = "over"]
  /\ UNCHANGED <<clock, lastTick, holder, runs, lost, faults>>

TryLockError(r, l) ==
  /\ run[r, l] = "trying"
  /\ Fault
  /\ run' = [run EXCEPT ![r, l] = "over"]
  /\ UNCHANGED <<clock, lastTick, holder, runs, lost>>

\* pg_advisory_unlock frees the lock of this session only; MemoryLocker's
\* release deletes the entry, whoever has it by now.
Released(r, l) == IF InMemory \/ holder[l] = r THEN None ELSE holder[l]

Finish_NoSuchState(r, l) ==
  /\ run[r, l] = "running"
  /\ run' = [run EXCEPT ![r, l] = "released"]
  /\ holder' = [holder EXCEPT ![l] = Released(r, l)]
  /\ UNCHANGED <<clock, lastTick, runs, lost, faults>>

\* The handler returns, fails, panics or times out; the lease is released by
\* the deferred call.
Finish(r, l) ==
  /\ run[r, l] = "running"
  /\ run' = [run EXCEPT ![r, l] = "over"]
  /\ holder' = [holder EXCEPT ![l] = Released(r, l)]
  /\ UNCHANGED <<clock, lastTick, runs, lost, faults>>

\* The 90 s of the memory lease pass, or the connection drops, while the
\* handler is still running.
LoseLease(l) ==
  /\ holder[l] # None
  /\ Fault
  /\ holder' = [holder EXCEPT ![l] = None]
  /\ lost' = lost \cup {l}
  /\ UNCHANGED <<clock, lastTick, run, runs>>

\* The process dies and is restarted; its connections and their locks go.
Crash(r) ==
  /\ ~InMemory
  /\ Fault
  /\ lastTick' = [lastTick EXCEPT ![r] = 0]
  /\ run' = [x \in Replicas \X Leases |-> IF x[1] = r THEN "none" ELSE run[x]]
  /\ holder' = [l \in Leases |-> IF holder[l] = r THEN None ELSE holder[l]]
  /\ UNCHANGED <<clock, runs, lost>>

Goroutine(r, l) == TryLock(r, l) \/ TryLockBusy(r, l) \/ Finish(r, l)

Next ==
  \/ Advance
  \/ \E r \in Replicas : Tick(r) \/ Crash(r)
  \/ \E r \in Replicas, l \in Leases : Goroutine(r, l) \/ TryLockError(r, l)
  \/ \E l \in Leases : LoseLease(l)

Spec == Init /\ [][Next]_vars

\* Goroutines are scheduled, and handlers honour their context's timeout,
\* while the scheduler runs.
Fairness == \A r \in Replicas, l \in Leases : WF_vars(Goroutine(r, l))

-----------------------------------------------------------------------------
Running(l) == {r \in Replicas : run[r, l] = "running"}

\* While its lease has not been lost, a task runs on one replica at a time for
\* a tick, and that replica holds the lease.
OneRunnerPerTick ==
  \A l \in Leases \ lost :
    /\ Cardinality(Running(l)) <= 1
    /\ \A r \in Running(l) : holder[l] = r

\* The package comment and README: of all replicas only one wins the lease of
\* a tick, so the task runs once for it.
OneRunPerTick == \A l \in Leases : runs[l] <= 1
=============================================================================
