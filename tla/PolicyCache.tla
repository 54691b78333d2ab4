----------------------------- MODULE PolicyCache ----------------------------
(***************************************************************************)
(* The policy cache of one replica: a listener that refreshes a key for    *)
(* every NOTIFY, a poller that refreshes what changed since its last       *)
(* success, and Shutdown, which waits for both.                            *)
(*                                                                         *)
(* Code: platform/policycache/{policy_cache,poller,listener,cache}.go.     *)
(* The callbacks refresh and refreshOne belong to the consumer; they are   *)
(* modelled as the README gives them: the rows updated since lastSeen are  *)
(* read and Set one by one, one row is read and Set, or Invalidated when   *)
(* there is none.                                                          *)
(*                                                                         *)
(* A row is represented by its updated_at, which is unique: 0 is no row,   *)
(* and no cache entry. A writer's transaction stamps the row when it       *)
(* begins and shows it when it commits, so a row may appear long after its *)
(* updated_at, and two writers of a key may commit in either order. One    *)
(* that rolls back is one that never commits.                              *)
(***************************************************************************)
EXTENDS Integers, Sequences

CONSTANTS Keys,
          Slots,      \* refreshOne goroutines that may run at once
          MaxWrites,  \* bound on the writes to the table
          Listening0, \* LISTEN works; otherwise every NOTIFY is lost
          Deletable,  \* the keys whose row may be deleted
          MayStop,    \* whether Shutdown is called
          MaxFaults   \* bound on failed queries and lost connections

VARIABLES db, clock,           \* the table; the time of its last stamp
          open,                \* stamped rows of transactions under way
          late,                \* history: rows committed too late for the poll
                               \*   whose window their updated_at falls in
          queue, listening,    \* notifications under way, the listener's loop
          slot,                \* refreshOne goroutines
          ppc, prev, startedAt, todo, lastSeen,  \* the poller
          cache,
          wg, phase,           \* WaitGroup counter, progress of Shutdown
          faults

table == <<db, clock, open, late>>
poller == <<ppc, prev, startedAt, todo, lastSeen>>
vars == <<table, queue, listening, slot, poller, cache, wg, phase, faults>>

Time == 0..MaxWrites
Free == [pc |-> "free", k |-> "none", v |-> 0]

\* The table, the goroutines, the cache and the counters keep their types.
TypeOK ==
  /\ db \in [Keys -> Time] /\ clock \in Time
  /\ open \subseteq Keys \X Time /\ late \subseteq Keys \X Time
  /\ queue \in Seq(Keys) /\ listening \in BOOLEAN
  /\ slot \in [Slots -> [pc : {"free", "get", "set"}, k : Keys \cup {"none"}, v : Time]]
  /\ ppc \in {"idle", "query", "set", "exited"}
  /\ prev \in Time /\ startedAt \in Time /\ lastSeen \in Time
  /\ todo \subseteq Keys \X Time
  /\ cache \in [Keys -> Time]
  /\ wg \in Nat
  /\ phase \in {"running", "cancelled", "done"}
  /\ faults \in 0..MaxFaults

Init ==
  /\ db = [k \in Keys |-> 0] /\ clock = 0 /\ open = {} /\ late = {}
  /\ queue = <<>> /\ listening = Listening0
  /\ slot = [s \in Slots |-> Free]
  /\ ppc = "idle" /\ prev = 0 /\ startedAt = 0 /\ todo = {} /\ lastSeen = 0
  /\ cache = [k \in Keys |-> 0]
  /\ wg = IF Listening0 THEN 2 ELSE 1
  /\ phase = "running"
  /\ faults = 0

Fault == faults < MaxFaults /\ faults' = faults + 1

-----------------------------------------------------------------------------
(* Writers of the table, anywhere; the trigger sends the NOTIFY.           *)

\* A transaction begins and stamps the row it writes.
Begin(k) ==
  /\ clock < MaxWrites
  /\ clock' = clock + 1
  /\ open' = open \cup {<<k, clock + 1>>}
  /\ UNCHANGED <<db, late, queue, listening, slot, poller, cache, wg, phase, faults>>

\* No later poll asks for a row stamped t: lastSeen is past it, or will be when
\* the poll that has made its query succeeds.
PastPolling(t) == t <= lastSeen \/ (ppc = "set" /\ t <= startedAt)

Notify(k) == queue' = IF listening THEN Append(queue, k) ELSE queue

\* The transaction commits: the row is visible and the NOTIFY is sent.
Commit(r) ==
  /\ r \in open
  /\ open' = open \ {r}
  /\ db' = [db EXCEPT ![r[1]] = r[2]]
  /\ late' = IF PastPolling(r[2]) THEN late \cup {r} ELSE late
  /\ Notify(r[1])
  /\ UNCHANGED <<clock, listening, slot, poller, cache, wg, phase, faults>>

Delete(k) ==
  /\ k \in Deletable /\ db[k] # 0
  /\ db' = [db EXCEPT ![k] = 0]
  /\ Notify(k)
  /\ UNCHANGED <<clock, open, late, listening, slot, poller, cache, wg, phase, faults>>

-----------------------------------------------------------------------------
(* The listener and its goroutines.                                        *)

\* The connection fails, or the context is done: Listen returns.
ListenerExits ==
  /\ listening
  /\ (phase = "cancelled" /\ UNCHANGED faults) \/ Fault
  /\ listening' = FALSE /\ queue' = <<>>
  /\ wg' = wg - 1
  /\ UNCHANGED <<table, slot, poller, cache, phase>>

OnNotify(s) ==
  /\ listening /\ queue # <<>> /\ slot[s] = Free
  /\ slot' = [slot EXCEPT ![s] = [pc |-> "get", k |-> Head(queue), v |-> 0]]
  /\ queue' = Tail(queue)
  /\ wg' = wg + 1
  /\ UNCHANGED <<table, listening, poller, cache, phase, faults>>

RefreshOneGet(s) ==
  /\ slot[s].pc = "get"
  /\ slot' = [slot EXCEPT ![s].pc = "set", ![s].v = db[slot[s].k]]
  /\ UNCHANGED <<table, queue, listening, poller, cache, wg, phase, faults>>

RefreshOneFails(s) ==
  /\ slot[s].pc = "get"
  /\ (phase = "cancelled" /\ UNCHANGED faults) \/ Fault
  /\ slot' = [slot EXCEPT ![s] = Free]
  /\ wg' = wg - 1
  /\ UNCHANGED <<table, queue, listening, poller, cache, phase>>

\* Cache.Set, or Cache.Invalidate when there was no row; then wg.Done.
RefreshOneSet(s) ==
  /\ slot[s].pc = "set"
  /\ cache' = [cache EXCEPT ![slot[s].k] = slot[s].v]
  /\ slot' = [slot EXCEPT ![s] = Free]
  /\ wg' = wg - 1
  /\ UNCHANGED <<table, queue, listening, poller, phase, faults>>

-----------------------------------------------------------------------------
(* The poller.                                                             *)

\* A tick; after the cancel the select may still choose it.
PollStart ==
  /\ ppc = "idle" /\ phase # "done"
  /\ ppc' = "query" /\ prev' = lastSeen /\ startedAt' = clock
  /\ UNCHANGED <<table, queue, listening, slot, todo, lastSeen, cache, wg, phase, faults>>

\* The rows updated since prev. Time is dense: a write never has the very
\* time at which a poll started, it is before it or after it.
PollQuery ==
  /\ ppc = "query"
  /\ todo' = {<<k, db[k]>> : k \in {j \in Keys : db[j] > prev}}
  /\ ppc' = "set"
  /\ UNCHANGED <<table, queue, listening, slot, prev, startedAt, lastSeen, cache, wg, phase, faults>>

PollSet ==
  /\ ppc = "set"
  /\ \E r \in todo :
       /\ cache' = [cache EXCEPT ![r[1]] = r[2]]
       /\ todo' = todo \ {r}
  /\ UNCHANGED <<table, queue, listening, slot, ppc, prev, startedAt, lastSeen, wg, phase, faults>>

Seen_End == clock

\* The time taken before the refresh started, if it is later.
Seen == IF startedAt > lastSeen THEN startedAt ELSE lastSeen

PollDone ==
  /\ ppc = "set" /\ todo = {}
  /\ lastSeen' = Seen
  /\ ppc' = "idle"
  /\ UNCHANGED <<table, queue, listening, slot, prev, startedAt, todo, cache, wg, phase, faults>>

PollFails_Exits ==
  /\ ppc \in {"query", "set"}
  /\ (phase = "cancelled" /\ UNCHANGED faults) \/ Fault
  /\ ppc' = "exited" /\ todo' = {}
  /\ UNCHANGED <<table, queue, listening, slot, prev, startedAt, lastSeen, cache, wg, phase>>

\* The query fails, or refresh stops half-way (an error, a panic, the context).
PollFails ==
  /\ ppc \in {"query", "set"}
  /\ (phase = "cancelled" /\ UNCHANGED faults) \/ Fault
  /\ ppc' = "idle" /\ todo' = {}
  /\ UNCHANGED <<table, queue, listening, slot, prev, startedAt, lastSeen, cache, wg, phase>>

PollerExits ==
  /\ ppc = "idle" /\ phase = "cancelled"
  /\ ppc' = "exited"
  /\ wg' = wg - 1
  /\ UNCHANGED <<table, queue, listening, slot, prev, startedAt, todo, lastSeen, cache, phase, faults>>

-----------------------------------------------------------------------------
Shutdown ==
  /\ MayStop /\ phase = "running"
  /\ phase' = "cancelled"
  /\ UNCHANGED <<table, queue, listening, slot, poller, cache, wg, faults>>

\* wg.Wait returns before the caller's context expires.
ShutdownReturns ==
  /\ phase = "cancelled" /\ wg = 0
  /\ phase' = "done"
  /\ UNCHANGED <<table, queue, listening, slot, poller, cache, wg, faults>>

Goroutine(s) == OnNotify(s) \/ RefreshOneGet(s) \/ RefreshOneSet(s)
Poller == PollStart \/ PollQuery \/ PollSet \/ PollDone \/ PollerExits

Next ==
  \/ \E k \in Keys : Begin(k) \/ Delete(k)
  \/ \E r \in open : Commit(r)
  \/ \E s \in Slots : Goroutine(s) \/ RefreshOneFails(s)
  \/ Poller \/ PollFails
  \/ ListenerExits \/ Shutdown \/ ShutdownReturns

Spec == Init /\ [][Next]_vars

\* The ticker keeps firing and goroutines are scheduled; after the cancel the
\* listener's wait returns, and the poller's select, which chooses at random,
\* takes ctx.Done sooner or later.
Fairness ==
  /\ WF_vars(Poller) /\ \A s \in Slots : WF_vars(Goroutine(s))
  /\ WF_vars(phase = "cancelled" /\ ListenerExits)
  /\ SF_vars(PollerExits)
  /\ WF_vars(ShutdownReturns)
LiveSpec == Spec /\ Fairness

-----------------------------------------------------------------------------
\* The poller's promise, with every NOTIFY lost: no row older than lastSeen is
\* missing from the cache, even when refreshes fail half-way or rows are
\* stamped or committed during one. The exception is a row committed after the
\* query of the poll whose start its updated_at precedes: startedAt, the
\* replica's own clock, says nothing of transactions still open then.
SeenIsCached ==
  \A k \in Keys : /\ db[k] # 0 /\ db[k] <= lastSeen
                  /\ <<k, db[k]>> \notin late
                  => cache[k] = db[k]

\* Once the writes stop the cache converges to the table, by polling alone when
\* every NOTIFY is lost (doc.go: "even if every NOTIFY is lost ... the cache
\* converges within one poll interval"), but for the rows committed too late.
ConvergesUnlessLate ==
  <>[](\A k \in Keys : cache[k] = db[k] \/ <<k, db[k]>> \in late)
=============================================================================
