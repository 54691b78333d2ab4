----------------------------- MODULE AuditLogger ----------------------------
(***************************************************************************)
(* The asynchronous audit logger: Log puts an event on a bounded channel   *)
(* or drops it, one goroutine batches and flushes, and Stop drains.        *)
(*                                                                         *)
(* Code: platform/audit/logger.go (Logger).  The goroutine's select takes  *)
(* any ready case; a flush writes the batch event by event, skipping the   *)
(* ones with an invalid ID and the ones the store refuses.                 *)
(***************************************************************************)
EXTENDS Naturals, Sequences, SequencesExt

CONSTANTS Events, Invalid,      \* Invalid: events with unparsable IDs
          ChanCap, BatchMax,    \* 10000 and 50 in the code
          MaxFaults             \* bound on failing inserts

VARIABLES store,      \* whether NewLogger was given a store
          chan, batch,
          pc,         \* the goroutine: select, flush, drain, last flush, exited
          phase,      \* Stop: not called, done closed, returned
          logged,     \* what was logged: "new", accepted or dropped
          order,      \* accepted events, in order
          stored, skipped,  \* rows written, in order; events not written
          faults

vars == <<store, chan, batch, pc, phase, logged, order, stored, skipped, faults>>

\* Channel and batch stay within their bounds; each event is logged once.
TypeOK ==
  /\ store \in BOOLEAN
  /\ chan \in Seq(Events) /\ Len(chan) <= ChanCap
  /\ batch \in Seq(Events) /\ (pc = "select" => Len(batch) < BatchMax)
  /\ pc \in {"select", "flush", "drain", "last", "exited"}
  /\ phase \in {"running", "stopping", "stopped"}
  /\ logged \in [Events -> {"new", "accepted", "dropped"}]
  /\ order \in Seq(Events) /\ stored \in Seq(Events)
  /\ skipped \subseteq Events
  /\ faults \in 0..MaxFaults

Init ==
  /\ store \in BOOLEAN
  /\ chan = <<>> /\ batch = <<>>
  /\ pc = "select" /\ phase = "running"
  /\ logged = [e \in Events |-> "new"]
  /\ order = <<>> /\ stored = <<>> /\ skipped = {} /\ faults = 0

-----------------------------------------------------------------------------

\* Log never blocks; it does not look whether the logger is stopped.
Log(e) ==
  /\ logged[e] = "new"
  /\ IF Len(chan) < ChanCap
       THEN /\ chan' = Append(chan, e)
            /\ order' = Append(order, e)
            /\ logged' = [logged EXCEPT ![e] = "accepted"]
       ELSE /\ logged' = [logged EXCEPT ![e] = "dropped"]
            /\ UNCHANGED <<chan, order>>
  /\ UNCHANGED <<store, batch, pc, phase, stored, skipped, faults>>

\* case e := <-l.events
Receive ==
  /\ pc = "select" /\ chan # <<>>
  /\ batch' = Append(batch, Head(chan)) /\ chan' = Tail(chan)
  /\ pc' = IF Len(batch') >= BatchMax THEN "flush" ELSE "select"
  /\ UNCHANGED <<store, phase, logged, order, stored, skipped, faults>>

\* case <-ticker.C
Tick ==
  /\ pc = "select" /\ batch # <<>>
  /\ pc' = "flush"
  /\ UNCHANGED <<store, chan, batch, phase, logged, order, stored, skipped, faults>>

\* case <-l.done
Done ==
  /\ pc = "select" /\ phase = "stopping"
  /\ pc' = "drain"
  /\ UNCHANGED <<store, chan, batch, phase, logged, order, stored, skipped, faults>>

Drain ==
  /\ pc = "drain"
  /\ IF chan # <<>>
       THEN batch' = Append(batch, Head(chan)) /\ chan' = Tail(chan) /\ UNCHANGED pc
       ELSE pc' = "last" /\ UNCHANGED <<batch, chan>>
  /\ UNCHANGED <<store, phase, logged, order, stored, skipped, faults>>

FlushOne_Abort ==
  LET e == Head(batch) IN
  /\ pc \in {"flush", "last"} /\ batch # <<>> /\ store
  /\ IF e \in Invalid
       THEN batch' = <<>> /\ UNCHANGED <<stored, skipped, faults>>
       ELSE stored' = Append(stored, e) /\ batch' = Tail(batch) /\ UNCHANGED <<skipped, faults>>
  /\ UNCHANGED <<store, chan, pc, phase, logged, order>>

\* Without a store the batch is thrown away.
FlushNowhere ==
  /\ pc \in {"flush", "last"} /\ batch # <<>> /\ ~store
  /\ batch' = <<>> /\ skipped' = skipped \cup Range(batch)
  /\ UNCHANGED <<store, chan, pc, phase, logged, order, stored, faults>>

\* One event of the batch is written or skipped.
FlushOne ==
  LET e == Head(batch) IN
  /\ pc \in {"flush", "last"} /\ batch # <<>> /\ store
  /\ batch' = Tail(batch)
  /\ \/ /\ e \notin Invalid
        /\ stored' = Append(stored, e)
        /\ UNCHANGED <<skipped, faults>>
     \/ /\ e \in Invalid \/ faults < MaxFaults
        /\ skipped' = skipped \cup {e}
        /\ faults' = IF e \in Invalid THEN faults ELSE faults + 1
        /\ UNCHANGED stored
  /\ UNCHANGED <<store, chan, pc, phase, logged, order>>

FlushEnd ==
  /\ pc \in {"flush", "last"} /\ batch = <<>>
  /\ pc' = IF pc = "flush" THEN "select" ELSE "exited"
  /\ UNCHANGED <<store, chan, batch, phase, logged, order, stored, skipped, faults>>

\* Stop closes done and waits for the goroutine.
Stop ==
  /\ phase = "running"
  /\ phase' = "stopping"
  /\ UNCHANGED <<store, chan, batch, pc, logged, order, stored, skipped, faults>>

StopReturns ==
  /\ phase = "stopping" /\ pc = "exited"
  /\ phase' = "stopped"
  /\ UNCHANGED <<store, chan, batch, pc, logged, order, stored, skipped, faults>>

Run == Receive \/ Tick \/ Done \/ Drain \/ FlushNowhere \/ FlushOne \/ FlushEnd

Next == (\E e \in Events : Log(e)) \/ Run \/ Stop \/ StopReturns

Spec == Init /\ [][Next]_vars

\* The goroutine runs; its select, choosing among ready cases at random, takes
\* done sooner or later.
Fairness ==
  WF_vars(Run) /\ SF_vars(Done) /\ WF_vars(StopReturns)

-----------------------------------------------------------------------------

\* Every accepted event is accounted for: written, skipped, or still in the
\* batch or on the channel - each in exactly one of the places.
Accounted ==
  /\ Len(order) = Len(stored) + Len(batch) + Len(chan) + Cardinality(skipped)
  /\ Range(order) = Range(stored) \cup Range(batch) \cup Range(chan) \cup skipped

=============================================================================
