---------------------------- MODULE StateMachine ----------------------------
(***************************************************************************)
(* The generic transition engine, on one instance: Transition loads the    *)
(* state, looks the transition up, runs its guard, saves state and history *)
(* entry together, and notifies the subscribers.                           *)
(*                                                                         *)
(* Code: platform/statemachine/statemachine.go.  Concurrent calls          *)
(* interleave between Get, Save and notify.                                *)
(***************************************************************************)
EXTENDS Naturals, Sequences, SequencesExt

CONSTANTS States, Events,
          Initial,
          Table,      \* set of <<from, event, to>>, one per from and event
          Threads,    \* Transition calls in flight
          MaxHistory, \* bound on the history
          MaxFaults   \* bound on rejecting guards, failing stores and crashes

VARIABLES state,     \* the stored state, None before the first Save
          history,
          th,        \* what a call has decided to save, or to tell
          told,      \* the history rows a subscriber has seen, in its order
          lost,      \* history: rows whose call ended between Save and notify
          stale,     \* history: rows saved after another call's Save came between
          met,       \* history: <<i, j>>, row j was saved while i was untold
          faults

vars == <<state, history, th, told, lost, stale, met, faults>>

None == "none"
Idle == [op |-> "idle", entry |-> <<>>, row |-> 0]
Rows == 1..MaxHistory

\* Stored state, history, calls and notifications keep their types.
TypeOK ==
  /\ state \in States \cup {None}
  /\ history \in Seq(Table) /\ Len(history) <= MaxHistory
  /\ th \in [Threads -> [op : {"idle", "save", "notify"}, entry : Table \cup {<<>>},
                         row : 0..MaxHistory]]
  /\ told \in Seq(Rows) /\ lost \subseteq Rows /\ stale \subseteq Rows
  /\ met \subseteq Rows \X Rows
  /\ faults \in 0..MaxFaults

Init ==
  /\ state = None /\ history = <<>>
  /\ th = [t \in Threads |-> Idle] /\ told = <<>>
  /\ lost = {} /\ stale = {} /\ met = {} /\ faults = 0

\* A missing instance is in the initial state.
Current == IF state = None THEN Initial ELSE state

Fault == faults < MaxFaults /\ faults' = faults + 1

\* Get, the lookup and the guard; ErrNoTransition changes nothing.  A call keeps
\* the length of the history it read in row.
Load(t, e) ==
  /\ th[t] = Idle /\ Len(history) < MaxHistory
  /\ \E x \in Table :
       /\ x[1] = Current /\ x[2] = e
       /\ th' = [th EXCEPT ![t] = [op |-> "save", entry |-> x, row |-> Len(history)]]
  /\ UNCHANGED <<state, history, told, lost, stale, met, faults>>

Fails_Notifies(t) ==
  /\ th[t].op = "save" /\ Fault
  /\ th' = [th EXCEPT ![t].op = "notify", ![t].row = Len(history) + 1]
  /\ UNCHANGED <<state, history, told, lost, stale, met>>

\* The guard rejects, or the store fails: the call returns an error.
Fails(t) ==
  /\ th[t].op = "save" /\ Fault
  /\ th' = [th EXCEPT ![t] = Idle]
  /\ UNCHANGED <<state, history, told, lost, stale, met>>

Untold == {th[t].row : t \in {u \in Threads : th[u].op = "notify"}}

\* Store.Save writes the state and appends the entry, in one step.
Stored(t) ==
  LET n == Len(history) + 1 IN
  /\ n <= MaxHistory
  /\ state' = th[t].entry[3]
  /\ history' = Append(history, th[t].entry)
  /\ stale' = IF th[t].row = Len(history) THEN stale ELSE stale \cup {n}
  /\ met' = met \cup (Untold \X {n})

Save(t) ==
  /\ th[t].op = "save"
  /\ Stored(t)
  /\ th' = [th EXCEPT ![t].op = "notify", ![t].row = Len(history) + 1]
  /\ UNCHANGED <<told, lost, faults>>

\* Save takes effect and its answer is lost: the call returns an error.
SaveLost(t) ==
  /\ th[t].op = "save" /\ Fault
  /\ Stored(t)
  /\ lost' = lost \cup {Len(history) + 1}
  /\ th' = [th EXCEPT ![t] = Idle]
  /\ UNCHANGED told

Notify(t) ==
  /\ th[t].op = "notify"
  /\ told' = Append(told, th[t].row)
  /\ th' = [th EXCEPT ![t] = Idle]
  /\ UNCHANGED <<state, history, lost, stale, met, faults>>

\* The process dies between Save and notify; what it had not saved is gone too.
Crash(t) ==
  /\ th[t] # Idle /\ Fault
  /\ lost' = IF th[t].op = "notify" THEN lost \cup {th[t].row} ELSE lost
  /\ th' = [th EXCEPT ![t] = Idle]
  /\ UNCHANGED <<state, history, told, stale, met>>

Next == \E t \in Threads : \/ \E e \in Events : Load(t, e)
                           \/ Save(t) \/ SaveLost(t) \/ Fails(t) \/ Notify(t) \/ Crash(t)

Spec == Init /\ [][Next]_vars

-----------------------------------------------------------------------------
\* A subscriber hears of committed transitions only and of none twice; it misses
\* only those of calls under way, or that died or lost the store's answer between
\* Save and notify; and it hears of two in the other order than they were saved
\* only when the later one was saved before the earlier one was told.
ToldIsCommitted ==
  /\ IsInjective(told)
  /\ ToSet(told) = (1..Len(history)) \ (Untold \cup lost)
  /\ \A i, j \in DOMAIN told : i < j /\ told[j] < told[i] => <<told[j], told[i]>> \in met

\* The history is a path through the table from the initial state to the stored
\* one, but for the entries of calls whose Get came before another call's Save.
PathUnlessRaced ==
  /\ history # <<>> => state = history[Len(history)][3]
  /\ \A i \in DOMAIN history : i \notin stale =>
       history[i][1] = IF i = 1 THEN Initial ELSE history[i - 1][3]

=============================================================================
