----------------------------- MODULE EventBridge ----------------------------
(***************************************************************************)
(* The event bridge (platform/bridge): a durable JetStream consumer shared *)
(* by the instances of a service, the adapter registry, and                *)
(* processMessage, which acknowledges a message once its handler, if there *)
(* is one, has returned and asks for it again when anything went wrong.    *)
(* JetStream is external: it delivers an unacknowledged message again      *)
(* after Nak or after its ack wait, to any instance, and an Ack or a Nak   *)
(* may be lost (their error is ignored).                                   *)
(*                                                                         *)
(* A subject and a prefix are sequences of letters.                        *)
(***************************************************************************)
EXTENDS Integers, Sequences, FiniteSets, SequencesExt

CONSTANTS Bridges,   \* instances of the service
          Msgs,      \* messages
          Subject,   \* [Msgs -> a sequence]
          Kind,      \* [Msgs -> "good", "garbled", "refused" (by Transform) or "filtered"]
          Adapters,  \* the registered prefixes, each with an adapter of its own
          MaxFaults  \* bound on lost acks, ack waits that run out, handler errors and crashes

VARIABLES
  handler, \* whether the service was given a handler
  msg,     \* JetStream: "pending", "out" or "acked"
  bridge,  \* what each instance is doing
  handled, \* adapters that transformed each message for a handler that succeeded
  faults

vars == <<handler, msg, bridge, handled, faults>>

Idle == [at |-> "next"]
Stopped == [at |-> "stopped"]
NoAdapter == <<>>

TypeOK ==
  /\ handler \in BOOLEAN
  /\ msg \in [Msgs -> {"pending", "out", "acked"}]
  /\ handled \in [Msgs -> SUBSET Adapters]
  /\ faults \in 0..MaxFaults
  /\ \A b \in Bridges : bridge[b].at \in {"next", "process", "handler", "settle", "stopped"}

Init ==
  /\ handler \in BOOLEAN
  /\ msg = [m \in Msgs |-> "pending"]
  /\ bridge = [b \in Bridges |-> Idle]
  /\ handled = [m \in Msgs |-> {}]
  /\ faults = 0

\* The ways a range over the map of adapters may go.
Orders == {o \in [1..Cardinality(Adapters) -> Adapters] : \A i, j \in DOMAIN o : o[i] = o[j] => i = j}

Better_LastMatch(p, best) == TRUE

Better(p, best) == Len(p) > Len(best)

\* FindAdapter: keep the better match while ranging over the map.
FindAdapter(order, subject) ==
  FoldLeft(LAMBDA best, p : IF IsPrefix(p, subject) /\ Better(p, best) THEN p ELSE best,
           NoAdapter, order)

Settle(b, verdict) ==
  bridge' = [bridge EXCEPT ![b] = [at |-> "settle", m |-> @.m, verdict |-> verdict]]

GiveBack_InPlace(b) == UNCHANGED bridge

\* A message the bridge cannot take goes back to the stream.
GiveBack(b) == Settle(b, "nak")

\* cons.Next, unless the context is done.
NextMsg(b, m) ==
  /\ bridge[b] = Idle /\ msg[m] = "pending"
  /\ msg' = [msg EXCEPT ![m] = "out"]
  /\ bridge' = [bridge EXCEPT ![b] = [at |-> "process", m |-> m]]
  /\ UNCHANGED <<handler, handled, faults>>

\* processMessage up to the handler: the adapter, the envelope, the transform.
processMessage(b) ==
  /\ bridge[b].at = "process"
  /\ \E order \in Orders :
       LET m == bridge[b].m
           adapter == FindAdapter(order, Subject[m])
       IN IF adapter = NoAdapter \/ Kind[m] \in {"garbled", "refused"} THEN GiveBack(b)
          ELSE IF Kind[m] = "filtered" \/ ~handler THEN Settle(b, "ack")
          ELSE bridge' = [bridge EXCEPT ![b] = [at |-> "handler", m |-> m, by |-> adapter]]
  /\ UNCHANGED <<handler, msg, handled, faults>>

HandlerSucceeds(b) ==
  /\ bridge[b].at = "handler"
  /\ handled' = [handled EXCEPT ![bridge[b].m] = @ \cup {bridge[b].by}]
  /\ Settle(b, "ack")
  /\ UNCHANGED <<handler, msg, faults>>

OnHandlerError_Acks == "ack"

OnHandlerError == "nak"

\* The handler may have done part of its work; the message is asked for again.
HandlerFails(b) ==
  /\ bridge[b].at = "handler" /\ faults < MaxFaults
  /\ faults' = faults + 1
  /\ Settle(b, OnHandlerError)
  /\ UNCHANGED <<handler, msg, handled>>

\* Ack and Nak reach the server ...
SettleArrives(b) ==
  /\ bridge[b].at = "settle"
  /\ LET m == bridge[b].m IN
     msg' = [msg EXCEPT ![m] = IF bridge[b].verdict = "ack" THEN "acked"
                               ELSE IF @ = "acked" THEN @ ELSE "pending"]
  /\ bridge' = [bridge EXCEPT ![b] = Idle]
  /\ UNCHANGED <<handler, handled, faults>>

\* ... or are lost; the error is ignored.
SettleLost(b) ==
  /\ bridge[b].at = "settle" /\ faults < MaxFaults
  /\ faults' = faults + 1
  /\ bridge' = [bridge EXCEPT ![b] = Idle]
  /\ UNCHANGED <<handler, msg, handled>>

Holds(b, m) == bridge[b].at \in {"process", "handler", "settle"} /\ bridge[b].m = m

\* The ack wait of a delivery runs out: at once for one nobody works on any more,
\* and, as a fault, while an instance is still at it.
AckWait(m) ==
  /\ msg[m] = "out"
  /\ IF \E b \in Bridges : Holds(b, m) THEN faults < MaxFaults /\ faults' = faults + 1 ELSE UNCHANGED faults
  /\ msg' = [msg EXCEPT ![m] = "pending"]
  /\ UNCHANGED <<handler, bridge, handled>>

Crash(b) ==
  /\ bridge[b] # Stopped /\ faults < MaxFaults
  /\ faults' = faults + 1
  /\ bridge' = [bridge EXCEPT ![b] = Idle]
  /\ UNCHANGED <<handler, msg, handled>>

\* Stop cancels and waits for the loop, which ends between two messages.
Stop(b) ==
  /\ bridge[b] = Idle
  /\ \E other \in Bridges : other # b /\ bridge[other] # Stopped
  /\ bridge' = [bridge EXCEPT ![b] = Stopped]
  /\ UNCHANGED <<handler, msg, handled, faults>>

Work(b) == processMessage(b) \/ HandlerSucceeds(b) \/ SettleArrives(b)

Next ==
  \/ \E m \in Msgs : AckWait(m)
  \/ \E b \in Bridges :
       \/ (\E m \in Msgs : NextMsg(b, m)) \/ Work(b)
       \/ HandlerFails(b) \/ SettleLost(b) \/ Crash(b) \/ Stop(b)

Spec == Init /\ [][Next]_vars

\* An instance that runs keeps running; JetStream delivers every pending message
\* again and again and lets the ack wait run out.
Fairness ==
  /\ \A b \in Bridges : WF_vars(Work(b))
  /\ \A m \in Msgs : WF_vars(AckWait(m)) /\ SF_vars(\E b \in Bridges : NextMsg(b, m))

LiveSpec == Spec /\ Fairness

(***************************************************************************)
(* Properties.                                                             *)
(***************************************************************************)
\* The adapter a message belongs to: the longest registered prefix of its subject.
Owner(m) ==
  LET fits == {p \in Adapters : IsPrefix(p, Subject[m])}
  IN IF fits = {} THEN NoAdapter ELSE CHOOSE p \in fits : \A q \in fits : Len(q) <= Len(p)

\* A message that leaves the stream was handled, and only ever by the adapter
\* with the longest matching prefix, whatever order the map is ranged over and
\* whatever is lost, redelivered or crashed on the way; only a message that
\* Transform filters out leaves unhandled, or any in a service without a handler.
AckedWasHandled ==
  \A m \in Msgs :
    /\ handled[m] \subseteq {Owner(m)}
    /\ handler /\ msg[m] = "acked" /\ Kind[m] # "filtered" => handled[m] # {}

\* A message an adapter can take is acknowledged in the end, though messages
\* nobody can take are asked for again for ever beside it.
GoodMessagesDrain ==
  \A m \in Msgs : Kind[m] \in {"good", "filtered"} /\ Owner(m) # NoAdapter => <>(msg[m] = "acked")
=============================================================================
