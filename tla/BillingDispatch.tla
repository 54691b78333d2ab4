---- MODULE BillingDispatch ----
(***************************************************************************)
(* The billing rail's webhook path (platform/billing-rail): a payment rail *)
(* delivers its events at least once, in any order and possibly twice at a *)
(* time, Dispatcher.Handle parses one and calls the sink, and the answer   *)
(* may be lost on its way back.  The sink lives in another repository and  *)
(* is modelled from the README: it upserts one record per identity that    *)
(* the dispatcher hands it.                                                *)
(***************************************************************************)
EXTENDS Naturals, FiniteSets

CONSTANTS
    Events,     \* the rail's events: [id, type, charge]
    Supported,  \* the event types Handle's switch knows
    Handlers    \* deliveries handled at the same time

VARIABLES
    due,        \* events the rail still delivers
    serving,    \* handler -> the event it handles, or NoEvent
    result,     \* handler -> what Handle is about to return
    ledger,     \* the identities the sink has a record for
    accepted,   \* history: events the sink has recorded
    settled     \* events the rail has had a 2xx for

vars == <<due, serving, result, ledger, accepted, settled>>

NoEvent == [id |-> 0, type |-> "none", charge |-> ""]

Init ==
    /\ due = Events
    /\ serving = [h \in Handlers |-> NoEvent] /\ result = [h \in Handlers |-> "none"]
    /\ ledger = {} /\ accepted = {} /\ settled = {}

ChargeTypes == {"charge.succeeded", "charge.failed"}

\* Mutations of the code: a refund is handed under an identity minted for the
\* delivery, or under the charge it belongs to.
Handed_PerDelivery(e, again) ==
    IF e.type \in ChargeTypes THEN <<"charge", e.charge>>
    ELSE IF e.type = "charge.refunded" THEN <<"refund", e.id, again>>
    ELSE <<"subscription", e.id>>
Handed_RefundOfCharge(e, again) ==
    IF e.type \in ChargeTypes THEN <<"charge", e.charge>>
    ELSE IF e.type = "charge.refunded" THEN <<"refund", e.charge>>
    ELSE <<"subscription", e.id>>

\* The identity of the record in what the sink is handed, for a first delivery
\* or for a later one (again): a charge comes as its charge id, without the id
\* of the event, a refund as the event's id, a subscription event whole.
Handed(e, again) ==
    IF e.type \in ChargeTypes THEN <<"charge", e.charge>>
    ELSE IF e.type = "charge.refunded" THEN <<"refund", e.id>>
    ELSE <<"subscription", e.id>>

\* Handle starts on a delivery, and ParseWebhook accepts it or fails.
Parse(h, e, r) ==
    /\ e \in due /\ serving[h] = NoEvent
    /\ serving' = [serving EXCEPT ![h] = e]
    /\ result' = [result EXCEPT ![h] = r]
    /\ UNCHANGED <<due, ledger, accepted, settled>>

\* The switch of Handle: the sink takes the event, and its answer may be lost.
Sink(h) ==
    LET e == serving[h] IN
    /\ result[h] = "parsed" /\ e.type \in Supported
    /\ ledger' = ledger \cup {Handed(e, e \in accepted)}
    /\ accepted' = accepted \cup {e}
    /\ \E r \in {"ok", "failed"} : result' = [result EXCEPT ![h] = r]
    /\ UNCHANGED <<due, serving, settled>>

\* The sink fails, or the type is none the switch knows.
SinkNothing(h) ==
    /\ result[h] = "parsed"
    /\ result' = [result EXCEPT ![h] =
                     IF serving[h].type \in Supported THEN "failed" ELSE "unsupported"]
    /\ UNCHANGED <<due, serving, ledger, accepted, settled>>

Status_Swallows(r) == IF r = "ok" THEN 200 ELSE 204

\* The result as the HTTP status of the documented handler.
Status(r) == CASE r = "ok" -> 200 [] r = "unsupported" -> 204 [] r = "failed" -> 500

\* The answer reaches the rail, which stops delivering on a 2xx, or is lost.
Answer(h, lost) ==
    LET e == serving[h]  s == Status(result[h]) IN
    /\ result[h] \in {"ok", "unsupported", "failed"}
    /\ serving' = [serving EXCEPT ![h] = NoEvent] /\ result' = [result EXCEPT ![h] = "none"]
    /\ IF ~lost /\ s < 300
         THEN due' = due \ {e} /\ settled' = settled \cup {e}
         ELSE UNCHANGED <<due, settled>>
    /\ UNCHANGED <<ledger, accepted>>

\* The rail delivers an event it had already settled.
Redeliver(e) ==
    /\ e \in settled \ due
    /\ due' = due \cup {e}
    /\ UNCHANGED <<serving, result, ledger, accepted, settled>>

Next ==
    \/ \E e \in Events : Redeliver(e) \/ \E h \in Handlers, r \in {"parsed", "failed"} : Parse(h, e, r)
    \/ \E h \in Handlers : Sink(h) \/ SinkNothing(h) \/ \E lost \in BOOLEAN : Answer(h, lost)

Spec == Init /\ [][Next]_vars

\* The rail keeps delivering what it has not settled, a handler ends, and an
\* adapter or a sink that fails now and then accepts in the end an event it is
\* offered again and again.
Fairness ==
    /\ \A e \in {x \in Events : x.type \in Supported} :
                         /\ SF_vars(\E h \in Handlers : Parse(h, e, "parsed"))
                         /\ SF_vars(\E h \in Handlers : serving[h] = e /\ Sink(h))
    /\ \A h \in Handlers : WF_vars(Sink(h) \/ SinkNothing(h) \/ \E l \in BOOLEAN : Answer(h, l))

----
TypeOK ==
    /\ due \subseteq Events /\ accepted \subseteq Events /\ settled \subseteq Events
    /\ serving \in [Handlers -> Events \cup {NoEvent}]
    /\ result \in [Handlers -> {"none", "parsed", "ok", "unsupported", "failed"}]

Charges == {e \in accepted : e.type \in ChargeTypes}

\* The sink has one record for each charge and one for each refund and
\* subscription event it has taken, however often and in whatever order the rail
\* delivers them (a redelivery adds none, no two refunds share one), and the rail
\* is told that an event is settled only once the sink has taken it.
OneRecordEach ==
    /\ Cardinality(ledger) =
           Cardinality({e.charge : e \in Charges}) + Cardinality(accepted \ Charges)
    /\ \A e \in settled : e.type \in Supported => e \in accepted

\* Every event of a known type is recorded in the end, through answers that are
\* lost and a sink that fails now and then.
EventuallyRecorded ==
    \A e \in Events : e.type \in Supported => <>(e \in accepted)
====
