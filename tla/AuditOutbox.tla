----------------------------- MODULE AuditOutbox -----------------------------
(***************************************************************************)
(* What the durable audit buffer promises its callers: an at-least-once    *)
(* outbox.  An event that was put is held until the sink has taken it at   *)
(* least once, is handed to the sink only while it is held, and once       *)
(* retired never comes back.                                               *)
(***************************************************************************)
EXTENDS Naturals

CONSTANT Events

VARIABLES item,     \* "none", "held" or "retired"
          received  \* how often the sink has taken the event

Init ==
  /\ item = [e \in Events |-> "none"]
  /\ received = [e \in Events |-> 0]

Put(e) ==
  /\ item[e] = "none"
  /\ item' = [item EXCEPT ![e] = "held"]
  /\ UNCHANGED received

Deliver(S) ==
  /\ \A e \in S : item[e] = "held"
  /\ received' = [e \in Events |-> received[e] + (IF e \in S THEN 1 ELSE 0)]
  /\ UNCHANGED item

Retire(S) ==
  /\ \A e \in S : item[e] = "held" /\ received[e] > 0
  /\ item' = [e \in Events |-> IF e \in S THEN "retired" ELSE item[e]]
  /\ UNCHANGED received

Next ==
  \/ \E e \in Events : Put(e)
  \/ \E S \in SUBSET Events : Deliver(S) \/ Retire(S)

Spec == Init /\ [][Next]_<<item, received>>
=============================================================================
