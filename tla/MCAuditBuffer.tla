--------------------------- MODULE MCAuditBuffer ---------------------------
(* AuditBuffer for TLC: small sets of events and replicas. *)
EXTENDS AuditBuffer, TLC
CONSTANTS e1, e2, e3, r1, r2

MCEvents2 == {e1, e2}
MCEvents3 == {e1, e2, e3}
MCReplicas == {r1, r2}
MCStoppable == {r2}
Symmetry == Permutations({e1, e2})
MCLegacy == {e3}
=============================================================================
