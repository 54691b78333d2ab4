---- MODULE MCProgress ----
(***************************************************************************)
(* What the components owe in the end, for TLC: the job queue, recordings, *)
(* the policy cache, the audit forwarder, webhooks, billing, ringing calls,*)
(* the permission cache, OIDC login, the event bridge and the AI gateway   *)
(* client, on instances small enough for liveness. They share no state, so *)
(* a behaviour runs one of them and the others stay as they start.         *)
(***************************************************************************)
EXTENDS JobQueue

VARIABLE part   \* the component that runs

\* One worker has handlers for both types, one for the first only.
MCTypeOf == [j \in Jobs |-> IF j = "j2" THEN "tb" ELSE "ta"]
MCRegistered == [w \in Workers |-> IF w = "w1" THEN {"ta", "tb"} ELSE {"ta"}]

\* A subscription event, and one of a type the dispatcher does not know.
RailEvents == {[id |-> 1, type |-> "subscription.created", charge |-> ""],
               [id |-> 2, type |-> "other", charge |-> ""]}

VARIABLES r_row, r_egress, r_event, r_th, r_faults
Recording == INSTANCE LiveKitRecordings WITH
    Recordings <- {"r1", "r2"}, Threads <- {"t1"}, MaxFaults <- 1,
    row <- r_row, egress <- r_egress, event <- r_event, th <- r_th,
    faults <- r_faults
rVars == <<r_row, r_egress, r_event, r_th, r_faults>>

VARIABLES p_db, p_clock, p_open, p_late, p_queue, p_listening, p_slot, p_ppc,
          p_prev, p_startedAt, p_todo, p_lastSeen, p_cache, p_wg, p_phase,
          p_faults
Poll == INSTANCE PolicyCache WITH
    Keys <- {"k1", "k2"}, Slots <- {"s1"}, MaxWrites <- 2,
    Listening0 <- FALSE, Deletable <- {}, MayStop <- FALSE, MaxFaults <- 1,
    db <- p_db, clock <- p_clock, open <- p_open, late <- p_late,
    queue <- p_queue, listening <- p_listening, slot <- p_slot, ppc <- p_ppc,
    prev <- p_prev, startedAt <- p_startedAt, todo <- p_todo,
    lastSeen <- p_lastSeen, cache <- p_cache, wg <- p_wg, phase <- p_phase,
    faults <- p_faults
pVars == <<p_db, p_clock, p_open, p_late, p_queue, p_listening, p_slot,
           p_ppc, p_prev, p_startedAt, p_todo, p_lastSeen, p_cache, p_wg,
           p_phase, p_faults>>

VARIABLES a_call, a_row, a_emitted, a_jws, a_serr, a_pc, a_sending, a_signing,
          a_running, a_received, a_faults
Buffer == INSTANCE AuditBuffer WITH
    Events <- {"e1", "e2"}, Legacy <- {}, Replicas <- {"r1", "r2"},
    Stoppable <- {"r2"}, Writers <- 2, HardCap <- 2, BatchSize <- 1,
    MaxFaults <- 1, call <- a_call, row <- a_row, emitted <- a_emitted,
    jws <- a_jws, serr <- a_serr, pc <- a_pc, sending <- a_sending,
    signing <- a_signing, running <- a_running, received <- a_received,
    faults <- a_faults
aVars == <<a_call, a_row, a_emitted, a_jws, a_serr, a_pc, a_sending,
           a_signing, a_running, a_received, a_faults>>

VARIABLES w_hook, w_fails, w_status, w_attempts, w_sweep, w_pc, w_job, w_seen,
          w_accepted, w_resent, w_sends, w_lost, w_drops, w_execs, w_restarts
Hooks == INSTANCE WebhookDelivery WITH
    Deliveries <- {"d1", "d2"}, Workers <- {"w1"}, MaxRetries <- 2,
    MaxFails <- 3, Overlap <- FALSE, MaxDrops <- 1, MaxExec <- 0,
    MaxRestarts <- 0, hook <- w_hook, fails <- w_fails, status <- w_status,
    attempts <- w_attempts, sweep <- w_sweep, pc <- w_pc, job <- w_job,
    seen <- w_seen, accepted <- w_accepted, resent <- w_resent,
    sends <- w_sends, lost <- w_lost, drops <- w_drops, execs <- w_execs,
    restarts <- w_restarts
wVars == <<w_hook, w_fails, w_status, w_attempts, w_sweep, w_pc, w_job,
           w_seen, w_accepted, w_resent, w_sends, w_lost, w_drops, w_execs,
           w_restarts>>

VARIABLES b_due, b_serving, b_result, b_ledger, b_accepted, b_settled
Bill == INSTANCE BillingDispatch WITH
    Events <- RailEvents, Supported <- {"subscription.created"},
    Handlers <- {"h1", "h2"}, due <- b_due, serving <- b_serving,
    result <- b_result, ledger <- b_ledger, accepted <- b_accepted,
    settled <- b_settled
bVars == <<b_due, b_serving, b_result, b_ledger, b_accepted, b_settled>>

VARIABLES k_state, k_connected, k_caller, k_callee, k_timer, k_th, k_tokens,
          k_room, k_inRoom, k_events, k_met, k_faults
Call == INSTANCE LiveKitCalls WITH
    Users <- {"u1", "u2"}, Calls <- {"c1"}, Threads <- {"t1", "t2"},
    MaxFaults <- 0, None <- "none", state <- k_state,
    connected <- k_connected, caller <- k_caller, callee <- k_callee,
    timer <- k_timer, th <- k_th, tokens <- k_tokens, room <- k_room,
    inRoom <- k_inRoom, events <- k_events, met <- k_met, faults <- k_faults
kVars == <<k_state, k_connected, k_caller, k_callee, k_timer, k_th, k_tokens,
           k_room, k_inRoom, k_events, k_met, k_faults>>

VARIABLES c_role, c_perms, c_creating, c_cache, c_check, c_change, c_changes
Access == INSTANCE AccessControl WITH
    Users <- {"u1"}, Admins <- {"x"}, Roles <- {"owner", "member", "custom"},
    Owner <- "owner", Member <- "member", Custom <- {"custom"},
    Permissions <- {"a", "b"},
    Granted <- [owner |-> {"a", "b"}, member |-> {"a"}, custom |-> {"b"}],
    Denied <- [u1 |-> {"a"}], Processes <- {"p1"}, Checks <- {"c1"},
    MaxChanges <- 2, role <- c_role, perms <- c_perms, creating <- c_creating,
    cache <- c_cache, check <- c_check, change <- c_change,
    changes <- c_changes
cVars == <<c_role, c_perms, c_creating, c_cache, c_check, c_change, c_changes>>

VARIABLES o_idp, o_signed, o_inflight, o_prov, o_verif, o_sf, o_call, o_popped
Oidc == INSTANCE OidcFlow WITH
    Flows <- {"f1", "f2"}, Handlers <- {"h1", "h2"}, MaxRevisions <- 2,
    idp <- o_idp, signed <- o_signed, inflight <- o_inflight, prov <- o_prov,
    verif <- o_verif, sf <- o_sf, call <- o_call, popped <- o_popped
oVars == <<o_idp, o_signed, o_inflight, o_prov, o_verif, o_sf, o_call,
           o_popped>>

VARIABLES e_handler, e_msg, e_bridge, e_handled, e_faults
Bridge == INSTANCE EventBridge WITH
    Bridges <- {"b1", "b2"}, Msgs <- {"m1", "m3"},
    Subject <- [m1 |-> <<"e", "p", "u">>, m3 |-> <<"x">>],
    Kind <- [m1 |-> "good", m3 |-> "good"],
    Adapters <- {<<"e">>, <<"e", "p">>}, MaxFaults <- 2, handler <- e_handler,
    msg <- e_msg, bridge <- e_bridge, handled <- e_handled, faults <- e_faults
eVars == <<e_handler, e_msg, e_bridge, e_handled, e_faults>>

VARIABLES g_retries, g_based, g_op, g_ctx, g_pc, g_answers, g_lines,
          g_buffered, g_taken, g_errs, g_closed, g_outcome, g_observed
Gateway == INSTANCE AIGateway WITH
    Configured <- {0, 1}, DefaultRetries <- 3, ChunkCap <- 2, MaxLines <- 4,
    retries <- g_retries, based <- g_based, op <- g_op, ctx <- g_ctx,
    pc <- g_pc, answers <- g_answers, lines <- g_lines,
    buffered <- g_buffered, taken <- g_taken, errs <- g_errs,
    closed <- g_closed, outcome <- g_outcome, observed <- g_observed
gVars == <<g_retries, g_based, g_op, g_ctx, g_pc, g_answers, g_lines,
           g_buffered, g_taken, g_errs, g_closed, g_outcome, g_observed>>

----
Components == {"queue", "recordings", "policies", "audit", "webhooks",
               "billing", "calls", "access", "oidc", "bridge", "gateway"}

MCInit ==
    /\ part \in Components
    /\ part # "bridge" => e_handler = TRUE
    /\ part # "gateway" => g_retries = 1 /\ g_based = TRUE /\ g_op = "json"
    /\ Init /\ Recording!Init /\ Poll!Init /\ Buffer!Init
    /\ Hooks!Init /\ Bill!Init /\ Call!Init /\ Access!Init
    /\ Oidc!Init /\ Bridge!Init /\ Gateway!Init

\* A step of the component that runs; the others stand still.
MCNext ==
    /\ part' = part
    /\ IF part = "queue" THEN Next ELSE UNCHANGED vars
    /\ IF part = "recordings" THEN Recording!Next ELSE UNCHANGED rVars
    /\ IF part = "policies" THEN Poll!Next ELSE UNCHANGED pVars
    /\ IF part = "audit" THEN Buffer!Next ELSE UNCHANGED aVars
    /\ IF part = "webhooks" THEN Hooks!Next ELSE UNCHANGED wVars
    /\ IF part = "billing" THEN Bill!Next ELSE UNCHANGED bVars
    /\ IF part = "calls" THEN Call!Next ELSE UNCHANGED kVars
    /\ IF part = "access" THEN Access!Next ELSE UNCHANGED cVars
    /\ IF part = "oidc" THEN Oidc!Next ELSE UNCHANGED oVars
    /\ IF part = "bridge" THEN Bridge!Next ELSE UNCHANGED eVars
    /\ IF part = "gateway" THEN Gateway!Next ELSE UNCHANGED gVars

allVars == <<part, vars, rVars, pVars, aVars, wVars, bVars, kVars, cVars,
             oVars, eVars, gVars>>

MCSpec == MCInit /\ [][MCNext]_allVars

(* Each property is claimed under the fairness its component states. *)

\* The policy cache converges to the table once the writes stop, by polling
\* alone and with every NOTIFY lost, unless a row that was written before a poll
\* began became visible only after it.
ConvergesUnlessLate ==
    /\ (part = "policies" /\ Poll!Fairness => Poll!ConvergesUnlessLate)

\* What has to reach the other side does. A signed audit row is sent to the
\* sink, also after crashes, failed sends and a replica that stops while it
\* holds the row; and a billing event of a known type is recorded in the end,
\* though parsing, recording or answering it fails and it is delivered again.
SignedForwarded ==
    /\ (part = "audit" /\ Buffer!Fairness => Buffer!SignedForwarded)
    /\ (part = "billing" /\ Bill!Fairness => Bill!EventuallyRecorded)

\* What was begun ends. Without faults every job of a handled type is completed
\* or dead; a delivery comes to success or exhaustion as long as its webhook is
\* neither paused nor deleted; and a recording whose handlers are served one
\* after the other is finalised by egress_ended unless a call failed.
Concludes ==
    /\ (part = "queue" /\ Fairness => JobsFinish)
    /\ (part = "webhooks" /\ Hooks!Fairness => Hooks!Concludes)
    /\ (part = "recordings" /\ Recording!Fairness => Recording!Finalised)

\* Nothing waits for ever. A call stops ringing, by the timer or an answer,
\* whatever two handlers do at once; a message an adapter can take is
\* acknowledged, though one nobody takes is asked for again for ever beside it;
\* and a call of the AI gateway ends, however slowly the consumer of its stream
\* reads, if it reads or cancels.
RingingEnds ==
    /\ (part = "calls" /\ Call!Fairness => Call!RingingEnds)
    /\ (part = "bridge" /\ Bridge!Fairness => Bridge!GoodMessagesDrain)
    /\ (part = "gateway" /\ Gateway!Fairness => Gateway!CallEnds)

\* A cache that a late answer has made stale does not stay so. The enforcer
\* answers by the present roles after one cacheTTL, whatever a check in flight
\* put back; and after a rotation the provider and verifier caches of OIDC login
\* come to hold the new revision, though nothing but a caller whose check failed
\* ever clears them (as their comments ask of it).
CachesCatchUp ==
    /\ (part = "access" /\ Access!Fairness => Access!CachesCatchUp)
    /\ (part = "oidc" /\ Oidc!Fairness => Oidc!RotationHeals)
====
