---- MODULE MCBackground ----
(***************************************************************************)
(* What a service does beside answering from its own records, for TLC: the *)
(* scheduler, the cron expressions, the job queue, the audit logger,       *)
(* LiveKit rooms, webhooks, the realtime hub, the buffer of a subscriber,  *)
(* the billing dispatcher, the event bridge, the AI gateway client, the    *)
(* experience service and the files of records. They share no state, so a  *)
(* behaviour runs one of them and the others stay as they start.           *)
(***************************************************************************)
EXTENDS Scheduler, Integers

VARIABLE part   \* the component that runs

\* A task due every second and one due every other second.
MCDueAt == [t \in Tasks |-> IF t = "ta" THEN {1, 2, 3} ELSE {2}]

\* Expressions over a calendar of a few units of each kind.
Star(s) == [kind |-> "star", a |-> 0, b |-> 0, step |-> s]
Span(a, b, s) == [kind |-> "range", a |-> a, b |-> b, step |-> s]
Value(a) == [kind |-> "value", a |-> a, b |-> 0, step |-> 1]
CronExpr(mi, ho, dm, mo, dw) ==
  [every |-> 0,
   fields |-> [minute |-> mi, hour |-> ho, dom |-> dm, month |-> mo, dow |-> dw]]
Parts == {Star(s) : s \in {0, 1, 2, 5}} \cup {Value(a) : a \in 0..4}
           \cup {Span(a, b, s) : a \in 0..3, b \in 0..4, s \in {1, 2, 4}}
MinuteFields == {<<>>} \cup {<<p>> : p \in Parts}
                  \cup {<<p, q>> : p \in {Value(0), Span(1, 3, 2)}, q \in Parts}
Choices(n) == {<<>>, <<Value(n)>>, <<Star(2)>>}
MCExprs ==
  {CronExpr(mi, <<>>, <<>>, <<>>, <<>>) : mi \in MinuteFields}
    \cup {CronExpr(<<Value(0)>>, ho, dm, mo, dw) :
            ho \in Choices(0), dm \in Choices(2), mo \in Choices(1), dw \in Choices(1)}
    \cup {[every |-> ms] : ms \in {500, 1000, 1500, 2000, 5000, 7000}}

\* A rail's events: a charge that fails and then succeeds, and its two refunds.
Ev(i, t) == [id |-> i, type |-> t, charge |-> "c1"]
RailEvents == {Ev(1, "charge.failed"), Ev(2, "charge.succeeded"),
               Ev(3, "charge.refunded"), Ev(4, "charge.refunded")}

\* Messages with an adapter for the topic and one for the whole domain, one of
\* them filtered out, one that does not parse, and one nobody takes.
Topics == [m1 |-> <<"e", "p", "u">>, m2 |-> <<"e", "q">>, m3 |-> <<"x">>]
Bodies == [m1 |-> "good", m2 |-> "filtered", m3 |-> "good"]
Junk == [m1 |-> "garbled", m2 |-> "refused"]

\* Nothing is granted to anybody.
NoGrants == [s \in {"s1", "s2"} |-> [r \in {"", "clerk"} |-> {}]]

\* Specs under each policy, with and without a floor, coherent and not, and two
\* binaries, the older of which lacks a surface.
Nav(s, l, e) == [slots |-> s, landing |-> l, edges |-> e]
Catalogue ==
  {[refs |-> <<"a">>, policy |-> "ignore", floor |-> <<>>, nav |-> Nav(<<>>, "", {})],
   [refs |-> <<"a", "b">>, policy |-> "block", floor |-> <<1, 0>>,
    nav |-> Nav(<<<<"a", TRUE>>>>, "a", {<<"a", "a">>})],
   [refs |-> <<"b", "a">>, policy |-> "unset", floor |-> <<>>,
    nav |-> Nav(<<<<"a", TRUE>>, <<"b", TRUE>>>>, "b", {})],
   [refs |-> <<"b", "a">>, policy |-> "degrade", floor |-> <<1, -1, 1>>,
    nav |-> Nav(<<<<"b", FALSE>>>>, "", {<<"b", "a">>})]}
Apps == {[version |-> <<1>>, known |-> {"a"}], [version |-> <<1, 2>>, known |-> {"a", "b"}]}

VARIABLES q_status, q_attempts, q_lockedBy, q_prio, q_createdAt, q_due, q_pc,
          q_job, q_tries, q_cancelled, q_succeeded, q_faults
Queue == INSTANCE JobQueue WITH
    Jobs <- {"j1", "j2"}, Workers <- {"w1", "w2"}, Types <- {"ta", "tb"},
    TypeOf <- [j1 |-> "ta", j2 |-> "tb"],
    Registered <- [w1 |-> {"ta", "tb"}, w2 |-> {"ta"}], Cancellable <- {"w2"},
    MaxRetries <- 2, MaxFaults <- 2, status <- q_status,
    attempts <- q_attempts, lockedBy <- q_lockedBy, prio <- q_prio,
    createdAt <- q_createdAt, due <- q_due, pc <- q_pc, job <- q_job,
    tries <- q_tries, cancelled <- q_cancelled, succeeded <- q_succeeded,
    faults <- q_faults
qVars == <<q_status, q_attempts, q_lockedBy, q_prio, q_createdAt, q_due, q_pc,
           q_job, q_tries, q_cancelled, q_succeeded, q_faults>>

VARIABLES c_expr, c_schedule, c_now
Cron == INSTANCE CronSchedule WITH
    Exprs <- MCExprs, MaxTime <- 100, SecondMs <- 1000, Seconds <- 2,
    Minutes <- 4, Hours <- 2, Days <- 2, Months <- 2, WeekDays <- 3,
    expr <- c_expr, schedule <- c_schedule, now <- c_now
cVars == <<c_expr, c_schedule, c_now>>

VARIABLES l_store, l_chan, l_batch, l_pc, l_phase, l_logged, l_order, l_stored,
          l_skipped, l_faults
Log == INSTANCE AuditLogger WITH
    Events <- {"e1", "e2", "e3", "e4"}, Invalid <- {"e1"}, ChanCap <- 2,
    BatchMax <- 2, MaxFaults <- 1, store <- l_store, chan <- l_chan,
    batch <- l_batch, pc <- l_pc, phase <- l_phase, logged <- l_logged,
    order <- l_order, stored <- l_stored, skipped <- l_skipped,
    faults <- l_faults
lVars == <<l_store, l_chan, l_batch, l_pc, l_phase, l_logged, l_order,
           l_stored, l_skipped, l_faults>>

VARIABLES k_state, k_connected, k_caller, k_callee, k_timer, k_th, k_tokens,
          k_room, k_inRoom, k_events, k_met, k_faults
Call == INSTANCE LiveKitCalls WITH
    Users <- {"u1", "u2"}, Calls <- {"c1"}, Threads <- {"t1", "t2"},
    MaxFaults <- 1, None <- "none", state <- k_state,
    connected <- k_connected, caller <- k_caller, callee <- k_callee,
    timer <- k_timer, th <- k_th, tokens <- k_tokens, room <- k_room,
    inRoom <- k_inRoom, events <- k_events, met <- k_met, faults <- k_faults
kVars == <<k_state, k_connected, k_caller, k_callee, k_timer, k_th, k_tokens,
           k_room, k_inRoom, k_events, k_met, k_faults>>

VARIABLES y_state, y_connected, y_caller, y_callee, y_timer, y_th, y_tokens,
          y_room, y_inRoom, y_events, y_met, y_faults
SerialCall == INSTANCE LiveKitCalls WITH
    Users <- {"u1", "u2"}, Calls <- {"c1"}, Threads <- {"t1"}, MaxFaults <- 2,
    None <- "none", state <- y_state, connected <- y_connected,
    caller <- y_caller, callee <- y_callee, timer <- y_timer, th <- y_th,
    tokens <- y_tokens, room <- y_room, inRoom <- y_inRoom,
    events <- y_events, met <- y_met, faults <- y_faults
yVars == <<y_state, y_connected, y_caller, y_callee, y_timer, y_th, y_tokens,
           y_room, y_inRoom, y_events, y_met, y_faults>>

VARIABLES m_mstate, m_max, m_parts, m_room, m_finished, m_th, m_faults
Meeting == INSTANCE LiveKitMeetings WITH
    Users <- {"u1", "u2", "u3"}, Meetings <- {"m1"}, Threads <- {"t1", "t2"},
    Creator <- [m \in {"m1"} |-> "u1"],
    Requested <- [m \in {"m1"} |-> IF m = "m1" THEN 0 ELSE 7], Default <- 1,
    Cap <- 2, MaxFaults <- 2, None <- "none", mstate <- m_mstate,
    max <- m_max, parts <- m_parts, room <- m_room, finished <- m_finished,
    th <- m_th, faults <- m_faults
mVars == <<m_mstate, m_max, m_parts, m_room, m_finished, m_th, m_faults>>

VARIABLES n_mstate, n_max, n_parts, n_room, n_finished, n_th, n_faults
SerialMeeting == INSTANCE LiveKitMeetings WITH
    Users <- {"u1", "u2", "u3"}, Meetings <- {"m1", "m2"}, Threads <- {"t1"},
    Creator <- [m \in {"m1", "m2"} |-> "u1"],
    Requested <- [m \in {"m1", "m2"} |-> IF m = "m1" THEN 0 ELSE 7],
    Default <- 1, Cap <- 2, MaxFaults <- 1, None <- "none",
    mstate <- n_mstate, max <- n_max, parts <- n_parts, room <- n_room,
    finished <- n_finished, th <- n_th, faults <- n_faults
nVars == <<n_mstate, n_max, n_parts, n_room, n_finished, n_th, n_faults>>

VARIABLES r_row, r_egress, r_event, r_th, r_faults
Recording == INSTANCE LiveKitRecordings WITH
    Recordings <- {"r1", "r2"}, Threads <- {"t1", "t2"}, MaxFaults <- 1,
    None <- "none", row <- r_row, egress <- r_egress, event <- r_event,
    th <- r_th, faults <- r_faults
rVars == <<r_row, r_egress, r_event, r_th, r_faults>>

VARIABLES w_hook, w_fails, w_status, w_attempts, w_sweep, w_pc, w_job, w_seen,
          w_accepted, w_resent, w_sends, w_lost, w_drops, w_execs, w_restarts
Hooks == INSTANCE WebhookDelivery WITH
    Deliveries <- {"d1", "d2"}, Workers <- {"w1", "w2"}, MaxRetries <- 3,
    MaxFails <- 4, Overlap <- FALSE, MaxDrops <- 1, MaxExec <- 0,
    MaxRestarts <- 1, hook <- w_hook, fails <- w_fails, status <- w_status,
    attempts <- w_attempts, sweep <- w_sweep, pc <- w_pc, job <- w_job,
    seen <- w_seen, accepted <- w_accepted, resent <- w_resent,
    sends <- w_sends, lost <- w_lost, drops <- w_drops, execs <- w_execs,
    restarts <- w_restarts
wVars == <<w_hook, w_fails, w_status, w_attempts, w_sweep, w_pc, w_job,
           w_seen, w_accepted, w_resent, w_sends, w_lost, w_drops, w_execs,
           w_restarts>>

VARIABLES o_hook, o_fails, o_status, o_attempts, o_sweep, o_pc, o_job, o_seen,
          o_accepted, o_resent, o_sends, o_lost, o_drops, o_execs, o_restarts
Overlapping == INSTANCE WebhookDelivery WITH
    Deliveries <- {"d1"}, Workers <- {"w1", "w2"}, MaxRetries <- 2,
    MaxFails <- 9, Overlap <- TRUE, MaxDrops <- 1, MaxExec <- 1,
    MaxRestarts <- 0, hook <- o_hook, fails <- o_fails, status <- o_status,
    attempts <- o_attempts, sweep <- o_sweep, pc <- o_pc, job <- o_job,
    seen <- o_seen, accepted <- o_accepted, resent <- o_resent,
    sends <- o_sends, lost <- o_lost, drops <- o_drops, execs <- o_execs,
    restarts <- o_restarts
oVars == <<o_hook, o_fails, o_status, o_attempts, o_sweep, o_pc, o_job,
           o_seen, o_accepted, o_resent, o_sends, o_lost, o_drops, o_execs,
           o_restarts>>

VARIABLES h_subs, h_stopped, h_subCount, h_redisSub, h_inbox, h_conn,
          h_closed, h_pub, h_targets, h_remote, h_got, h_faults
Hub == INSTANCE RealtimeHub WITH
    Instances <- {"i1", "i2"}, Conns <- {"a", "b", "z"}, Msgs <- {"m1"},
    Home <- [a |-> "i1", b |-> "i1", z |-> "i2"],
    Id <- [a |-> "x", b |-> "y", z |-> "x"], At <- [m1 |-> "i1"],
    MayStop <- {}, MaxFaults <- 1, subs <- h_subs, stopped <- h_stopped,
    subCount <- h_subCount, redisSub <- h_redisSub, inbox <- h_inbox,
    conn <- h_conn, closed <- h_closed, pub <- h_pub, targets <- h_targets,
    remote <- h_remote, got <- h_got, faults <- h_faults
\* An instance that stops, with its connections alone.
StoppingHub == INSTANCE RealtimeHub WITH
    Instances <- {"i1", "i2"}, Conns <- {"a", "b"}, Msgs <- {"m1"},
    Home <- [a |-> "i1", b |-> "i1"], Id <- [a |-> "x", b |-> "y"],
    At <- [m1 |-> "i1"], MayStop <- {"i1"}, MaxFaults <- 1, subs <- h_subs,
    stopped <- h_stopped, subCount <- h_subCount, redisSub <- h_redisSub,
    inbox <- h_inbox, conn <- h_conn, closed <- h_closed, pub <- h_pub,
    targets <- h_targets, remote <- h_remote, got <- h_got, faults <- h_faults
hVars == <<h_subs, h_stopped, h_subCount, h_redisSub, h_inbox, h_conn,
           h_closed, h_pub, h_targets, h_remote, h_got, h_faults>>

VARIABLES s_buf, s_closed, s_token, s_reader, s_sent, s_received, s_delivered,
          s_dropped
Sub == INSTANCE BufferedSubscriber WITH
    Cap <- 2, MaxSends <- 6, buf <- s_buf, closed <- s_closed,
    token <- s_token, reader <- s_reader, sent <- s_sent,
    received <- s_received, delivered <- s_delivered, dropped <- s_dropped
sVars == <<s_buf, s_closed, s_token, s_reader, s_sent, s_received,
           s_delivered, s_dropped>>

VARIABLES b_due, b_serving, b_result, b_ledger, b_accepted, b_settled
Bill == INSTANCE BillingDispatch WITH
    Events <- RailEvents, Supported <- {"charge.failed", "charge.succeeded",
    "charge.refunded"}, Handlers <- {"h1", "h2"}, due <- b_due,
    serving <- b_serving, result <- b_result, ledger <- b_ledger,
    accepted <- b_accepted, settled <- b_settled
bVars == <<b_due, b_serving, b_result, b_ledger, b_accepted, b_settled>>

VARIABLES e_handler, e_msg, e_bridge, e_handled, e_faults
Bridge == INSTANCE EventBridge WITH
    Bridges <- {"b1", "b2"}, Msgs <- {"m1", "m2", "m3"}, Subject <- Topics,
    Kind <- Bodies, Adapters <- {<<"e">>, <<"e", "p">>}, MaxFaults <- 2,
    handler <- e_handler, msg <- e_msg, bridge <- e_bridge,
    handled <- e_handled, faults <- e_faults
eVars == <<e_handler, e_msg, e_bridge, e_handled, e_faults>>

VARIABLES j_handler, j_msg, j_bridge, j_handled, j_faults
Junkyard == INSTANCE EventBridge WITH
    Bridges <- {"b1"}, Msgs <- {"m1", "m2"}, Subject <- Topics, Kind <- Junk,
    Adapters <- {<<"e">>}, MaxFaults <- 1, handler <- j_handler, msg <- j_msg,
    bridge <- j_bridge, handled <- j_handled, faults <- j_faults
jVars == <<j_handler, j_msg, j_bridge, j_handled, j_faults>>

VARIABLES a_retries, a_based, a_op, a_ctx, a_pc, a_answers, a_lines,
          a_buffered, a_taken, a_errs, a_closed, a_outcome, a_observed
Gateway == INSTANCE AIGateway WITH
    Configured <- -1..2, DefaultRetries <- 3, ChunkCap <- 2, MaxLines <- 4,
    retries <- a_retries, based <- a_based, op <- a_op, ctx <- a_ctx,
    pc <- a_pc, answers <- a_answers, lines <- a_lines,
    buffered <- a_buffered, taken <- a_taken, errs <- a_errs,
    closed <- a_closed, outcome <- a_outcome, observed <- a_observed
aVars == <<a_retries, a_based, a_op, a_ctx, a_pc, a_answers, a_lines,
           a_buffered, a_taken, a_errs, a_closed, a_outcome, a_observed>>

VARIABLES x_defs, x_grants, x_validated, x_sent, x_device, x_writes
Screens == INSTANCE Experience WITH
    Scopes <- {"s1", "s2"}, Ids <- {"i1"}, Surfaces <- {"a", "b"},
    Specs <- Catalogue, Binaries <- Apps, Devices <- {"d1"},
    maxPrimarySlots <- 1, MaxWrites <- 2, Audiences <- {"", "clerk"},
    Anybody <- "", defs <- x_defs, grants <- x_grants,
    validated <- x_validated, sent <- x_sent, device <- x_device,
    writes <- x_writes
xVars == <<x_defs, x_grants, x_validated, x_sent, x_device, x_writes>>

VARIABLES f_rows, f_objects, f_made, f_op, f_asked, f_failed, f_whole,
          f_reused, f_status, f_urls, f_stored, f_faults, f_cuts, f_puts
File == INSTANCE Files WITH
    Ids <- {"i1", "i2"}, Keys <- {"k1"}, Uploads <- {},
    Callers <- {"c1", "c2"}, NoRow <- "none", MaxFaults <- 2, MaxCuts <- 1,
    MaxPuts <- 2, rows <- f_rows, objects <- f_objects, made <- f_made,
    op <- f_op, asked <- f_asked, failed <- f_failed, whole <- f_whole,
    reused <- f_reused, status <- f_status, urls <- f_urls,
    stored <- f_stored, faults <- f_faults, cuts <- f_cuts, puts <- f_puts
fVars == <<f_rows, f_objects, f_made, f_op, f_asked, f_failed, f_whole,
           f_reused, f_status, f_urls, f_stored, f_faults, f_cuts, f_puts>>

VARIABLES u_rows, u_objects, u_made, u_op, u_asked, u_failed, u_whole,
          u_reused, u_status, u_urls, u_stored, u_faults, u_cuts, u_puts
Upload == INSTANCE Files WITH
    Ids <- {}, Keys <- {}, Uploads <- {"u1", "u2"}, Callers <- {"c1", "c2"},
    NoRow <- "none", MaxFaults <- 2, MaxCuts <- 1, MaxPuts <- 2,
    rows <- u_rows, objects <- u_objects, made <- u_made, op <- u_op,
    asked <- u_asked, failed <- u_failed, whole <- u_whole,
    reused <- u_reused, status <- u_status, urls <- u_urls,
    stored <- u_stored, faults <- u_faults, cuts <- u_cuts, puts <- u_puts
uVars == <<u_rows, u_objects, u_made, u_op, u_asked, u_failed, u_whole,
           u_reused, u_status, u_urls, u_stored, u_faults, u_cuts, u_puts>>

----
Components == {"scheduler", "queue", "cron", "logger", "calls",
               "serial calls", "meetings",
               "serial meetings", "recordings", "webhooks",
               "overlapping webhooks", "hub", "stopping hub", "subscriber", "billing",
               "bridge", "junk", "gateway", "experience", "files", "uploads"}

MCInit ==
    /\ part \in Components
    /\ part # "cron" => c_expr = CronExpr(<<>>, <<>>, <<>>, <<>>, <<>>)
    /\ part # "gateway" => a_retries = 1 /\ a_based = TRUE /\ a_op = "json"
    /\ part # "experience" => x_grants = NoGrants
    /\ part # "logger" => l_store = TRUE
    /\ part # "bridge" => e_handler = TRUE
    /\ part # "junk" => j_handler = TRUE
    /\ Init /\ Queue!Init /\ Cron!Init /\ Log!Init
    /\ Call!Init /\ SerialCall!Init /\ Meeting!Init
    /\ SerialMeeting!Init /\ Recording!Init
    /\ IF part = "stopping hub" THEN StoppingHub!Init ELSE Hub!Init
    /\ Hooks!Init /\ Overlapping!Init /\ Sub!Init
    /\ Bill!Init /\ Bridge!Init /\ Junkyard!Init /\ Gateway!Init
    /\ Screens!Init /\ File!Init /\ Upload!Init

\* A step of the component that runs; the others stand still.
MCNext ==
    /\ part' = part
    /\ IF part = "scheduler" THEN Next ELSE UNCHANGED vars
    /\ IF part = "queue" THEN Queue!Next ELSE UNCHANGED qVars
    /\ IF part = "cron" THEN Cron!Next ELSE UNCHANGED cVars
    /\ IF part = "logger" THEN Log!Next ELSE UNCHANGED lVars
    /\ IF part = "calls" THEN Call!Next ELSE UNCHANGED kVars
    /\ IF part = "serial calls" THEN SerialCall!Next ELSE UNCHANGED yVars
    /\ IF part = "meetings" THEN Meeting!Next ELSE UNCHANGED mVars
    /\ IF part = "serial meetings" THEN SerialMeeting!Next ELSE UNCHANGED nVars
    /\ IF part = "recordings" THEN Recording!Next ELSE UNCHANGED rVars
    /\ IF part = "webhooks" THEN Hooks!Next ELSE UNCHANGED wVars
    /\ IF part = "overlapping webhooks" THEN Overlapping!Next ELSE UNCHANGED oVars
    /\ IF part = "hub" THEN Hub!Next
       ELSE IF part = "stopping hub" THEN StoppingHub!Next ELSE UNCHANGED hVars
    /\ IF part = "subscriber" THEN Sub!Next ELSE UNCHANGED sVars
    /\ IF part = "billing" THEN Bill!Next ELSE UNCHANGED bVars
    /\ IF part = "bridge" THEN Bridge!Next ELSE UNCHANGED eVars
    /\ IF part = "junk" THEN Junkyard!Next ELSE UNCHANGED jVars
    /\ IF part = "gateway" THEN Gateway!Next ELSE UNCHANGED aVars
    /\ IF part = "experience" THEN Screens!Next ELSE UNCHANGED xVars
    /\ IF part = "files" THEN File!Next ELSE UNCHANGED fVars
    /\ IF part = "uploads" THEN Upload!Next ELSE UNCHANGED uVars

allVars == <<part, vars, qVars, cVars, lVars, kVars, yVars, mVars, nVars, rVars,
                   wVars, oVars, hVars, sVars, bVars, eVars, jVars, aVars,
                   xVars, fVars, uVars>>

MCSpec == MCInit /\ [][MCNext]_allVars

----

\* An expression that restricts at most one day field fires at exactly the
\* seconds it names; with both restricted it fires at none that a standard cron,
\* which takes either, would not.
FiresWhenNamed == part = "cron" => Cron!FiresWhenNamed

\* However the handlers interleave, a meeting has fewer people above its maximum
\* than there are joins in flight: each join counts before it adds itself.
OvershootBounded == part = "meetings" => Meeting!OvershootBounded

\* A webhook delivery is sent at most MaxRetries times, and once more for each
\* lost outcome, each ExecuteDelivery and, when sweeps overlap, each goroutine;
\* what the receiver took is sent again only after an outcome was lost, by
\* ExecuteDelivery or by sweeps that overlap.
ResendsAccounted ==
    /\ part = "webhooks" => Hooks!ResendsAccounted
    /\ part = "overlapping webhooks" => Overlapping!ResendsAccounted

\* While a connection is subscribed, and no Redis call has failed and no Stop
\* has begun, its instance is subscribed in Redis: no interleaving of the other
\* connections' Subscribe and Unsubscribe cuts it off from the fleet.
FanoutWhileSubscribed ==
    /\ part = "hub" => Hub!FanoutWhileSubscribed
    /\ part = "stopping hub" => StoppingHub!FanoutWhileSubscribed

\* The reader never sleeps on a message, the one-element notify channel losing
\* no wake-up, and what it has read and still has to read is in the order of the
\* Sends, the drops of a full buffer leaving gaps and no other disorder.
NoLostWakeup == part = "subscriber" => Sub!NoLostWakeup

\* When a consumer finds chunks closed the outcome is settled: errs is closed
\* too and holds the error exactly if the stream failed (so a read of errs never
\* waits), and the observer has been told that outcome once (a stream without a
\* base URL tells it nothing). A JSON call goes on only after a transient answer
\* or a transport error, returns its last answer unless it was cancelled, and
\* with a positive MaxRetries gives up on a transient one exactly when that many
\* retries have been spent.
OutcomeSettled == part = "gateway" => Gateway!OutcomeSettled

\* A claimed job has one holder, whose copy of the row is up to date: what lets
\* the settle calls, which name only the job, be unconditional. And while its
\* lease has not been lost a scheduled task runs, for a tick, on the one replica
\* that holds the lease.
OneHolder ==
    /\ part = "queue" => Queue!OneHolder
    /\ part = "scheduler" => OneRunnerPerTick

\* Nothing that was accepted vanishes. Every event the audit logger accepted is
\* written, skipped, in the batch or on the channel, in exactly one of the
\* places; and a message the event bridge acknowledged was handled, and only
\* ever by the adapter with the longest matching prefix, unless Transform
\* filtered it out. Every surface of a stored screen is rendered, degraded,
\* dropped or locked on the device that asked, by the grants of its own scope;
\* and what ValidateSpec told the builder holds there unless a grant was
\* withdrawn since. The billing sink has one record for each charge, refund and
\* subscription event it took, through redeliveries, and the rail is told that an
\* event is settled only once the sink has taken it. An attachment keeps its object until it is removed, and an
\* object its attachment, but for the races and the lost answers named in the
\* module; and an upload is complete only with its object in the bucket.
Accounted ==
    /\ part = "logger" => Log!Accounted
    /\ part = "bridge" => Bridge!AckedWasHandled
    /\ part = "junk" => Junkyard!AckedWasHandled
    /\ part = "experience" => Screens!SurfacesAccounted
    /\ part = "experience" => Screens!ValidationHolds
    /\ part = "billing" => Bill!OneRecordEach
    /\ part = "files" => File!OthersKept
    /\ part = "files" => File!OrphansNeedTwo
    /\ part = "uploads" => Upload!CompleteIsStored

\* The records of a room tell what happened in it: a call is connected, now or
\* by its ConnectedAt, only if its two parties have been in the room together,
\* whatever the order of the handlers. With handlers served one after the other
\* a call keeps to callTransitions, whatever order LiveKit's events come in (a
\* participant_joined after the participant_left brings no ended call back), and
\* an active meeting has somebody in it.
RoomRecords ==
    /\ [](part = "calls" => Call!ConnectedMet)
    /\ SerialCall!KeepsToTable
    /\ [](part = "serial meetings" => SerialMeeting!ActiveIsPeopled)

\* The rows, the leases, the connections and the handlers in flight keep their
\* types.
PartsTypeOK ==
    /\ part = "queue" => Queue!TypeOK
    /\ part = "logger" => Log!TypeOK
    /\ part = "calls" => Call!TypeOK
    /\ part = "serial calls" => SerialCall!TypeOK
    /\ part = "meetings" => Meeting!TypeOK
    /\ part = "serial meetings" => SerialMeeting!TypeOK
    /\ part = "recordings" => Recording!TypeOK
    /\ part = "webhooks" => Hooks!TypeOK
    /\ part = "overlapping webhooks" => Overlapping!TypeOK
    /\ part = "hub" => Hub!TypeOK
    /\ part = "stopping hub" => StoppingHub!TypeOK
    /\ part = "subscriber" => Sub!TypeOK
    /\ part = "billing" => Bill!TypeOK
    /\ part = "bridge" => Bridge!TypeOK
    /\ part = "junk" => Junkyard!TypeOK
    /\ part = "gateway" => Gateway!TypeOK
    /\ part = "experience" => Screens!TypeOK
    /\ part = "files" => File!TypeOK
    /\ part = "uploads" => Upload!TypeOK
    /\ TypeOK
====
