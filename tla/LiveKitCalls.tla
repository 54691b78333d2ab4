---------------------------- MODULE LiveKitCalls ----------------------------
(***************************************************************************)
(* One-to-one calls: the RPCs of the calling service, the ringing timer    *)
(* and LiveKit's webhooks, all working on one call record.                 *)
(*                                                                         *)
(* Code: platform/livekit/{service,state,webhook,store,clock}.go.          *)
(*                                                                         *)
(* Every handler reads the record, decides on its copy and writes the copy *)
(* back: two store calls, with the creation of the room in between for     *)
(* AcceptCall.  A thread is a handler in flight; with one thread requests  *)
(* are served one after the other.  LiveKit delivers its events late, in   *)
(* any order and more than once.  Times, reasons and payloads are left out.*)
(***************************************************************************)
EXTENDS Naturals, FiniteSets

CONSTANTS Users, Calls, Threads,
          MaxFaults,  \* bound on LiveKit, token and store errors and crashes
          None        \* no user, no call

VARIABLES state,      \* Call.State
          connected,  \* calls whose ConnectedAt is set
          caller, callee,
          timer,      \* calls whose ringing timer is armed
          th,         \* the handlers in flight
          tokens,     \* calls whose join tokens were handed out
          room,       \* the LiveKit room of the call
          inRoom,     \* who is in it
          events,     \* webhook events LiveKit has sent: kind, room and
                      \*   the number of participants a join reports
          met,        \* history: calls whose two parties were in the room
          faults

record == <<state, connected, caller, callee>>
livekit == <<tokens, room, inRoom, events, met>>
vars == <<record, timer, th, livekit, faults>>

Terminal == {"declined", "missed", "failed", "ended"}
States == {"none", "ringing", "connecting", "connected"} \cup Terminal
ReadOps == {"expire", "accept", "decline", "end", "connect", "byroom"}
WriteOps == {"expire", "acceptOK", "acceptFailed", "decline", "end", "connect", "byroom"}

Idle == [op |-> "idle", call |-> None, a |-> None, b |-> None, conn |-> FALSE]

\* Records, handlers, rooms and history keep their types.
TypeOK ==
  /\ state \in [Calls -> States]
  /\ connected \subseteq Calls /\ tokens \subseteq Calls
  /\ caller \in [Calls -> Users \cup {None}] /\ callee \in [Calls -> Users \cup {None}]
  /\ timer \subseteq Calls
  /\ th \in [Threads -> [op : {"idle", "checkCallee", "create", "arm"} \cup ReadOps \cup WriteOps,
                         call : Calls \cup {None}, a : Users \cup {None}, b : Users \cup {None},
                         conn : BOOLEAN]]
  /\ room \in [Calls -> {"none", "open", "closed"}]
  /\ inRoom \in [Calls -> SUBSET Users]
  /\ events \subseteq {"joined", "left", "finished"} \X Calls \X (0..Cardinality(Users))
  /\ met \subseteq Calls
  /\ faults \in 0..MaxFaults

Init ==
  /\ state = [c \in Calls |-> "none"]
  /\ connected = {} /\ tokens = {}
  /\ caller = [c \in Calls |-> None] /\ callee = [c \in Calls |-> None]
  /\ timer = {}
  /\ th = [t \in Threads |-> Idle]
  /\ room = [c \in Calls |-> "none"]
  /\ inRoom = [c \in Calls |-> {}]
  /\ events = {}
  /\ met = {}
  /\ faults = 0

Fault == faults < MaxFaults /\ faults' = faults + 1

-----------------------------------------------------------------------------
(* InitiateCall: two look-ups, an insert, and the ringing timer.           *)

\* GetActiveCallForUser finds a call.
Active(u) ==
  \E c \in Calls : u \in {caller[c], callee[c]} /\ state[c] \notin Terminal \cup {"none"}

InitiateCall(t, a, b) ==
  /\ th[t] = Idle /\ a # b /\ ~Active(a)
  /\ th' = [th EXCEPT ![t] = [Idle EXCEPT !.op = "checkCallee", !.a = a, !.b = b]]
  /\ UNCHANGED <<record, timer, livekit, faults>>

CheckCallee(t) ==
  /\ th[t].op = "checkCallee"
  /\ th' = [th EXCEPT ![t] = IF Active(th[t].b) THEN Idle ELSE [@ EXCEPT !.op = "create"]]
  /\ UNCHANGED <<record, timer, livekit, faults>>

\* The row of a new call.
Insert(c, a, b) ==
  /\ state[c] = "none"
  /\ state' = [state EXCEPT ![c] = "ringing"]
  /\ caller' = [caller EXCEPT ![c] = a]
  /\ callee' = [callee EXCEPT ![c] = b]

CreateCall(t) ==
  /\ th[t].op = "create"
  /\ \E c \in Calls :
       /\ Insert(c, th[t].a, th[t].b)
       /\ th' = [th EXCEPT ![t] = [Idle EXCEPT !.op = "arm", !.call = c]]
  /\ UNCHANGED <<connected, timer, livekit, faults>>

\* The insert returns an error, having been refused or having committed: no
\* timer is started.
CreateFails(t) ==
  /\ th[t].op = "create"
  /\ Fault
  /\ \/ \E c \in Calls : Insert(c, th[t].a, th[t].b)
     \/ UNCHANGED <<state, caller, callee>>
  /\ th' = [th EXCEPT ![t] = Idle]
  /\ UNCHANGED <<connected, timer, livekit>>

ArmTimer_Skipped(t) ==
  /\ th[t].op = "arm"
  /\ th' = [th EXCEPT ![t] = Idle]
  /\ UNCHANGED <<record, timer, livekit, faults>>

\* AfterFunc, after the invitation was sent; the callee may have answered.
ArmTimer(t) ==
  /\ th[t].op = "arm"
  /\ timer' = timer \cup {th[t].call}
  /\ th' = [th EXCEPT ![t] = Idle]
  /\ UNCHANGED <<record, livekit, faults>>

-----------------------------------------------------------------------------
(* The other handlers: read, then write.                                   *)

ReadableIn_LateJoin(op) ==
  CASE op \in {"expire", "accept", "decline"} -> {"ringing"}
    [] op = "connect" -> {"connecting"} \cup Terminal
    [] op \in {"end", "byroom"} -> {"connecting", "connected"}

\* The states in which a handler goes on after its read.
ReadableIn(op) ==
  CASE op \in {"expire", "accept", "decline"} -> {"ringing"}
    [] op = "connect" -> {"connecting"}
    [] op \in {"end", "byroom"} -> {"connecting", "connected"}

Trigger_AnyCount(op, c) ==
  CASE op = "expire" -> c \in timer
    [] op = "connect" -> \E n \in 1..Cardinality(Users) : <<"joined", c, n>> \in events
    [] op = "byroom" -> \E e \in events : e[1] \in {"left", "finished"} /\ e[2] = c
    [] OTHER -> TRUE

\* What starts the handler: its timer, its webhook, or a user. A join that
\* reports fewer than two participants is passed over.
Trigger(op, c) ==
  CASE op = "expire" -> c \in timer
    [] op = "connect" -> \E n \in 2..Cardinality(Users) : <<"joined", c, n>> \in events
    [] op = "byroom" -> \E e \in events : e[1] \in {"left", "finished"} /\ e[2] = c
    [] OTHER -> TRUE

Read(t, op, c) ==
  /\ th[t] = Idle /\ Trigger(op, c) /\ state[c] \in ReadableIn(op)
  /\ th' = [th EXCEPT ![t] = [Idle EXCEPT !.op = op, !.call = c, !.conn = c \in connected]]
  /\ timer' = IF op = "expire" THEN timer \ {c} ELSE timer
  /\ UNCHANGED <<record, livekit, faults>>

\* The timer fires for a call that is no longer ringing.
ExpireNothing(c) ==
  /\ c \in timer /\ state[c] # "ringing"
  /\ timer' = timer \ {c}
  /\ UNCHANGED <<record, th, livekit, faults>>

\* AcceptCall creates the room between its read and its write.
CreateRoom(t) ==
  /\ th[t].op = "accept"
  /\ room' = [room EXCEPT ![th[t].call] = "open"]
  /\ th' = [th EXCEPT ![t].op = "acceptOK"]
  /\ UNCHANGED <<record, timer, tokens, inRoom, events, met, faults>>

CreateRoomFails(t) ==
  /\ th[t].op = "accept"
  /\ Fault
  /\ th' = [th EXCEPT ![t].op = "acceptFailed"]
  /\ UNCHANGED <<record, timer, livekit>>

\* A token or the update fails: the room is deleted, the call left as it is,
\* or as the update left it when only its answer was lost.
AcceptAborts(t, stored) ==
  LET c == th[t].call IN
  /\ th[t].op = "acceptOK"
  /\ Fault
  /\ state' = IF stored THEN [state EXCEPT ![c] = "connecting"] ELSE state
  /\ connected' = IF stored /\ ~th[t].conn THEN connected \ {c} ELSE connected
  /\ room' = [room EXCEPT ![c] = "closed"]
  /\ inRoom' = [inRoom EXCEPT ![c] = {}]
  /\ th' = [th EXCEPT ![t] = Idle]
  /\ UNCHANGED <<caller, callee, timer, tokens, events, met>>

Written(op) ==
  CASE op = "expire" -> "missed"
    [] op = "acceptOK" -> "connecting"
    [] op = "acceptFailed" -> "failed"
    [] op = "decline" -> "declined"
    [] op = "connect" -> "connected"
    [] op \in {"end", "byroom"} -> "ended"

\* UpdateCall replaces the record by the handler's copy, ConnectedAt as it was
\* read.  AcceptCall then hands out the two join tokens.
Write(t) ==
  LET c == th[t].call
      op == th[t].op IN
  /\ op \in WriteOps
  /\ state' = [state EXCEPT ![c] = Written(op)]
  /\ tokens' = IF op = "acceptOK" THEN tokens \cup {c} ELSE tokens
  /\ connected' = IF op = "connect" \/ th[t].conn THEN connected \cup {c} ELSE connected \ {c}
  /\ th' = [th EXCEPT ![t] = Idle]
  /\ UNCHANGED <<caller, callee, timer, room, inRoom, events, met, faults>>

\* UpdateCall fails; nothing is written (AcceptAborts is AcceptCall's case).
WriteFails(t) ==
  /\ th[t].op \in WriteOps \ {"acceptOK"}
  /\ Fault
  /\ th' = [th EXCEPT ![t] = Idle]
  /\ UNCHANGED <<record, timer, livekit>>

\* The process dies: the handlers in flight and the timers, which live in its
\* memory, are gone.
Crash ==
  /\ Fault
  /\ th' = [t \in Threads |-> Idle] /\ timer' = {}
  /\ UNCHANGED <<record, livekit>>

-----------------------------------------------------------------------------
(* LiveKit and the two parties, who have tokens once the call was accepted. *)

Join(c, u) ==
  /\ room[c] = "open" /\ c \in tokens /\ u \in {caller[c], callee[c]} \ inRoom[c]
  /\ inRoom' = [inRoom EXCEPT ![c] = @ \cup {u}]
  /\ events' = events \cup {<<"joined", c, Cardinality(inRoom'[c])>>}
  /\ met' = IF Cardinality(inRoom'[c]) >= 2 THEN met \cup {c} ELSE met
  /\ UNCHANGED <<record, timer, th, tokens, room, faults>>

Leave(c, u) ==
  /\ u \in inRoom[c]
  /\ inRoom' = [inRoom EXCEPT ![c] = @ \ {u}]
  /\ events' = events \cup {<<"left", c, 0>>}
  /\ UNCHANGED <<record, timer, th, tokens, room, met, faults>>

\* An empty room is closed after LiveKit's time-out.
RoomFinished(c) ==
  /\ room[c] = "open" /\ inRoom[c] = {}
  /\ room' = [room EXCEPT ![c] = "closed"]
  /\ events' = events \cup {<<"finished", c, 0>>}
  /\ UNCHANGED <<record, timer, th, tokens, inRoom, met, faults>>

Step(t) == CheckCallee(t) \/ CreateCall(t) \/ ArmTimer(t) \/ CreateRoom(t) \/ Write(t)

Next ==
  \/ \E t \in Threads, a, b \in Users : InitiateCall(t, a, b)
  \/ \E t \in Threads, op \in ReadOps, c \in Calls : Read(t, op, c)
  \/ \E t \in Threads : Step(t) \/ CreateFails(t) \/ CreateRoomFails(t) \/ WriteFails(t)
  \/ \E t \in Threads, stored \in BOOLEAN : AcceptAborts(t, stored)
  \/ Crash
  \/ \E c \in Calls : ExpireNothing(c) \/ RoomFinished(c)
  \/ \E c \in Calls, u \in Users : Join(c, u) \/ Leave(c, u)

Spec == Init /\ [][Next]_vars

\* Handlers in flight go on, and a timer that is due finds a thread: the Go
\* runtime starts a goroutine for it.
Fairness ==
  /\ \A t \in Threads : WF_vars(Step(t))
  /\ \A c \in Calls : /\ SF_vars(\E t \in Threads : Read(t, "expire", c))
                      /\ WF_vars(ExpireNothing(c))

LiveSpec == Spec /\ Fairness

-----------------------------------------------------------------------------
\* A call is connected, now or according to its ConnectedAt, only if its two
\* parties have been in the room together, whatever the handlers' order.
ConnectedMet == \A c \in Calls : state[c] = "connected" \/ c \in connected => c \in met

\* The transitions of callTransitions, which no handler consults.
CallTransitions ==
  {<<"ringing", s>> : s \in {"connecting", "declined", "missed", "failed"}}
    \cup {<<"connecting", s>> : s \in {"connected", "failed", "ended"}}
    \cup {<<"connected", "ended">>}

\* Handlers served one after the other take a call only through the transitions
\* of callTransitions, though each checks for itself and LiveKit's events come
\* late, again or in another order: a participant_joined that arrives after the
\* participant_left does not bring an ended call back.
KeepsToTable ==
  [][\A c \in Calls : state[c] \notin {"none", state'[c]}
                        => <<state[c], state'[c]>> \in CallTransitions]_vars

\* A call does not ring for ever: the timer, or an answer, ends it.
RingingEnds == \A c \in Calls : faults = 0 /\ state[c] = "ringing" ~> state[c] # "ringing" \/ faults > 0

-----------------------------------------------------------------------------
\* The comments in state.go: a terminal call cannot transition further.
TerminalIsFinal ==
  [][\A c \in Calls : state[c] \in Terminal => state'[c] = state[c]]_vars

=============================================================================
