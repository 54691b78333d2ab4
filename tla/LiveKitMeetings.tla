--------------------------- MODULE LiveKitMeetings --------------------------
(***************************************************************************)
(* Multi-party meetings: join, leave and end, by RPC or by LiveKit's       *)
(* webhooks, each a sequence of separate store and LiveKit calls.          *)
(*                                                                         *)
(* Code: platform/livekit/{service,state,store,webhook}.go.                *)
(*                                                                         *)
(* A thread is a handler in flight and its op names the call it makes      *)
(* next; seen is the State of the meeting it has read.                     *)
(***************************************************************************)
EXTENDS Integers, FiniteSets

CONSTANTS Users, Meetings, Threads,
          Creator,    \* who created each meeting
          Requested,  \* the MaxParticipants asked for
          Default, Cap,  \* DefaultMaxMeetingParticipants, MaxMeetingParticipantsCap
          MaxFaults,  \* bound on LiveKit and store errors
          None

VARIABLES mstate, max, parts,  \* Meeting.State, .MaxParticipants, active participants
          room,                \* the LiveKit room
          finished,            \* rooms for which room_finished was sent
          th, faults

vars == <<mstate, max, parts, room, finished, th, faults>>

Ops == {"count", "createRoom", "activate", "add", "recount", "reread", "end", "endAndDelete", "delete"}
Idle == [op |-> "idle", m |-> None, u |-> None, seen |-> "none"]

\* Meetings, rooms and handlers keep their types.
TypeOK ==
  /\ mstate \in [Meetings -> {"none", "scheduled", "active", "ended"}]
  /\ max \in [Meetings -> 0..Cap]
  /\ parts \in [Meetings -> SUBSET Users]
  /\ room \in [Meetings -> {"none", "open", "closed"}]
  /\ finished \subseteq Meetings
  /\ th \in [Threads -> [op : Ops \cup {"idle"}, m : Meetings \cup {None},
                         u : Users \cup {None}, seen : {"none", "scheduled", "active"}]]
  /\ faults \in 0..MaxFaults

Init ==
  /\ mstate = [m \in Meetings |-> "none"]
  /\ max = [m \in Meetings |-> 0]
  /\ parts = [m \in Meetings |-> {}]
  /\ room = [m \in Meetings |-> "none"]
  /\ finished = {}
  /\ th = [t \in Threads |-> Idle]
  /\ faults = 0

Fault == faults < MaxFaults /\ faults' = faults + 1
Begin(t, o, mm, uu) == th' = [th EXCEPT ![t] = [op |-> o, m |-> mm, u |-> uu, seen |-> mstate[mm]]]
GoOn(t, o) == th' = [th EXCEPT ![t].op = o]
Return(t) == th' = [th EXCEPT ![t] = Idle]

Clamp(n) == LET p == IF n <= 0 THEN Default ELSE n IN IF p > Cap THEN Cap ELSE p

CreateMeeting(m) ==
  /\ mstate[m] = "none"
  /\ mstate' = [mstate EXCEPT ![m] = "scheduled"]
  /\ max' = [max EXCEPT ![m] = Clamp(Requested[m])]
  /\ UNCHANGED <<parts, room, finished, th, faults>>

-----------------------------------------------------------------------------
(* JoinMeeting.                                                            *)

JoinMeeting(t, m, u) ==
  /\ th[t] = Idle /\ mstate[m] \in {"scheduled", "active"}
  /\ Begin(t, "count", m, u)
  /\ UNCHANGED <<mstate, max, parts, room, finished, faults>>

Full_Past(m) == Cardinality(parts[m]) > max[m]

\* count >= meeting.MaxParticipants
Full(m) == Cardinality(parts[m]) >= max[m]

JoinCount(t) ==
  /\ th[t].op = "count"
  /\ IF Full(th[t].m) THEN Return(t)
     ELSE GoOn(t, IF th[t].seen = "scheduled" THEN "createRoom" ELSE "add")
  /\ UNCHANGED <<mstate, max, parts, room, finished, faults>>

CreateMeetingRoom(t) ==
  /\ th[t].op = "createRoom"
  /\ room' = [room EXCEPT ![th[t].m] = "open"]
  /\ GoOn(t, "activate")
  /\ UNCHANGED <<mstate, max, parts, finished, faults>>

\* UpdateMeeting replaces the record by the copy with State active.
Activate(t) ==
  /\ th[t].op = "activate"
  /\ mstate' = [mstate EXCEPT ![th[t].m] = "active"]
  /\ GoOn(t, "add")
  /\ UNCHANGED <<max, parts, room, finished, faults>>

\* Idempotent for a user who is already in.
AddParticipant(t) ==
  /\ th[t].op = "add"
  /\ parts' = [parts EXCEPT ![th[t].m] = @ \cup {th[t].u}]
  /\ Return(t)
  /\ UNCHANGED <<mstate, max, room, finished, faults>>

-----------------------------------------------------------------------------
(* LeaveMeeting, by RPC or participant_left; EndMeeting; room_finished.    *)

LeaveMeeting(t, m, u) ==
  /\ th[t] = Idle /\ u \in parts[m]   \* else ErrNotParticipant
  /\ parts' = [parts EXCEPT ![m] = @ \ {u}]
  /\ th' = [th EXCEPT ![t] = [op |-> "recount", m |-> m, u |-> u, seen |-> "none"]]
  /\ UNCHANGED <<mstate, max, room, finished, faults>>

LeaveCount(t) ==
  /\ th[t].op = "recount"
  /\ IF parts[th[t].m] # {} THEN Return(t) ELSE GoOn(t, "reread")
  /\ UNCHANGED <<mstate, max, parts, room, finished, faults>>

LeaveRead_Any(t) == th[t].op = "reread" /\ Return(t) /\ UNCHANGED <<mstate, max, parts, room, finished, faults>>

LeaveRead(t) ==
  /\ th[t].op = "reread"
  /\ IF mstate[th[t].m] = "ended" THEN Return(t) ELSE GoOn(t, "end")
  /\ UNCHANGED <<mstate, max, parts, room, finished, faults>>

\* Only the creator may end the meeting.
EndMeeting(t, m) ==
  /\ th[t] = Idle /\ mstate[m] \in {"scheduled", "active"}
  /\ Begin(t, "endAndDelete", m, Creator[m])
  /\ UNCHANGED <<mstate, max, parts, room, finished, faults>>

EndMeetingByRoom(t, m) ==
  /\ th[t] = Idle /\ m \in finished /\ mstate[m] \in {"scheduled", "active"}
  /\ Begin(t, "end", m, None)
  /\ UNCHANGED <<mstate, max, parts, room, finished, faults>>

End(t) ==
  /\ th[t].op \in {"end", "endAndDelete"}
  /\ mstate' = [mstate EXCEPT ![th[t].m] = "ended"]
  /\ IF th[t].op = "end" THEN Return(t) ELSE GoOn(t, "delete")
  /\ UNCHANGED <<max, parts, room, finished, faults>>

\* A failure to delete the room is only logged.
DeleteRoom(t) ==
  /\ th[t].op = "delete"
  /\ \/ room' = [room EXCEPT ![th[t].m] = "closed"] /\ UNCHANGED faults
     \/ Fault /\ UNCHANGED room
  /\ Return(t)
  /\ UNCHANGED <<mstate, max, parts, finished>>

\* Any other store or LiveKit call fails and the handler returns its error.
CallFails(t) ==
  /\ th[t].op \in Ops \ {"delete"}
  /\ Fault
  /\ Return(t)
  /\ UNCHANGED <<mstate, max, parts, room, finished>>

RoomFinished(m) ==
  /\ room[m] = "open"
  /\ room' = [room EXCEPT ![m] = "closed"]
  /\ finished' = finished \cup {m}
  /\ UNCHANGED <<mstate, max, parts, th, faults>>

Step(t) ==
  \/ JoinCount(t) \/ CreateMeetingRoom(t) \/ Activate(t) \/ AddParticipant(t)
  \/ LeaveCount(t) \/ LeaveRead(t) \/ End(t) \/ DeleteRoom(t)

Next ==
  \/ \E m \in Meetings : CreateMeeting(m) \/ RoomFinished(m)
  \/ \E t \in Threads, m \in Meetings, u \in Users : JoinMeeting(t, m, u) \/ LeaveMeeting(t, m, u)
  \/ \E t \in Threads, m \in Meetings : EndMeeting(t, m) \/ EndMeetingByRoom(t, m)
  \/ \E t \in Threads : Step(t) \/ CallFails(t)

Spec == Init /\ [][Next]_vars

-----------------------------------------------------------------------------
Quiet(m) == \A t \in Threads : th[t].m # m

\* However the handlers interleave, a meeting has fewer people above its maximum
\* than there are joins in flight: each join counts before it adds itself.
OvershootBounded ==
  \A m \in Meetings : mstate[m] # "none" =>
    Cardinality(parts[m]) < max[m] + Cardinality(Threads)

\* Served one after the other and without errors, an active meeting has
\* somebody in it: whoever leaves last ends it.
ActiveIsPeopled ==
  \A m \in Meetings : mstate[m] = "active" /\ Quiet(m) /\ faults = 0 => parts[m] # {}

=============================================================================
