-------------------------- MODULE LiveKitRecordings -------------------------
(***************************************************************************)
(* Egress recordings: StartRecording and StopRecording drive LiveKit's     *)
(* egress, whose egress_ended webhook finalises the recording row.         *)
(*                                                                         *)
(* Code: platform/livekit/{recording,store,webhook}.go.  A recording and   *)
(* its egress share a name; a thread is a handler in flight.  File paths,  *)
(* sizes and durations are data of the final write and left out.           *)
(***************************************************************************)
EXTENDS Naturals, FiniteSets

CONSTANTS Recordings, Threads,
          MaxFaults,  \* bound on failed store and LiveKit calls
          None

VARIABLES row,        \* Recording.State, "absent" before CreateRecording
          egress,     \* LiveKit's egress
          event,      \* egresses whose egress_ended is to be delivered
          th,         \* the handlers in flight: what they do next, for which recording
          faults

vars == <<row, egress, event, th, faults>>
Idle == [op |-> "idle", r |-> None]
Ops == {"create", "stopEgress", "process", "complete", "fail"}
Final == {"completed", "failed"}

\* Rows, egresses and handlers keep their types.
TypeOK ==
  /\ row \in [Recordings -> {"absent", "recording", "processing"} \cup Final]
  /\ egress \in [Recordings -> {"none", "running", "ended"}]
  /\ event \subseteq Recordings
  /\ th \in [Threads -> [op : Ops \cup {"idle"}, r : Recordings \cup {None}]]
  /\ faults \in 0..MaxFaults

Init ==
  /\ row = [r \in Recordings |-> "absent"]
  /\ egress = [r \in Recordings |-> "none"]
  /\ event = {}
  /\ th = [t \in Threads |-> Idle]
  /\ faults = 0

Fault == faults < MaxFaults /\ faults' = faults + 1
GoOn(t, o, rec) == th' = [th EXCEPT ![t] = [op |-> o, r |-> rec]]
Return(t) == th' = [th EXCEPT ![t] = Idle]

\* StartRecording: the egress is started before the row exists.
StartEgress(t, r) ==
  /\ th[t] = Idle /\ egress[r] = "none"
  /\ egress' = [egress EXCEPT ![r] = "running"]
  /\ GoOn(t, "create", r)
  /\ UNCHANGED <<row, event, faults>>

CreateRecording(t) ==
  /\ th[t].op = "create"
  /\ row' = [row EXCEPT ![th[t].r] = "recording"]
  /\ Return(t)
  /\ UNCHANGED <<egress, event, faults>>

\* rec.State must be recording.
Stoppable(r) == row[r] = "recording"

StopRecording(t, r) ==
  /\ th[t] = Idle /\ Stoppable(r)
  /\ GoOn(t, "stopEgress", r)
  /\ UNCHANGED <<row, egress, event, faults>>

\* LiveKit refuses to stop an egress that has ended.
StopEgress(t) ==
  LET r == th[t].r IN
  /\ th[t].op = "stopEgress"
  /\ egress' = [egress EXCEPT ![r] = "ended"]
  /\ IF egress[r] = "running"
     THEN event' = event \cup {r} /\ GoOn(t, "process", r)
     ELSE Return(t) /\ UNCHANGED event
  /\ UNCHANGED <<row, faults>>

HandleEgressEnded_OnlyRecording(t, r) ==
  /\ th[t] = Idle /\ r \in event
  /\ event' = event \ {r}
  /\ IF row[r] # "recording" THEN UNCHANGED th ELSE \E o \in {"complete", "fail"} : GoOn(t, o, r)
  /\ UNCHANGED <<row, egress, faults>>

\* HandleEgressEnded looks the row up by its egress ID; without a row the
\* error is logged and the webhook answered with 200.
HandleEgressEnded(t, r) ==
  /\ th[t] = Idle /\ r \in event
  /\ event' = event \ {r}
  /\ IF row[r] = "absent" THEN UNCHANGED th ELSE \E o \in {"complete", "fail"} : GoOn(t, o, r)
  /\ UNCHANGED <<row, egress, faults>>

Written(op) ==
  CASE op = "process" -> "processing" [] op = "complete" -> "completed" [] op = "fail" -> "failed"

\* UpdateRecording replaces the row by the handler's copy.
UpdateRecording(t) ==
  /\ th[t].op \in {"process", "complete", "fail"}
  /\ row' = [row EXCEPT ![th[t].r] = Written(th[t].op)]
  /\ Return(t)
  /\ UNCHANGED <<egress, event, faults>>

CallFails(t) ==
  /\ th[t].op # "idle"
  /\ Fault
  /\ Return(t)
  /\ UNCHANGED <<row, egress, event>>

\* The room closes, or the egress fails.
EgressEnds(r) ==
  /\ egress[r] = "running"
  /\ egress' = [egress EXCEPT ![r] = "ended"]
  /\ event' = event \cup {r}
  /\ UNCHANGED <<row, th, faults>>

Step(t) == CreateRecording(t) \/ StopEgress(t) \/ UpdateRecording(t)

Next ==
  \/ \E t \in Threads, r \in Recordings :
       StartEgress(t, r) \/ StopRecording(t, r) \/ HandleEgressEnded(t, r)
  \/ \E t \in Threads : Step(t) \/ CallFails(t)
  \/ \E r \in Recordings : EgressEnds(r)

Spec == Init /\ [][Next]_vars

\* Handlers go on, a webhook LiveKit sends is served, an egress ends some day.
Fairness ==
  /\ \A t \in Threads : WF_vars(Step(t))
  /\ \A r \in Recordings :
       /\ SF_vars(\E t \in Threads : HandleEgressEnded(t, r))
       /\ WF_vars(EgressEnds(r))

-----------------------------------------------------------------------------

\* A recording whose handlers are served one after the other is finalised by
\* egress_ended (the comment on StopRecording), unless a call failed.
Finalised ==
  \A r \in Recordings : row[r] # "absent" ~> row[r] \in Final \/ faults > 0
=============================================================================
