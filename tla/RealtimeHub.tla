----------------------------- MODULE RealtimeHub ----------------------------
(***************************************************************************)
(* The realtime hub of a fleet: per instance a local hub and the Redis     *)
(* fan-out around it, seen on one channel.                                 *)
(*                                                                         *)
(* Code: platform/realtime/realtime.go (localHub) and redis_fanout.go.     *)
(* Each critical section is one step; a call is the sequence of its        *)
(* sections.  Redis pub/sub delivers at most once and only to instances    *)
(* subscribed at the time.  What a subscriber does with a message is       *)
(* module BufferedSubscriber.                                              *)
(***************************************************************************)
EXTENDS Integers, FiniteSets, Sequences

CONSTANTS Instances, Conns, Msgs,
          Home,      \* the instance a connection is on
          Id,        \* the subscriber ID of a connection
          At,        \* the instance a message is published on
          MayStop,   \* the instances that may be stopped
          MaxFaults  \* bound on failing Redis calls

VARIABLES subs,                 \* localHub.channels[ch]: ID -> connection
          stopped,              \* progress of Stop; from "flag" on localHub.stopped
          subCount, redisSub,   \* fanoutHub.subCount[ch], whether cancels has ch
          inbox,                \* payloads Redis has sent to an instance
          conn, closed,         \* a connection's calls; BufferedSubscriber.closed
          pub, targets,         \* Publish calls of the message, of the consumer
          remote,               \* what the Redis consumer is publishing
          got,                  \* how often a connection was sent a message
          faults

hub == <<subs, stopped>>
fanout == <<subCount, redisSub, inbox>>
calls == <<pub, targets, remote>>
vars == <<hub, fanout, conn, closed, calls, got, faults>>

Nothing == "none"
Ids == {Id[c] : c \in Conns}

\* The hub's maps, the calls in flight and the histories keep their types.
TypeOK ==
  /\ subs \in [Instances -> [Ids -> Conns \cup {Nothing}]]
  /\ stopped \in [Instances -> {"no", "fanout", "flag", "done"}]
  /\ subCount \in [Instances -> Nat] /\ redisSub \in [Instances -> BOOLEAN]
  /\ inbox \in [Instances -> Seq(Msgs)]
  /\ conn \in [Conns -> {"new", "checked", "local", "on", "leaving", "off", "refused"}]
  /\ closed \subseteq Conns
  /\ pub \in [Msgs -> {"new", "local", "redis", "done", "refused"}]
  /\ targets \in [Msgs \cup Instances -> SUBSET Conns]
  /\ remote \in [Instances -> Msgs \cup {Nothing}]
  /\ got \in [Conns -> [Msgs -> Nat]]
  /\ faults \in 0..MaxFaults

Init ==
  /\ subs = [i \in Instances |-> [x \in Ids |-> Nothing]]
  /\ stopped = [i \in Instances |-> "no"]
  /\ subCount = [i \in Instances |-> 0]
  /\ redisSub = [i \in Instances |-> FALSE]
  /\ inbox = [i \in Instances |-> <<>>]
  /\ conn = [c \in Conns |-> "new"] /\ closed = {}
  /\ pub = [m \in Msgs |-> "new"]
  /\ targets = [x \in Msgs \cup Instances |-> {}]
  /\ remote = [i \in Instances |-> Nothing]
  /\ got = [c \in Conns |-> [m \in Msgs |-> 0]]
  /\ faults = 0

Subscribers(i) == {subs[i][x] : x \in Ids} \ {Nothing}

Running(i) == stopped[i] \in {"no", "fanout"}

\* One Redis call: it fails only while the bound allows.
RedisCall(ok) == IF ok THEN UNCHANGED faults ELSE faults < MaxFaults /\ faults' = faults + 1

-----------------------------------------------------------------------------
(* Subscribe: the stopped flag, the local map, then the Redis side.        *)

SubscribeCheck(c) ==
  /\ conn[c] = "new"
  /\ conn' = [conn EXCEPT ![c] = IF Running(Home[c]) THEN "checked" ELSE "refused"]
  /\ UNCHANGED <<hub, fanout, closed, calls, got, faults>>

SubscribeLocal(c) ==
  /\ conn[c] = "checked"
  /\ subs' = [subs EXCEPT ![Home[c]][Id[c]] = c]
  /\ conn' = [conn EXCEPT ![c] = "local"]
  /\ UNCHANGED <<stopped, fanout, closed, calls, got, faults>>

SubscribeFanout_FirstOnly(c, ok) ==
  LET i == Home[c] IN
  /\ conn[c] = "local"
  /\ RedisCall(ok)
  /\ subCount' = [subCount EXCEPT ![i] = IF redisSub[i] THEN @ ELSE @ + 1]
  /\ redisSub' = [redisSub EXCEPT ![i] = @ \/ ok]
  /\ conn' = [conn EXCEPT ![c] = "on"]
  /\ UNCHANGED <<hub, inbox, closed, calls, got>>

\* A failing Redis subscription leaves the channel local; the next Subscribe
\* tries again.
SubscribeFanout(c, ok) ==
  LET i == Home[c] IN
  /\ conn[c] = "local"
  /\ redisSub[i] => ok
  /\ RedisCall(ok)
  /\ subCount' = [subCount EXCEPT ![i] = @ + 1]
  /\ redisSub' = [redisSub EXCEPT ![i] = @ \/ ok]
  /\ conn' = [conn EXCEPT ![c] = "on"]
  /\ UNCHANGED <<hub, inbox, closed, calls, got>>

-----------------------------------------------------------------------------
(* Unsubscribe: the local map, by ID, then the Redis side.                 *)

UnsubscribeLocal(c) ==
  /\ conn[c] = "on"
  /\ subs' = [subs EXCEPT ![Home[c]][Id[c]] = Nothing]
  /\ conn' = [conn EXCEPT ![c] = "leaving"]
  /\ UNCHANGED <<stopped, fanout, closed, calls, got, faults>>

\* Whether the count that is left calls for the cancel.
Left(n) == n <= 0

\* The subscription is cancelled with the last subscriber; what Redis has sent
\* before is still consumed.
UnsubscribeFanout(c) ==
  LET i == Home[c]
      n == subCount[i] - 1 IN
  /\ conn[c] = "leaving"
  /\ subCount' = [subCount EXCEPT ![i] = IF n <= 0 THEN 0 ELSE n]
  /\ redisSub' = [redisSub EXCEPT ![i] = @ /\ ~Left(n)]
  /\ conn' = [conn EXCEPT ![c] = "off"]
  /\ UNCHANGED <<hub, inbox, closed, calls, got, faults>>

-----------------------------------------------------------------------------
(* Publish: the snapshot of the subscribers, a Send to each, then Redis.   *)

PublishLocal(m) ==
  /\ pub[m] = "new"
  /\ IF Running(At[m])
       THEN /\ pub' = [pub EXCEPT ![m] = "local"]
            /\ targets' = [targets EXCEPT ![m] = Subscribers(At[m])]
       ELSE /\ pub' = [pub EXCEPT ![m] = "refused"]
            /\ UNCHANGED targets
  /\ UNCHANGED <<hub, fanout, conn, closed, remote, got, faults>>

\* Send by the caller x (a Publish, or an instance's consumer) of message m;
\* to a closed subscriber it is an error and the message is dropped.
Send(x, m) ==
  \E c \in targets[x] :
    /\ targets' = [targets EXCEPT ![x] = @ \ {c}]
    /\ got' = IF c \in closed THEN got ELSE [got EXCEPT ![c][m] = @ + 1]

PublishSend(m) ==
  /\ pub[m] = "local"
  /\ Send(m, m)
  /\ UNCHANGED <<hub, fanout, conn, closed, pub, remote, faults>>

PublishRedis(m, ok) ==
  /\ pub[m] = "local" /\ targets[m] = {}
  /\ RedisCall(ok)
  /\ inbox' = [i \in Instances |->
                 IF ok /\ redisSub[i] THEN Append(inbox[i], m) ELSE inbox[i]]
  /\ pub' = [pub EXCEPT ![m] = "done"]
  /\ UNCHANGED <<hub, subCount, redisSub, conn, closed, targets, remote, got>>

-----------------------------------------------------------------------------
(* consumeRedis publishes to the local hub only.                           *)

ConsumeRedis(i) ==
  /\ inbox[i] # <<>> /\ remote[i] = Nothing
  /\ inbox' = [inbox EXCEPT ![i] = Tail(@)]
  /\ remote' = [remote EXCEPT ![i] = Head(inbox[i])]
  /\ targets' = [targets EXCEPT ![i] = IF Running(i) THEN Subscribers(i) ELSE {}]
  /\ UNCHANGED <<hub, subCount, redisSub, conn, closed, pub, got, faults>>

ConsumeSend(i) ==
  /\ remote[i] # Nothing
  /\ Send(i, remote[i])
  /\ UNCHANGED <<hub, fanout, conn, closed, pub, remote, faults>>

ConsumeDone(i) ==
  /\ remote[i] # Nothing /\ targets[i] = {}
  /\ remote' = [remote EXCEPT ![i] = Nothing]
  /\ UNCHANGED <<hub, fanout, conn, closed, pub, targets, got, faults>>

-----------------------------------------------------------------------------
(* Stop: the Redis subscriptions, the flag, then the local subscribers.    *)

StopFanout(i) ==
  /\ i \in MayStop /\ stopped[i] = "no"
  /\ subCount' = [subCount EXCEPT ![i] = 0]
  /\ redisSub' = [redisSub EXCEPT ![i] = FALSE]
  /\ stopped' = [stopped EXCEPT ![i] = "fanout"]
  /\ UNCHANGED <<subs, inbox, conn, closed, calls, got, faults>>

StopFlag(i) ==
  /\ stopped[i] = "fanout"
  /\ stopped' = [stopped EXCEPT ![i] = "flag"]
  /\ UNCHANGED <<subs, fanout, conn, closed, calls, got, faults>>

StopLocal(i) ==
  /\ stopped[i] = "flag"
  /\ closed' = closed \cup Subscribers(i)
  /\ subs' = [subs EXCEPT ![i] = [x \in Ids |-> Nothing]]
  /\ stopped' = [stopped EXCEPT ![i] = "done"]
  /\ UNCHANGED <<fanout, conn, calls, got, faults>>

Next ==
  \/ \E c \in Conns : \/ SubscribeCheck(c) \/ SubscribeLocal(c)
                      \/ \E ok \in BOOLEAN : SubscribeFanout(c, ok)
                      \/ UnsubscribeLocal(c) \/ UnsubscribeFanout(c)
  \/ \E m \in Msgs : \/ PublishLocal(m) \/ PublishSend(m)
                     \/ \E ok \in BOOLEAN : PublishRedis(m, ok)
  \/ \E i \in Instances : \/ ConsumeRedis(i) \/ ConsumeSend(i) \/ ConsumeDone(i)
                          \/ StopFanout(i) \/ StopFlag(i) \/ StopLocal(i)

Spec == Init /\ [][Next]_vars

-----------------------------------------------------------------------------
\* While a connection is subscribed, and no Redis call has failed and no Stop
\* has begun, its instance is subscribed in Redis: no interleaving of the other
\* connections' Subscribe and Unsubscribe cuts it off from the fleet.
FanoutWhileSubscribed ==
  \A c \in Conns :
    conn[c] = "on" /\ faults = 0 /\ stopped[Home[c]] = "no" => redisSub[Home[c]]

=============================================================================
