-------------------------- MODULE BufferedSubscriber ------------------------
(***************************************************************************)
(* The bounded subscriber of the realtime hub: concurrent Sends drop the   *)
(* oldest message of a full buffer, one reader blocks in Recv on a notify  *)
(* channel of capacity one, and Close ends both.                           *)
(*                                                                         *)
(* Code: platform/realtime/realtime.go (BufferedSubscriber, and the        *)
(* counting of localHub.Publish).  Messages are numbered in the order in   *)
(* which their Sends take the mutex.                                       *)
(***************************************************************************)
EXTENDS Naturals, Sequences

CONSTANTS Cap, MaxSends

VARIABLES buf, closed,
          token,               \* the notify channel holds its one element
          reader,              \* where Recv is
          sent, received,      \* messages sent; what Recv has returned
          delivered, dropped   \* the hub's counters

state == <<buf, closed, token, reader>>
vars == <<state, sent, received, delivered, dropped>>

\* Buffer within its capacity, reader at one of its steps, counters natural.
TypeOK ==
  /\ buf \in Seq(1..MaxSends) /\ Len(buf) <= Cap
  /\ closed \in BOOLEAN /\ token \in BOOLEAN
  /\ reader \in {"look", "wait", "end"}
  /\ sent \in 0..MaxSends /\ received \in Seq(1..MaxSends)
  /\ delivered \in Nat /\ dropped \in Nat

Init ==
  /\ buf = <<>> /\ closed = FALSE /\ token = FALSE /\ reader = "look"
  /\ sent = 0 /\ received = <<>>
  /\ delivered = 0 /\ dropped = 0

\* The oldest message makes room for the new one.
Pushed(m) == Append(IF Len(buf) >= Cap THEN Tail(buf) ELSE buf, m)

Send_NoNotify ==
  /\ sent < MaxSends
  /\ sent' = sent + 1
  /\ IF closed
       THEN /\ dropped' = dropped + 1
            /\ UNCHANGED <<buf, token, delivered>>
       ELSE /\ buf' = Pushed(sent + 1)
            /\ token' = (token \/ buf # <<>>)
            /\ delivered' = delivered + 1
            /\ UNCHANGED dropped
  /\ UNCHANGED <<closed, reader, received>>

\* Publish calls Send: an error is counted as dropped, everything else as
\* delivered.
Send ==
  /\ sent < MaxSends
  /\ sent' = sent + 1
  /\ IF closed
       THEN /\ dropped' = dropped + 1
            /\ UNCHANGED <<buf, token, delivered>>
       ELSE /\ buf' = Pushed(sent + 1)
            /\ token' = TRUE
            /\ delivered' = delivered + 1
            /\ UNCHANGED dropped
  /\ UNCHANGED <<closed, reader, received>>

\* Recv under the mutex: a message is returned (and Recv called again), or the
\* reader ends, or it goes to wait.
RecvLook ==
  /\ reader = "look"
  /\ IF buf # <<>>
       THEN /\ received' = Append(received, Head(buf))
            /\ buf' = Tail(buf)
            /\ UNCHANGED reader
       ELSE /\ reader' = IF closed THEN "end" ELSE "wait"
            /\ UNCHANGED <<received, buf>>
  /\ UNCHANGED <<closed, token, sent, delivered, dropped>>

\* The notify channel has its element, or is closed.
RecvWake ==
  /\ reader = "wait" /\ (token \/ closed)
  /\ token' = FALSE
  /\ reader' = "look"
  /\ UNCHANGED <<buf, closed, sent, received, delivered, dropped>>

Close ==
  /\ ~closed
  /\ closed' = TRUE
  /\ UNCHANGED <<buf, token, reader, sent, received, delivered, dropped>>

Next == Send \/ RecvLook \/ RecvWake \/ Close

Spec == Init /\ [][Next]_vars

\* The reader's goroutine is scheduled.
Fairness == WF_vars(RecvLook \/ RecvWake)

-----------------------------------------------------------------------------

\* The reader never sleeps on a message, the one-element notify channel losing
\* no wake-up, and what it has read and still has to read is in the order of the
\* Sends, the drops of a full buffer leaving gaps and no other disorder.
NoLostWakeup ==
  /\ reader = "wait" /\ buf # <<>> => token \/ closed
  /\ LET all == received \o buf
     IN  \A i, j \in 1..Len(all) : i < j => all[i] < all[j]

=============================================================================
