------------------------------ MODULE AIGateway -----------------------------
(***************************************************************************)
(* One call of the AI gateway client (platform/aigateway): the retry loop  *)
(* of do, which every JSON and multipart method goes through, and the      *)
(* goroutine of ChatCompletionStream with its two channels.  The gateway   *)
(* and the HTTP client are external: an attempt is answered with a status  *)
(* class or a transport error, and a stream's body is a run of lines that  *)
(* ends well or not.                                                       *)
(***************************************************************************)
EXTENDS Integers, Sequences

CONSTANTS Configured,     \* the values of Config.MaxRetries to try
          DefaultRetries, \* defaultMaxRetries
          ChunkCap,       \* the capacity of the chunks channel (64)
          MaxLines        \* bound on the lines and choices of a stream

VARIABLES
  retries,  \* Config.MaxRetries as given to NewClient
  based,    \* IsConfigured: the client has a base URL
  op,       \* "json" or "stream"
  ctx,      \* "live" or "done"
  pc,       \* where the call is
  answers,  \* what the requests sent so far were answered with
  lines,    \* lines read and choices sent so far
  buffered, \* chunks in the channel
  taken,    \* chunks the consumer has received
  errs,     \* "empty", or the error in the errs channel
  closed,   \* channels closed so far
  outcome,  \* what the method returns or the goroutine ends with
  observed  \* the outcomes reported to the observer, in order

vars == <<retries, based, op, ctx, pc, answers, lines, buffered, taken, errs, closed, outcome, observed>>

Transient == {"429", "5xx"}
Terminal == {"401", "402", "4xx"}
Outcomes == {"none", "ok", "transport", "cancelled", "read", "decode", "not configured"} \cup Transient \cup Terminal

TypeOK ==
  /\ op \in {"json", "stream"} /\ ctx \in {"live", "done"}
  /\ pc \in {"send", "backoff", "read", "chunk", "end", "close", "closing", "over"}
  /\ \A i \in DOMAIN answers : answers[i] \in Outcomes
  /\ buffered \in 0..ChunkCap /\ taken \in 0..MaxLines /\ lines \in 0..MaxLines
  /\ errs \in Outcomes \cup {"empty"} /\ outcome \in Outcomes

Init ==
  /\ retries \in Configured /\ based \in BOOLEAN
  /\ op \in {"json", "stream"}
  /\ ctx = "live" /\ pc = "send"
  /\ answers = <<>> /\ lines = 0 /\ buffered = 0 /\ taken = 0
  /\ errs = "empty" /\ closed = {}
  /\ outcome = "none" /\ observed = <<>>

\* withDefaults: a negative value becomes zero, and zero the default.
withDefaults == IF retries <= 0 THEN DefaultRetries ELSE retries

attempts == Len(answers)

End(o) == pc' = "end" /\ outcome' = o

\* The caller gives up.
Cancel ==
  /\ ctx = "live" /\ pc # "over"
  /\ ctx' = "done"
  /\ UNCHANGED <<retries, based, op, pc, answers, lines, buffered, taken, errs, closed, outcome, observed>>

(***************************************************************************)
(* do: the retry loop.                                                     *)
(***************************************************************************)
MayRetry_OneMore == attempts' <= withDefaults + 1

\* attempt <= maxRetries, for the attempt after this one.
MayRetry == attempts' <= withDefaults

\* Either method without a base URL.
NotConfigured ==
  /\ pc = "send" /\ ~based
  /\ End("not configured")
  /\ UNCHANGED <<retries, based, op, ctx, answers, lines, buffered, taken, errs, closed, observed>>

\* One attempt; with the context done the client answers with an error.  The
\* body of a success may still not decode.
DoAttempt ==
  /\ op = "json" /\ pc = "send" /\ based
  /\ \E answer \in {"ok", "decode", "transport"} \cup Transient \cup Terminal :
       /\ answers' = Append(answers, answer)
       /\ ctx = "done" => answer = "transport"
       /\ IF answer \in Transient \cup {"transport"} /\ MayRetry
            THEN pc' = "backoff" /\ UNCHANGED outcome
            ELSE End(answer)
  /\ UNCHANGED <<retries, based, op, ctx, lines, buffered, taken, errs, closed, observed>>

\* The delay passes, or the context ends first.
Backoff ==
  /\ pc = "backoff"
  /\ \/ pc' = "send" /\ UNCHANGED outcome
     \/ ctx = "done" /\ End("cancelled")
  /\ UNCHANGED <<retries, based, op, ctx, answers, lines, buffered, taken, errs, closed, observed>>

\* The method reports the outcome and returns.
Return ==
  /\ op = "json" /\ pc = "end"
  /\ observed' = Append(observed, outcome)
  /\ pc' = "over"
  /\ UNCHANGED <<retries, based, op, ctx, answers, lines, buffered, taken, errs, closed, outcome>>

(***************************************************************************)
(* ChatCompletionStream: one request, no retry.                            *)
(***************************************************************************)
StreamRequest ==
  /\ op = "stream" /\ pc = "send" /\ based
  /\ \E answer \in {"ok", "transport"} \cup Transient \cup Terminal :
       /\ answers' = Append(answers, answer)
       /\ ctx = "done" => answer = "transport"
       /\ IF answer = "ok" THEN pc' = "read" /\ UNCHANGED outcome ELSE End(answer)
  /\ UNCHANGED <<retries, based, op, ctx, lines, buffered, taken, errs, closed, observed>>

\* A line: content, nothing of use, or the [DONE] mark.
ReadLine ==
  /\ pc = "read" /\ lines < MaxLines
  /\ lines' = lines + 1
  /\ \/ pc' = "chunk" /\ UNCHANGED outcome
     \/ UNCHANGED <<pc, outcome>>
     \/ End("ok")
  /\ UNCHANGED <<retries, based, op, ctx, answers, buffered, taken, errs, closed, observed>>

\* The body ends, or breaks off (a timeout, a cancelled context).
BodyEnds ==
  /\ pc = "read"
  /\ End("ok") \/ End("read")
  /\ UNCHANGED <<retries, based, op, ctx, answers, lines, buffered, taken, errs, closed, observed>>

\* A choice of the chunk that was read; the chunk may have another.
SendChunk ==
  /\ pc = "chunk"
  /\ \/ /\ buffered < ChunkCap /\ buffered' = buffered + 1
        /\ \/ pc' = "read" /\ UNCHANGED lines
           \/ lines < MaxLines /\ lines' = lines + 1 /\ UNCHANGED pc
        /\ UNCHANGED outcome
     \/ ctx = "done" /\ End("cancelled") /\ UNCHANGED <<buffered, lines>>
  /\ UNCHANGED <<retries, based, op, ctx, answers, taken, errs, closed, observed>>

\* The error, if there is one, and the observer.
Report ==
  /\ op = "stream" /\ pc = "end"
  /\ errs' = IF outcome = "ok" THEN errs ELSE outcome
  /\ observed' = IF based THEN Append(observed, outcome) ELSE observed
  /\ pc' = "close"
  /\ UNCHANGED <<retries, based, op, ctx, answers, lines, buffered, taken, closed, outcome>>

FirstClosed_Chunks == "chunks"

\* Deferred calls run last in, first out.
FirstClosed == "errs"

CloseChannels ==
  /\ \/ pc = "close" /\ closed' = {FirstClosed} /\ pc' = "closing"
     \/ pc = "closing" /\ closed' = {"errs", "chunks"} /\ pc' = "over"
  /\ UNCHANGED <<retries, based, op, ctx, answers, lines, buffered, taken, errs, outcome, observed>>

Receive ==
  /\ buffered > 0
  /\ buffered' = buffered - 1
  /\ taken' = taken + 1
  /\ UNCHANGED <<retries, based, op, ctx, pc, answers, lines, errs, closed, outcome, observed>>

Client ==
  \/ NotConfigured \/ DoAttempt \/ Backoff \/ Return
  \/ StreamRequest \/ ReadLine \/ BodyEnds \/ SendChunk \/ Report \/ CloseChannels

Next == Client \/ Cancel \/ Receive

Spec == Init /\ [][Next]_vars

\* The client runs, the HTTP timeout ends every wait on the gateway, and the
\* consumer drains the channel or cancels.
Fairness == WF_vars(Client) /\ WF_vars(Receive \/ Cancel)

LiveSpec == Spec /\ Fairness

(***************************************************************************)
(* Properties.                                                             *)
(***************************************************************************)
Retried == Transient \cup {"transport"}

\* When a consumer finds chunks closed the outcome is settled: errs is closed
\* too and holds the error exactly if the stream failed (so a read of errs never
\* waits), and the observer has been told that outcome once (a stream without a
\* base URL tells it nothing).  A JSON call goes on only after a transient answer
\* or a transport error, and it returns its last answer unless it was cancelled;
\* with a positive MaxRetries it sends at most that many requests more than one,
\* and gives up on a transient answer only when it has sent them all.  (What a
\* MaxRetries of 0 means is left out: withDefaults makes it 3.)
OutcomeSettled ==
  /\ "chunks" \in closed => /\ "errs" \in closed
                            /\ errs = IF outcome = "ok" THEN "empty" ELSE outcome
  /\ pc = "over" => observed = IF op = "json" \/ based THEN <<outcome>> ELSE <<>>
  /\ \A i \in 1..(attempts - 1) : op = "json" /\ answers[i] \in Retried
  /\ retries > 0 => attempts <= retries + 1
  /\ op = "json" /\ based /\ pc = "over" /\ outcome # "cancelled" =>
       /\ outcome = answers[attempts]
       /\ retries > 0 /\ outcome \in Retried => attempts = retries + 1

\* A call ends, however slowly its consumer reads, if it reads or cancels.
CallEnds == <>(pc = "over")
=============================================================================
