---------------------------- MODULE CronSchedule ----------------------------
(***************************************************************************)
(* What a cron expression means: parseSchedule turns the five fields of an *)
(* expression into lists of values, matches compares a second with them.   *)
(*                                                                         *)
(* Code: platform/scheduler/scheduler.go, parseSchedule to match.          *)
(*                                                                         *)
(* A field is "*" or a sequence of parts; a part is what is left of the    *)
(* text between two commas: its kind, its numbers and its step.  An        *)
(* expression is five fields or an @every duration in milliseconds.  The   *)
(* calendar has constant lengths, so that a model can be small.            *)
(***************************************************************************)
EXTENDS Integers, Sequences

CONSTANTS Exprs,     \* the expressions tried
          MaxTime,   \* bound on the time, in seconds
          SecondMs,  \* milliseconds in a second
          Seconds, Minutes, Hours, Days, Months, WeekDays  \* lengths of the calendar

VARIABLES expr, schedule, now
vars == <<expr, schedule, now>>

FieldNames == {"minute", "hour", "dom", "month", "dow"}
Lo == [f \in FieldNames |-> IF f \in {"dom", "month"} THEN 1 ELSE 0]
Hi == [f \in FieldNames |->
         CASE f = "minute" -> Minutes - 1
           [] f = "hour" -> Hours - 1
           [] f = "dom" -> Days
           [] f = "month" -> Months
           [] f = "dow" -> WeekDays - 1]

-----------------------------------------------------------------------------
(* parseField.                                                             *)

PartOK(p, lo, hi) ==
  /\ p.step > 0
  /\ p.kind = "range" => p.a >= lo /\ p.b <= hi /\ p.a <= p.b
  /\ p.kind = "value" => p.a >= lo /\ p.a <= hi

RangeLo(p, lo) == IF p.kind = "star" THEN lo ELSE p.a
RangeHi(p, hi) == CASE p.kind = "star" -> hi [] p.kind = "range" -> p.b [] OTHER -> p.a

\* for v := rangeLo; v <= rangeHi; v += step
Stepped(from, to, step) ==
  LET loop[v \in from..(to + step)] == IF v > to THEN {} ELSE {v} \cup loop[v + step]
  IN loop[from]

IsStar(field) == field = <<>>   \* "*" alone

FieldOK(field, lo, hi) == \A i \in DOMAIN field : PartOK(field[i], lo, hi)

\* The empty set is the nil slice, which matches everything.
ParseField(field, lo, hi) ==
  UNION {Stepped(RangeLo(field[i], lo), RangeHi(field[i], hi), field[i].step) : i \in DOMAIN field}

-----------------------------------------------------------------------------
(* parseSchedule and matches.                                              *)

ParseSchedule(e) ==
  IF e.every > 0
  THEN IF e.every < SecondMs THEN [ok |-> FALSE]
       ELSE [ok |-> TRUE, everyDur |-> e.every]
  ELSE IF \A f \in FieldNames : FieldOK(e.fields[f], Lo[f], Hi[f])
       THEN [ok |-> TRUE, everyDur |-> 0,
             values |-> [f \in FieldNames |-> ParseField(e.fields[f], Lo[f], Hi[f])]]
       ELSE [ok |-> FALSE]

DayNumber(t) == t \div (Seconds * Minutes * Hours)
At(t) == [minute |-> (t \div Seconds) % Minutes,
          hour |-> (t \div (Seconds * Minutes)) % Hours,
          dom |-> 1 + (DayNumber(t) % Days),
          month |-> 1 + ((DayNumber(t) \div Days) % Months),
          dow |-> DayNumber(t) % WeekDays]

Match(values, v) == values = {} \/ v \in values

Matches_EverySecond(s, t) ==
  IF s.everyDur > 0 THEN t % (s.everyDur \div SecondMs) = 0
  ELSE \A f \in FieldNames : Match(s.values[f], At(t)[f])

Matches(s, t) ==
  IF s.everyDur > 0 THEN t % (s.everyDur \div SecondMs) = 0
  ELSE (\A f \in FieldNames : Match(s.values[f], At(t)[f])) /\ t % Seconds = 0

-----------------------------------------------------------------------------
Init ==
  /\ expr \in Exprs
  /\ schedule = [ok |-> FALSE]
  /\ now = 0

Add ==
  /\ now = 0 /\ ParseSchedule(expr).ok
  /\ schedule' = ParseSchedule(expr)
  /\ now' = 1
  /\ UNCHANGED expr

Tick ==
  /\ schedule.ok /\ now < MaxTime
  /\ now' = now + 1
  /\ UNCHANGED <<expr, schedule>>

Next == Add \/ Tick
Spec == Init /\ [][Next]_vars

-----------------------------------------------------------------------------

\* The value v is one that the text of the field names.
Names(field, lo, hi, v) ==
  \/ IsStar(field)
  \/ \E i \in DOMAIN field :
       LET p == field[i] IN
       CASE p.kind = "star" -> (v - lo) % p.step = 0
         [] p.kind = "range" -> v \in p.a..p.b /\ (v - p.a) % p.step = 0
         [] p.kind = "value" -> v = p.a

\* At most one of the two day fields is restricted.
OneDayField == \E f \in {"dom", "dow"} : IsStar(expr.fields[f])

\* An expression that restricts at most one of its day fields fires at exactly
\* the seconds it names: at the first second of a minute each of whose fields is
\* named.  With both restricted a standard cron fires on a day that either names;
\* Matches wants both, so of the schedule only this much is true: it never fires
\* at a second the standard reading does not name.
FiresWhenNamed ==
  schedule.ok /\ schedule.everyDur = 0 =>
    LET named(f) == Names(expr.fields[f], Lo[f], Hi[f], At(now)[f])
        inTime == now % Seconds = 0 /\ named("minute") /\ named("hour") /\ named("month")
    IN  /\ Matches(schedule, now) => inTime /\ (named("dom") \/ named("dow"))
        /\ OneDayField => (Matches(schedule, now) <=> inTime /\ named("dom") /\ named("dow"))

=============================================================================
