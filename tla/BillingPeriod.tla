--------------------------- MODULE BillingPeriod ---------------------------
(***************************************************************************)
(* The billing periods of one account (subscription_period and             *)
(* ensure_usage_period in src/src/daily_agent/services.py): monthly        *)
(* anniversaries of the subscription's anchor day, clamped to the length   *)
(* of the month, with one row of money per period.                         *)
(*                                                                         *)
(* Months are numbered without end and repeat the lengths of MonthDays; a  *)
(* date is a month and a day of it.  Requests read the clock, look for a   *)
(* row that still runs and insert one if they find none, so a midnight or  *)
(* another request may come between the look and the insert.               *)
(***************************************************************************)
EXTENDS Integers, Sequences, FiniteSets

CONSTANTS
  MonthDays,  \* lengths of the months, in order
  Anchors,    \* the days subscriptions may be anchored to
  FirstMonth, \* the month the behaviour starts in
  LastMonth,  \* bound: the month it ends in
  Chargers    \* threads that reserve budget

LongestMonth == 31
Day == 1 .. LongestMonth

ASSUME BillingPeriodAssumption ==
  /\ MonthDays \in Seq(28 .. LongestMonth) /\ MonthDays # <<>>
  /\ Anchors \subseteq Day
  /\ FirstMonth \in Int /\ LastMonth \in Int

VARIABLES
  anchor,  \* period_anchor's day
  today,   \* the date
  periods, \* the account's usage_periods rows
  charger  \* thread -> the date it read, when it is about to insert a row

periodVars == <<anchor, today, periods, charger>>

\* A row's key is the date its period starts, or the name of a calendar month for
\* the rows that a migration left (d0e1f3a5b6c7).
Date == [month : Int, day : Day]
Period == [key : Date \cup [calendar : Int], reset : Date]
NotInserting == [calendar |-> FirstMonth]

Lesser(x, y) == IF x < y THEN x ELSE y
Length(m) == MonthDays[(m % Len(MonthDays)) + 1]
Before(d, e) == d.month < e.month \/ (d.month = e.month /\ d.day < e.day)

-----------------------------------------------------------------------------
\* (mutant of StartOf: no clamping, the day carries into the next month)
StartUnclamped(m, a) ==
  IF a <= Length(m) THEN [month |-> m, day |-> a] ELSE [month |-> m + 1, day |-> a - Length(m)]

\* start_of: the anchor's day in a month, clamped to its last.
StartOf(m, a) == [month |-> m, day |-> Lesser(a, Length(m))]

\* subscription_period: the last anniversary that is not after the date ...
StartFor(a, d) ==
  IF Before(d, StartOf(d.month, a)) THEN StartOf(d.month - 1, a) ELSE StartOf(d.month, a)

\* ... and the next one.
ResetFor(a, d) == StartOf(StartFor(a, d).month + 1, a)

Tomorrow(d) ==
  IF d.day < Length(d.month) THEN [d EXCEPT !.day = @ + 1]
  ELSE [month |-> d.month + 1, day |-> 1]

-----------------------------------------------------------------------------
PeriodInit ==
  /\ anchor \in Anchors
  /\ today = [month |-> FirstMonth, day |-> 1]
  /\ periods \in {{}, {[key |-> [calendar |-> FirstMonth],
                        reset |-> [month |-> FirstMonth + 1, day |-> 1]]}}
  /\ charger = [c \in Chargers |-> NotInserting]

\* The rows that have not reset by a date.
Running(d) == {p \in periods : Before(d, p.reset)}

\* ensure_usage_period: with no row that runs, one is to be inserted for the date
\* that was read.
LookForPeriod(c) ==
  /\ charger[c] = NotInserting /\ Running(today) = {}
  /\ charger' = [charger EXCEPT ![c] = today]
  /\ UNCHANGED <<anchor, today, periods>>

\* The insert in a savepoint; if the key is taken nothing is inserted, and the
\* row that ran at the date read is used.
InsertPeriod(c) ==
  LET row == [key |-> StartFor(anchor, charger[c]), reset |-> ResetFor(anchor, charger[c])] IN
  /\ charger[c] # NotInserting
  /\ periods' = IF \E p \in periods : p.key = row.key THEN periods ELSE periods \cup {row}
  /\ charger' = [charger EXCEPT ![c] = NotInserting]
  /\ UNCHANGED <<anchor, today>>

\* A request outlasts one midnight at most.
NextDay ==
  /\ Tomorrow(today).month <= LastMonth
  /\ \A c \in Chargers : charger[c] \in {NotInserting, today}
  /\ today' = Tomorrow(today)
  /\ UNCHANGED <<anchor, periods, charger>>

PeriodNext ==
  \/ \E c \in Chargers : LookForPeriod(c) \/ InsertPeriod(c)
  \/ NextDay

PeriodSpec == PeriodInit /\ [][PeriodNext]_periodVars

-----------------------------------------------------------------------------
PeriodTypeOK ==
  /\ anchor \in Anchors
  /\ today \in Date /\ today.day <= Length(today.month)
  /\ periods \subseteq Period
  /\ charger \in [Chargers -> Date \cup {NotInserting}]

\* The period's money is granted once: never two rows of the account that still
\* run, at a midnight, a clamped anniversary, after a calendar-keyed row or when
\* two requests find none (ensure_usage_period).
OneRunningPeriod == Cardinality(Running(today)) <= 1

\* Periods leave no gap and no overlap: the start changes only on the day the
\* last period resets, and that day is the start of the next.
PeriodsTile ==
  [][\/ StartFor(anchor', today') = StartFor(anchor, today)
     \/ StartFor(anchor', today') = today' /\ today' = ResetFor(anchor, today)]_periodVars
=============================================================================
