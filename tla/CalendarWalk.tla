---------------------------- MODULE CalendarWalk -----------------------------
(***************************************************************************)
(* The reference for Calendar: a walk through the calendar, a day at a     *)
(* time.  The formula of parseIso8601 has to number every day the walk     *)
(* comes to as the walk counts it.  The walk has no end: ServicesProofs    *)
(* proves it right.                                                        *)
(***************************************************************************)
EXTENDS Calendar

VARIABLES year, month, day,   \* the day the walk has come to
          number              \* its number, counted from 1970-01-01

date == <<year, month, day, number>>

FirstDay == year = 1970 /\ month = 1 /\ day = 1 /\ number = 0

NextDay ==
    /\ day < LengthOfMonth(year, month)
    /\ day' = day + 1 /\ number' = number + 1
    /\ UNCHANGED <<year, month>>

NextMonth ==
    /\ day = LengthOfMonth(year, month) /\ month < 12
    /\ day' = 1 /\ month' = month + 1 /\ number' = number + 1
    /\ UNCHANGED year

NewYear ==
    /\ day = LengthOfMonth(year, month) /\ month = 12
    /\ day' = 1 /\ month' = 1 /\ year' = year + 1 /\ number' = number + 1

DayByDay == NextDay \/ NextMonth \/ NewYear

Walk == FirstDay /\ [][DayByDay]_date

\* The days of the walk are days of the calendar.
IsADay ==
    /\ year \in Nat /\ year >= 1970
    /\ month \in 1..12
    /\ day \in 1..LengthOfMonth(year, month)
    /\ number \in Int

\* parseIso8601 numbers every day of the calendar right: leap years, century
\* years and the change of year in the middle of its own included.
DaysAreRight == DaysSinceEpoch(year, month, day) = number
=============================================================================
