------------------------------ MODULE Calendar -------------------------------
(***************************************************************************)
(* The calendar arithmetic of parseIso8601 (src/time_service.cpp), which   *)
(* counts days in years that begin on the first of March.                  *)
(***************************************************************************)
EXTENDS Integers

\* yearFromMarch: January and February belong to the year before.
YearFromMarch(y, m) == IF m <= 2 THEN y - 1 ELSE y

MonthFromMarch(m) == IF m <= 2 THEN m + 9 ELSE m - 3

\* dayOfYear, from the first of March: five months have 153 days.
DayOfYear(m, d) == ((153 * MonthFromMarch(m) + 2) \div 5) + d - 1

\* The division rounds down as well for negative years, which the code
\* provides for and no modem sends.
Era(y)       == y \div 400
YearOfEra(y) == y - 400 * Era(y)

DayOfEra(y, m, d) ==
    365 * YearOfEra(y) + (YearOfEra(y) \div 4) - (YearOfEra(y) \div 100) + DayOfYear(m, d)

\* daysSinceEpoch: the days from 1970-01-01 to year y, month m, day d.
DaysSinceEpoch(y, m, d) ==
    146097 * Era(YearFromMarch(y, m)) + DayOfEra(YearFromMarch(y, m), m, d) - 719468

-----------------------------------------------------------------------------
(* The calendar itself.                                                    *)

LeapYear(y) == y % 4 = 0 /\ (y % 100 # 0 \/ y % 400 = 0)

LengthOfMonth(y, m) ==
    IF m = 2 THEN (IF LeapYear(y) THEN 29 ELSE 28)
    ELSE IF m \in {4, 6, 9, 11} THEN 30 ELSE 31
=============================================================================
