----------------------------- MODULE Timestamps -----------------------------
(***************************************************************************)
(* The createdAt and lastUpdatedAt of a task (tasks.rs): a time in seconds *)
(* to a date and a time of day, and the calendar it is held against.       *)
(***************************************************************************)
LOCAL INSTANCE Integers
LOCAL INSTANCE Sequences

SecondsPerDay == 86400

\* Days since 1970-01-01 to year, month and day, counting years from March; an
\* era is 400 years.  Every operand is non-negative, so "/" rounds down.
CivilFromDays(days) ==
    LET z   == days + 719468
        era == z \div 146097
        doe == z - era * 146097
        yoe == (doe - doe \div 1460 + doe \div 36524 - doe \div 146096) \div 365
        doy == doe - (365 * yoe + yoe \div 4 - yoe \div 100)
        mp  == (5 * doy + 2) \div 153
        d   == doy - (153 * mp + 2) \div 5 + 1
        m   == IF mp < 10 THEN mp + 3 ELSE mp - 9
        y   == yoe + era * 400
    IN  <<IF m <= 2 THEN y + 1 ELSE y, m, d>>

\* iso8601: a time before the epoch is taken for the epoch.
Iso8601(time) ==
    LET total == IF time < 0 THEN 0 ELSE time
        rest  == total % SecondsPerDay
    IN  CivilFromDays(total \div SecondsPerDay)
        \o <<rest \div 3600, (rest % 3600) \div 60, rest % 60>>

-----------------------------------------------------------------------------
(* The Gregorian calendar, year after year *)

LeapYear(y) == (y % 4 = 0 /\ y % 100 # 0) \/ y % 400 = 0

MonthLength(y, m) ==
    CASE m = 2               -> IF LeapYear(y) THEN 29 ELSE 28
      [] m \in {4, 6, 9, 11} -> 30
      [] OTHER               -> 31

DaysBeforeYear[y \in Nat] ==
    IF y <= 1970 THEN 0 ELSE DaysBeforeYear[y - 1] + IF LeapYear(y - 1) THEN 366 ELSE 365

DaysBeforeMonth(y) ==
    LET before[m \in 1..12] == IF m = 1 THEN 0 ELSE before[m - 1] + MonthLength(y, m - 1)
    IN  before

\* A whole cycle of 400 years from the epoch: the algorithm is periodic in it.
Years == 1970..2369

\* civil_from_days gives every day of the cycle its date, and iso8601 each
\* boundary of such a day its time.
ASSUME CalendarAgrees ==
    \A y \in Years :
        LET start  == DaysBeforeYear[y]
            before == DaysBeforeMonth(y)
        IN  \A m \in 1..12 :
              \A d \in 1..MonthLength(y, m) :
                 CivilFromDays(start + before[m] + d - 1) = <<y, m, d>>

ASSUME ClockAgrees ==
    \A h \in 0..23, m \in 0..59, s \in {0, 59} :
        Iso8601(SecondsPerDay + 3600 * h + 60 * m + s) = <<1970, 1, 2, h, m, s>>
=============================================================================
