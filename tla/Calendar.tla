------------------------------ MODULE Calendar ------------------------------
(***************************************************************************)
(* Local dates (src/src/time.rs): the civil calendar by arithmetic on      *)
(* days, and the offset a time zone is stored with.  The reference is the  *)
(* calendar as a child learns it: the length of every month, and the date  *)
(* after a date.  A time is a day and a second of it, which is how the     *)
(* code divides Unix seconds.                                              *)
(***************************************************************************)
EXTENDS Integers

-----------------------------------------------------------------------------
(* time.rs.                                                                *)

\* civil_from_days: eras of 400 years that begin in March.
Civil(days) ==
    LET z == days + 719468
        era == z \div 146097
        doe == z % 146097
        yoe == (doe - doe \div 1460 + doe \div 36524 - doe \div 146096) \div 365
        doy == doe - (365 * yoe + yoe \div 4 - yoe \div 100)
        mp == (5 * doy + 2) \div 153
        m == IF mp < 10 THEN mp + 3 ELSE mp - 9
    IN  [y |-> yoe + era * 400 + (IF m <= 2 THEN 1 ELSE 0),
         m |-> m,
         d |-> doy - (153 * mp + 2) \div 5 + 1]

\* The offset as tz_field stamps it into a trace: a sign, hours and minutes.
FmtOffset(seconds) ==
    LET a == IF seconds < 0 THEN -seconds ELSE seconds
    IN  [sign |-> IF seconds < 0 THEN -1 ELSE 1, h |-> a \div 3600, m |-> (a % 3600) \div 60]

\* An offset no zone has is malformed, and counts as none.
ParseOffset(o) == IF o.h > 23 \/ o.m > 59 THEN 0 ELSE o.sign * (o.h * 3600 + o.m * 60)

\* What fmt_local writes for second s of day d in a zone with that offset.
Local(d, s, offset) ==
    LET local == s + ParseOffset(FmtOffset(offset))
        sod == local % 86400
    IN  [date |-> Civil(d + local \div 86400),
         hour |-> sod \div 3600, minute |-> (sod % 3600) \div 60]

-----------------------------------------------------------------------------
(* The calendar.                                                           *)

IsLeap(y) == y % 4 = 0 /\ (y % 100 = 0 => y % 400 = 0)

DaysIn(y, m) ==
    CASE m = 2 -> IF IsLeap(y) THEN 29 ELSE 28
      [] m \in {4, 6, 9, 11} -> 30
      [] OTHER -> 31

\* The date after, and the one before, date p.
After(p) ==
    IF p.d < DaysIn(p.y, p.m) THEN [p EXCEPT !.d = @ + 1]
    ELSE IF p.m < 12 THEN [y |-> p.y, m |-> p.m + 1, d |-> 1]
    ELSE [y |-> p.y + 1, m |-> 1, d |-> 1]

Before(p) ==
    IF p.d > 1 THEN [p EXCEPT !.d = @ - 1]
    ELSE IF p.m > 1 THEN [y |-> p.y, m |-> p.m - 1, d |-> DaysIn(p.y, p.m - 1)]
    ELSE [y |-> p.y - 1, m |-> 12, d |-> 31]

\* Day 0.
Epoch == [y |-> 1970, m |-> 1, d |-> 1]

-----------------------------------------------------------------------------
(* Properties.                                                             *)

\* The arithmetic of civil_from_days is right for day n if it is right for the day before:
\* no month is too long, no leap day is missed or added.
CivilIsRight(n) == Civil(n + 1) = After(Civil(n))

\* What a clock shows in a zone, in whole minutes from this day's midnight in UTC.
Shown(sod, offset) ==
    sod \div 60 + (IF offset < 0 THEN -((-offset) \div 60) ELSE offset \div 60)

\* A time of a day, written in the zone of a trace, has the date and the time a clock there
\* shows: those of the day before or after when the offset crosses midnight.
LocalIsRight(day, sod, offset) ==
    LET there == Local(day, sod, offset)
        clock == there.hour * 60 + there.minute
        shown == Shown(sod, offset)
    IN  /\ shown < 0 => there.date = Before(Civil(day)) /\ clock = shown + 1440
        /\ 0 <= shown /\ shown < 1440 => there.date = Civil(day) /\ clock = shown
        /\ shown >= 1440 => there.date = After(Civil(day)) /\ clock = shown - 1440
=============================================================================
