------------------------------- MODULE DueDate -------------------------------
(***************************************************************************)
(* The due date a reminder scan looks for (_next_due_date), on the real    *)
(* calendar, as the scan is run day after day.                             *)
(***************************************************************************)
EXTENDS Naturals

CONSTANT Years   \* bound: the years whose days are explored

ASSUME YearsAssumption == Years \subseteq Nat \ {0}

VARIABLES
    asOf,    \* the date the scan is run for
    dueDay,  \* rent_due_day_of_month
    due      \* the due date the scan finds

vars == <<asOf, dueDay, due>>

-----------------------------------------------------------------------------
(* The calendar: datetime.date and calendar.monthrange                     *)

Date(y, m, d) == [year |-> y, month |-> m, day |-> d]

IsLeap(y) == y % 4 = 0 /\ (y % 100 # 0 \/ y % 400 = 0)

MonthLength(y, m) ==
    CASE m \in {4, 6, 9, 11}     -> 30
      [] m = 2 /\ IsLeap(y)      -> 29
      [] m = 2 /\ ~IsLeap(y)     -> 28
      [] OTHER                   -> 31

Calendar ==
    {x \in [year : Nat \ {0}, month : 1..12, day : 1..31] :
        x.day <= MonthLength(x.year, x.month)}

\* a <= b
NotAfter(a, b) ==
    \/ a.year < b.year
    \/ a.year = b.year /\ a.month < b.month
    \/ a.year = b.year /\ a.month = b.month /\ a.day <= b.day

\* MonthNumber counts months from the beginning of the calendar.
MonthNumber(x) == 12 * x.year + x.month

\* x + timedelta(days=n), for an n of at most 28: no month is jumped over.
PlusDays(x, n) ==
    LET length == MonthLength(x.year, x.month)
        day    == x.day + n
    IN  IF day <= length THEN Date(x.year, x.month, day)
        ELSE IF x.month < 12 THEN Date(x.year, x.month + 1, day - length)
        ELSE Date(x.year + 1, 1, day - length)

-----------------------------------------------------------------------------
(* The due date                                                            *)

\* Fault: the due day is not clamped to the month.
MonthDueDateUnclamped(y, m, k) == Date(y, m, k)

MonthDueDate(y, m, k) ==
    LET last == MonthLength(y, m)
    IN  Date(y, m, IF k <= last THEN k ELSE last)

\* Fault: four days are added to the date itself.
NextDueDateUnanchored(x, k) ==
    LET current == MonthDueDate(x.year, x.month, k)
        anchor  == PlusDays(x, 4)
    IN  IF NotAfter(x, current) THEN current
        ELSE MonthDueDate(anchor.year, anchor.month, k)

\* Fault: a due date of today counts as over.
NextDueDateStrict(x, k) ==
    LET current == MonthDueDate(x.year, x.month, k)
        anchor  == PlusDays([x EXCEPT !.day = 28], 4)
    IN  IF NotAfter(current, x) THEN MonthDueDate(anchor.year, anchor.month, k)
        ELSE current

\* This month's due date, or next month's if it is over.  Four days after the
\* 28th it is always next month.
NextDueDate(x, k) ==
    LET current == MonthDueDate(x.year, x.month, k)
        anchor  == PlusDays([x EXCEPT !.day = 28], 4)
    IN  IF NotAfter(x, current) THEN current
        ELSE MonthDueDate(anchor.year, anchor.month, k)

-----------------------------------------------------------------------------
(* One scan a day                                                          *)

Init ==
    /\ asOf \in Calendar \cap
         {Date(y, m, d) : y \in Years, m \in 1..12, d \in 1..31}
    /\ dueDay \in 1..31
    /\ due = NextDueDate(asOf, dueDay)

ScanNextDay ==
    /\ asOf.year \in Years
    /\ asOf' = PlusDays(asOf, 1)
    /\ due' = NextDueDate(asOf', dueDay)
    /\ UNCHANGED dueDay

Next == ScanNextDay

Spec == Init /\ [][Next]_vars

-----------------------------------------------------------------------------
(* Properties                                                              *)

\* The date and the due date are days of the calendar.
TypeOK ==
    /\ asOf \in Calendar
    /\ dueDay \in 1..31
    /\ due \in Calendar

OnDueDay(x, k) ==
    \/ x.day = k
    \/ x.day < k /\ x.day = MonthLength(x.year, x.month)

\* The due date is the day the lease names, or the last day of a month that
\* has no such day; it is not over, and no further than the next month.
DueDateRight ==
    /\ OnDueDay(due, dueDay)
    /\ NotAfter(asOf, due)
    /\ MonthNumber(due) <= MonthNumber(asOf) + 1

\* A scan moves on to another due date only when the one it found was today,
\* and then to that of the very next month: no due date is skipped, and none
\* is announced and then dropped.
NoDueDateSkipped ==
    [][IF asOf = due THEN MonthNumber(due') = MonthNumber(due) + 1
                     ELSE due' = due]_vars

=============================================================================
