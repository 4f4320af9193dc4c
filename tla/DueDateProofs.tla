---------------------------- MODULE DueDateProofs ----------------------------
(***************************************************************************)
(* What _next_due_date computes, for every date of the calendar and every  *)
(* due day: proofs of the properties of module DueDate.                    *)
(***************************************************************************)
EXTENDS DueDate, TLAPS

\* A month has 28 to 31 days, December 31.
LEMMA MonthLengths ==
    ASSUME NEW y \in Nat \ {0}, NEW m \in 1..12
    PROVE  /\ MonthLength(y, m) \in 28..31
           /\ m = 12 => MonthLength(y, m) = 31
BY DEF MonthLength

\* The due date of a month is a day of the calendar and of that month: the due
\* day, or the last day if the month has no such day.
LEMMA MonthDueDates ==
    ASSUME NEW y \in Nat \ {0}, NEW m \in 1..12, NEW k \in 1..31
    PROVE  /\ MonthDueDate(y, m, k) \in Calendar
           /\ MonthDueDate(y, m, k).year = y
           /\ MonthDueDate(y, m, k).month = m
           /\ OnDueDay(MonthDueDate(y, m, k), k)
BY MonthLengths DEF MonthDueDate, Date, Calendar, OnDueDay

\* The day after a day of the calendar.
LEMMA Tomorrow ==
    ASSUME NEW x \in Calendar
    PROVE  LET t == PlusDays(x, 1)
           IN  /\ t \in Calendar
               /\ \/ /\ t.year = x.year /\ t.month = x.month
                     /\ t.day = x.day + 1
                  \/ /\ MonthNumber(t) = MonthNumber(x) + 1
                     /\ t.day = 1
                     /\ x.day = MonthLength(x.year, x.month)
<1>1. MonthLength(x.year, x.month) \in 28..31
  BY MonthLengths DEF Calendar
<1>2. CASE x.day + 1 <= MonthLength(x.year, x.month)
  BY <1>1, <1>2 DEF PlusDays, Date, Calendar
<1>3. CASE ~(x.day + 1 <= MonthLength(x.year, x.month))
  <2>1. x.day = MonthLength(x.year, x.month)
    BY <1>1, <1>3 DEF Calendar
  <2>2. CASE x.month < 12
    <3>1. PlusDays(x, 1) = Date(x.year, x.month + 1, 1)
      BY <1>1, <1>3, <2>1, <2>2 DEF PlusDays
    <3>2. x.month + 1 \in 1..12 /\ x.year \in Nat \ {0}
      BY <2>2 DEF Calendar
    <3>3. 1 <= MonthLength(x.year, x.month + 1)
      BY <3>2, MonthLengths
    <3>4. QED
      BY <2>1, <3>1, <3>2, <3>3 DEF Date, Calendar, MonthNumber
  <2>3. CASE ~(x.month < 12)
    <3>1. PlusDays(x, 1) = Date(x.year + 1, 1, 1)
      BY <1>1, <1>3, <2>1, <2>3 DEF PlusDays
    <3>2. x.month = 12 /\ x.year \in Nat \ {0}
      BY <2>3 DEF Calendar
    <3>3. 1 <= MonthLength(x.year + 1, 1)
      BY <3>2, MonthLengths
    <3>4. QED
      BY <2>1, <3>1, <3>2, <3>3 DEF Date, Calendar, MonthNumber
  <2>4. QED
    BY <2>2, <2>3
<1>4. QED
  BY <1>2, <1>3

\* Four days after the 28th it is the next month, in every month.
LEMMA Anchor ==
    ASSUME NEW x \in Calendar
    PROVE  LET a == PlusDays([x EXCEPT !.day = 28], 4)
           IN  /\ a.year \in Nat \ {0}
               /\ a.month \in 1..12
               /\ MonthNumber(a) = MonthNumber(x) + 1
<1> DEFINE z == [x EXCEPT !.day = 28]
<1>1. /\ z.year = x.year /\ z.month = x.month /\ z.day = 28
      /\ x.year \in Nat \ {0} /\ x.month \in 1..12
  BY DEF Calendar
<1>2. MonthLength(z.year, z.month) \in 28..31
  BY <1>1, MonthLengths
<1> HIDE DEF z
<1>3. CASE x.month < 12
  <2>1. /\ PlusDays(z, 4).year = x.year
        /\ PlusDays(z, 4).month = x.month + 1
    BY <1>1, <1>2, <1>3 DEF PlusDays, Date
  <2>2. QED
    BY <1>1, <1>3, <2>1 DEF MonthNumber, z
<1>4. CASE ~(x.month < 12)
  <2>1. /\ PlusDays(z, 4).year = x.year + 1
        /\ PlusDays(z, 4).month = 1
    BY <1>1, <1>2, <1>4 DEF PlusDays, Date
  <2>2. QED
    BY <1>1, <1>4, <2>1 DEF MonthNumber, z
<1>5. QED
  BY <1>3, <1>4

-----------------------------------------------------------------------------

\* _next_due_date: the month's due date if it is not over, else next month's.
LEMMA NextDueDates ==
    ASSUME NEW x \in Calendar, NEW k \in 1..31
    PROVE  /\ NextDueDate(x, k) \in Calendar
           /\ OnDueDay(NextDueDate(x, k), k)
           /\ NextDueDate(x, k) = MonthDueDate(NextDueDate(x, k).year,
                                               NextDueDate(x, k).month, k)
           /\ \/ /\ x.day <= MonthDueDate(x.year, x.month, k).day
                 /\ NextDueDate(x, k) = MonthDueDate(x.year, x.month, k)
              \/ /\ MonthDueDate(x.year, x.month, k).day < x.day
                 /\ MonthNumber(NextDueDate(x, k)) = MonthNumber(x) + 1
<1> DEFINE c == MonthDueDate(x.year, x.month, k)
           a == PlusDays([x EXCEPT !.day = 28], 4)
           e == MonthDueDate(a.year, a.month, k)
<1>1. x.year \in Nat \ {0} /\ x.month \in 1..12 /\ x.day \in Nat
  BY DEF Calendar
<1>2. /\ c \in Calendar /\ c.year = x.year /\ c.month = x.month
      /\ OnDueDay(c, k)
  BY <1>1, MonthDueDates
<1>3. /\ a.year \in Nat \ {0} /\ a.month \in 1..12
      /\ MonthNumber(a) = MonthNumber(x) + 1
  BY Anchor
<1> HIDE DEF a
<1>4. /\ e \in Calendar /\ e.year = a.year /\ e.month = a.month
      /\ OnDueDay(e, k)
  BY <1>3, MonthDueDates
<1>5. NextDueDate(x, k) = IF NotAfter(x, c) THEN c ELSE e
  BY DEF NextDueDate, a
<1> HIDE DEF c, e
<1>6. c.day \in Nat
  BY <1>2 DEF Calendar
<1>7. NotAfter(x, c) <=> x.day <= c.day
  BY <1>1, <1>2, <1>6 DEF NotAfter
<1>8. MonthNumber(e) = MonthNumber(x) + 1
  BY <1>3, <1>4 DEF MonthNumber
<1>9. x.day <= c.day \/ c.day < x.day
  BY <1>1, <1>6
<1>10. CASE NotAfter(x, c)
  BY <1>2, <1>5, <1>7, <1>10 DEF c
<1>11. CASE ~NotAfter(x, c)
  BY <1>4, <1>5, <1>7, <1>8, <1>9, <1>11 DEF c, e
<1>12. QED
  BY <1>10, <1>11

\* Only one month has a given number.
LEMMA MonthNumbers ==
    ASSUME NEW x \in Calendar, NEW z \in Calendar,
           MonthNumber(x) = MonthNumber(z)
    PROVE  x.year = z.year /\ x.month = z.month
<1>1. /\ x.year \in Nat /\ x.month \in 1..12
      /\ z.year \in Nat /\ z.month \in 1..12
  BY DEF Calendar
<1>2. QED
  BY <1>1 DEF MonthNumber

\* Days of the same month are the same if they have the same number.
LEMMA SameDay ==
    ASSUME NEW x \in Calendar, NEW z \in Calendar,
           x.year = z.year, x.month = z.month, x.day = z.day
    PROVE  x = z
BY DEF Calendar

\* The due date in the month of a day is a day of that month.
LEMMA DueDateOfMonth ==
    ASSUME NEW z \in Calendar, NEW k \in 1..31
    PROVE  /\ MonthDueDate(z.year, z.month, k) \in Calendar
           /\ MonthDueDate(z.year, z.month, k).year = z.year
           /\ MonthDueDate(z.year, z.month, k).month = z.month
<1>1. z.year \in Nat \ {0} /\ z.month \in 1..12
  BY DEF Calendar
<1>2. QED
  BY <1>1, MonthDueDates

\* From one day to the next the due date stays, unless it was today: then the
\* new one is that of the next month.
LEMMA DayAfterDay ==
    ASSUME NEW x \in Calendar, NEW k \in 1..31,
           NEW t, t = PlusDays(x, 1),
           NEW n, n = NextDueDate(x, k),
           NEW o, o = NextDueDate(t, k)
    PROVE  IF x = n THEN MonthNumber(o) = MonthNumber(n) + 1 ELSE o = n
<1> DEFINE c == MonthDueDate(x.year, x.month, k)
           d == MonthDueDate(t.year, t.month, k)
<1>1. t \in Calendar
  BY Tomorrow
<1>2. /\ x.year \in Nat \ {0} /\ x.month \in 1..12 /\ x.day \in Nat \ {0}
      /\ x.day <= MonthLength(x.year, x.month)
      /\ t.year \in Nat \ {0} /\ t.month \in 1..12
  BY <1>1 DEF Calendar
<1>3. c \in Calendar /\ c.year = x.year /\ c.month = x.month
  BY DueDateOfMonth
<1>4. d \in Calendar /\ d.year = t.year /\ d.month = t.month
  BY <1>1, DueDateOfMonth
<1>5. /\ n \in Calendar
      /\ n = MonthDueDate(n.year, n.month, k)
      /\ \/ x.day <= c.day /\ n = c
         \/ c.day < x.day /\ MonthNumber(n) = MonthNumber(x) + 1
  BY NextDueDates
<1>6. /\ o \in Calendar
      /\ o = MonthDueDate(o.year, o.month, k)
      /\ \/ t.day <= d.day /\ o = d
         \/ d.day < t.day /\ MonthNumber(o) = MonthNumber(t) + 1
  BY <1>1, NextDueDates
<1>7. MonthNumber(c) = MonthNumber(x) /\ MonthNumber(d) = MonthNumber(t)
  BY <1>3, <1>4 DEF MonthNumber
<1>8. MonthNumber(x) \in Nat
  BY <1>2 DEF MonthNumber
<1>9. MonthNumber(n) = MonthNumber(o) => o = n
  BY <1>5, <1>6, MonthNumbers
<1>10. c.day \in Nat /\ d.day \in Nat \ {0} /\ c.day <= MonthLength(c.year, c.month)
  BY <1>3, <1>4 DEF Calendar
<1>11. x = c <=> x.day = c.day
  BY <1>3, SameDay
<1>12. CASE t.year = x.year /\ t.month = x.month /\ t.day = x.day + 1
  <2>1. d = c /\ MonthNumber(t) = MonthNumber(x)
    BY <1>12 DEF MonthNumber
  <2>2. CASE n = c /\ x.day <= c.day
    <3>1. CASE x.day = c.day
      BY <1>2, <1>5, <1>6, <1>7, <1>8, <1>10, <1>11, <1>12, <2>1, <2>2, <3>1
    <3>2. CASE x.day < c.day
      BY <1>2, <1>6, <1>10, <1>11, <1>12, <2>1, <2>2, <3>2
    <3>3. QED
      BY <1>2, <1>10, <2>2, <3>1, <3>2
  <2>3. CASE c.day < x.day /\ MonthNumber(n) = MonthNumber(x) + 1
    BY <1>2, <1>6, <1>8, <1>9, <1>10, <1>12, <2>1, <2>3
  <2>4. QED
    BY <1>5, <2>2, <2>3
<1>13. CASE /\ MonthNumber(t) = MonthNumber(x) + 1 /\ t.day = 1
            /\ x.day = MonthLength(x.year, x.month)
  <2>1. o = d
    BY <1>6, <1>10, <1>13
  <2>2. CASE n = c /\ x.day <= c.day
    BY <1>2, <1>3, <1>7, <1>10, <1>11, <1>13, <2>1, <2>2
  <2>3. CASE c.day < x.day /\ MonthNumber(n) = MonthNumber(x) + 1
    BY <1>7, <1>8, <1>9, <1>13, <2>1, <2>3
  <2>4. QED
    BY <1>5, <2>2, <2>3
<1>14. QED
  BY <1>12, <1>13, Tomorrow

-----------------------------------------------------------------------------
(* The specification: due is what _next_due_date makes of the date         *)

Inv == /\ asOf \in Calendar
       /\ dueDay \in 1..31
       /\ due = NextDueDate(asOf, dueDay)

LEMMA InvInit == Init => Inv
BY DEF Init, Inv

LEMMA InvStep == Inv /\ [Next]_vars => Inv'
<1> SUFFICES ASSUME Inv, [Next]_vars PROVE Inv'
  OBVIOUS
<1>1. CASE ScanNextDay
  <2>1. PlusDays(asOf, 1) \in Calendar
    BY Tomorrow DEF Inv
  <2>2. QED
    BY <1>1, <2>1 DEF Inv, ScanNextDay
<1>2. CASE UNCHANGED vars
  BY <1>2 DEF Inv, vars
<1>3. QED
  BY <1>1, <1>2 DEF Next

LEMMA InvType == Inv => TypeOK
BY NextDueDates DEF Inv, TypeOK

LEMMA InvRight == Inv => DueDateRight
<1> SUFFICES ASSUME Inv PROVE DueDateRight
  OBVIOUS
<1> DEFINE c == MonthDueDate(asOf.year, asOf.month, dueDay)
<1>1. /\ asOf.year \in Nat \ {0} /\ asOf.month \in 1..12 /\ asOf.day \in Nat
      /\ due.year \in Nat \ {0} /\ due.month \in 1..12 /\ due.day \in Nat
  BY InvType DEF Inv, TypeOK, Calendar
<1>2. asOf.year \in Nat \ {0} /\ asOf.month \in 1..12 /\ dueDay \in 1..31
  BY <1>1 DEF Inv
<1>3. c.year = asOf.year /\ c.month = asOf.month
  BY <1>2, MonthDueDates
<1>4. /\ OnDueDay(due, dueDay)
      /\ \/ asOf.day <= c.day /\ due = c
         \/ c.day < asOf.day /\ MonthNumber(due) = MonthNumber(asOf) + 1
  BY NextDueDates DEF Inv
<1>5. CASE asOf.day <= c.day /\ due = c
  BY <1>1, <1>3, <1>4, <1>5 DEF DueDateRight, NotAfter, MonthNumber
<1>6. CASE MonthNumber(due) = MonthNumber(asOf) + 1
  BY <1>1, <1>4, <1>6 DEF DueDateRight, NotAfter, MonthNumber
<1>7. QED
  BY <1>4, <1>5, <1>6

LEMMA InvNotSkipped ==
    Inv /\ [Next]_vars =>
        [IF asOf = due THEN MonthNumber(due') = MonthNumber(due) + 1
                       ELSE due' = due]_vars
BY DayAfterDay DEF Inv, Next, ScanNextDay, vars

\* Every date and due date is a day of the calendar, from any day on and for
\* as many days as the scan is run.
THEOREM TypeCorrect == Spec => []TypeOK
<1>1. Inv => TypeOK
  BY InvType
<1>2. QED
  BY <1>1, InvInit, InvStep, PTL DEF Spec

\* The due date a scan finds is the right day of this month or the next, and
\* not over.
THEOREM DueDatesRight == Spec => []DueDateRight
<1>1. Inv => DueDateRight
  BY InvRight
<1>2. QED
  BY <1>1, InvInit, InvStep, PTL DEF Spec

\* Daily scans go through the due dates of a lease month by month and skip
\* none, on the whole calendar.
THEOREM NothingSkipped == Spec => NoDueDateSkipped
<1>1. Inv /\ [Next]_vars =>
         [IF asOf = due THEN MonthNumber(due') = MonthNumber(due) + 1
                        ELSE due' = due]_vars
  BY InvNotSkipped
<1>2. QED
  BY <1>1, InvInit, InvStep, PTL DEF Spec, NoDueDateSkipped

=============================================================================
