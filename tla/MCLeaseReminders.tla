-------------------------- MODULE MCLeaseReminders --------------------------
(* LeaseReminders and its history on small instances.                      *)
EXTENDS LeaseRemindersHistory, TLC

CONSTANTS t1, t2, l1, l2, s1, s2

\* One tenant owns both leases, or t2 owns l2.
OneTenant  == [l \in Leases |-> t1]
TwoTenants == [l \in Leases |-> IF l = l2 THEN t2 ELSE t1]

\* Two due days and the dates they fall on.
SmallDueDays  == {"early", "late"}
SmallDueDates == [early |-> {1, 4, 7}, late |-> {2, 5, 8}]

\* A lease, the same with the other due day, and a request whose dates the
\* editor refuses.
LongTerms  == {[start |-> 0, end |-> 4, due |-> "early"],
               [start |-> 0, end |-> 4, due |-> "late"],
               [start |-> 3, end |-> 2, due |-> "early"]}

\* A lease that starts and ends on the due date 2; one that starts
\* after it.
ShortTerms == {[start |-> 2, end |-> 2, due |-> "late"],
               [start |-> 3, end |-> 4, due |-> "late"]}

=============================================================================
