--------------------------- MODULE MCEmailDelivery ---------------------------
(* EmailDelivery on small instances.                                       *)
EXTENDS EmailDelivery, TLC

CONSTANTS t1, t2, n1, n2, c1, c2, w1, w2

\* One tenant owns everything, or t2 owns n2 and c2.
OneTenant  == [x \in Notifications \cup Contacts |-> t1]
TwoTenants == [x \in Notifications \cup Contacts |->
                  IF x \in {n2, c2} THEN t2 ELSE t1]

=============================================================================
