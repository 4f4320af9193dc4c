----------------------- MODULE MCEmailDeliveryHistory -----------------------
(* EmailDeliveryHistory and the refinement on small instances.            *)
EXTENDS EmailDeliveryHistory, EmailDeliveryRefinement, TLC

CONSTANTS t1, n1, c1, c2, w1, w2

OneTenant  == [x \in Notifications \cup Contacts |-> t1]

=============================================================================
