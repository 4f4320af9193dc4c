------------------------ MODULE EmailDeliveryHistory ------------------------
(***************************************************************************)
(* EmailDelivery with a history variable: for every invocation, the        *)
(* deliveries that have been barred from sending without a break since it  *)
(* started.  What an invocation read may be stale, but never older than    *)
(* the invocation itself: that is what its bars say.                       *)
(***************************************************************************)
EXTENDS EmailDelivery

VARIABLE barred

hvars == <<vars, barred>>

\* Mail for d must not be sent: it was sent, its attempts are used up, or its
\* contact is disabled or suppressed.
Barred(d) ==
    \/ status[d] = "sent"
    \/ attempts[d] >= MaxAttempts
    \/ ~enabled[ContactOf(d)]
    \/ \E r \in Reasons : <<ContactOf(d), r>> \in suppressions

BarredNow == {d \in Deliveries : Barred(d)}

HInit == Init /\ barred = [w \in Workers |-> BarredNow]

\* Of an idle invocation the bars are those of the moment.
HNext ==
    /\ Next
    /\ barred' = [w \in Workers |-> IF pc[w] = "idle"
                                    THEN BarredNow'
                                    ELSE barred[w] \cap BarredNow']

HSpec == HInit /\ [][HNext]_hvars

-----------------------------------------------------------------------------
(* Properties                                                              *)

\* An invocation hands SES no mail that was barred all the time since the
\* invocation started: a contact disabled or suppressed before a run, a row
\* sent before it or given up on before it, stays untouched by that run,
\* whatever overlapping runs, feedback and tenants do meanwhile.
BarsHonoured ==
    [][\A w \in Workers, d \in Deliveries :
          /\ pc[w] = "send" /\ Current(w, d)
          /\ pc'[w] \in {"mark_sent", "mark_failed"}
          => d \notin barred[w]]_hvars

=============================================================================
