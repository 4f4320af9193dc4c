----------------------- MODULE EmailDeliveryRefinement -----------------------
(***************************************************************************)
(* EmailDelivery implements DeliveryContract: whatever the invocations     *)
(* hold in memory, and however they overlap and die, from outside only the *)
(* contract's steps are seen.                                              *)
(***************************************************************************)
EXTENDS EmailDelivery

\* The attempts an invocation has made and not recorded.
OpenAttempts ==
    {x \in Workers \X Deliveries : /\ pc[x[1]] \in {"mark_sent", "mark_failed"}
                                   /\ Current(x[1], x[2])}

Contract ==
    INSTANCE DeliveryContract
        WITH Items  <- Deliveries,
             Agents <- Workers,
             Limit  <- MaxAttempts + Cardinality(Workers) - 1,
             row    <- status,
             tries  <- attempts,
             copies <- accepted,
             open   <- OpenAttempts

\* Every behaviour of the worker, the feedback processor and the tenants is
\* one the contract allows: attempts under way count against the limit before
\* they are recorded, an outcome is recorded at most once for an attempt, a row
\* that is sent stays so until SES rejects a copy, and no row is set to sent
\* without a copy.
RefinesContract == Contract!CSpec

=============================================================================
