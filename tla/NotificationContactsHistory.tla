--------------------- MODULE NotificationContactsHistory ---------------------
(***************************************************************************)
(* NotificationContacts with a history variable: the states the contacts   *)
(* have been in since a request started.                                   *)
(***************************************************************************)
EXTENDS NotificationContacts

VARIABLE
    seen  \* for each request, the states of the contacts while it has run

hvars == <<vars, seen>>

ContactsNow == {c \in ContactIds : contact[c] # NoRow}

\* What is true of the contacts now.
EnabledNow == {<<c, contact[c].enabled>> : c \in ContactsNow}
ReasonsNow == {<<c, ReasonsOf(c)>> : c \in ContactsNow}

Nothing == [enabled |-> {}, reasons |-> {}]

HInit == Init /\ seen = [r \in Requests |-> Nothing]

\* The states since a request started are kept until its answer is given.
HNext ==
    /\ Next
    /\ seen' = [r \in Requests |->
                   IF pc[r] = "idle" /\ pc'[r] = "idle" THEN Nothing
                   ELSE [enabled |-> seen[r].enabled \cup EnabledNow',
                         reasons |-> seen[r].reasons \cup ReasonsNow']]

HSpec == HInit /\ [][HNext]_hvars

-----------------------------------------------------------------------------
(* Properties                                                              *)

\* An answer is put together from several transactions and may show a
\* combination that never was, but nothing in it is older than the request:
\* each part was true at a moment while it ran.
AnswerPartsTrue ==
    \A x \in answer.items :
        /\ <<x.contact, x.enabled>> \in seen[answer.by].enabled
        /\ <<x.contact, x.reasons>> \in seen[answer.by].reasons

\* Whatever the others do between its three transactions: when a request to
\* create a contact is answered, be it that it is there, enabled again or there
\* already, a contact with the address was enabled at a moment while it ran.
CreateEndsEnabled ==
    (answer.to.kind \in {"create", "configure"} /\ answer.status # "lost") =>
        \E c \in WithAddress(answer.to.tenant, NormalOf[answer.to.email]) :
            <<c, TRUE>> \in seen[answer.by].enabled

=============================================================================
