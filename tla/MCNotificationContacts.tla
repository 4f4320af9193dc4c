------------------------ MODULE MCNotificationContacts ------------------------
(* NotificationContacts and its history on small instances.                *)
EXTENDS NotificationContactsHistory, TLC

CONSTANTS t1, t2, c1, c2, plain, blanks, r1, r2

\* One address, plain and between blanks.
TwoSpellings == [x \in Spellings |-> plain]

\* t1 asks for everything; t2 for what needs the identifier of a contact, which
\* may be one of t1's.  Suppressions of either kind come, bounces are removed.
SmallInputs ==
    {o \in Operations :
        /\ o.kind = "remove" => o.reason = "bounce"
        /\ \/ o.tenant = t1 /\ (o.kind = "configure" => o.email = plain)
           \/ o.tenant = t2 /\ o.kind = "update" /\ ~o.enabled
           \/ o.tenant = t2 /\ o.kind = "remove"}

\* Requests and contacts are interchangeable.
Symmetric == Permutations(Requests) \cup Permutations(ContactIds)

=============================================================================
