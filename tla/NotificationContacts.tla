------------------------- MODULE NotificationContacts -------------------------
(***************************************************************************)
(* The notification contact routes, the internal contact setup, and the    *)
(* feedback processor that suppresses contacts meanwhile.                  *)
(*                                                                         *)
(* A request is answered after several transactions; in between, other     *)
(* requests and the feedback processor change the tables.  Every action is *)
(* one transaction, except that the removal of a suppression is two: its   *)
(* SELECT and its DELETE see the tables at different times.                *)
(***************************************************************************)
EXTENDS Naturals

CONSTANTS
    Tenants,
    ContactIds,      \* contact_id
    Spellings,       \* the addresses requests give, in any spelling
    NormalOf,        \* a spelling without outer blanks, in lower case
    Requests,        \* requests that may be under way at a time
    Inputs,          \* what requests ask for, among Operations
    MaxSuppressions  \* bound on the suppressions feedback creates

Reasons == {"bounce", "complaint"}

ASSUME ContactsAssumption ==
    /\ NormalOf \in [Spellings -> Spellings]
    /\ \A x \in Spellings : NormalOf[NormalOf[x]] = NormalOf[x]
    /\ "none" \notin Tenants
    /\ MaxSuppressions \in Nat

VARIABLES
    contact,       \* the rows of notification_contacts, NoRow: no row
    suppressions,  \* the rows of notification_contact_suppressions
    used,          \* how many suppression_ids have been used
    removed,       \* the suppression_ids audit_logs records as removed
    pc,            \* where a request is
    op,            \* what it asks for
    shown,         \* the contacts it has read, as they were then
    found,         \* the suppression_id it has read, 0: none
    answer         \* what the last step answered to which request, if it did

tables == <<contact, suppressions, used, removed>>
locals == <<pc, op, shown, found>>
vars   == <<tables, locals, answer>>

NoRow == [tenant |-> "none"]
Rows  == [tenant : Tenants, email : Spellings, enabled : BOOLEAN]

Operations ==
    [kind : {"create", "configure"}, tenant : Tenants, email : Spellings]
    \cup [kind : {"update"}, tenant : Tenants, contact : ContactIds,
          enabled : BOOLEAN]
    \cup [kind : {"remove"}, tenant : Tenants, contact : ContactIds,
          reason : Reasons]
    \cup [kind : {"list"}, tenant : Tenants]

ASSUME InputsAssumption == Inputs \subseteq Operations

NoOp     == [kind |-> "none"]
NoAnswer == [by |-> "nobody", to |-> NoOp, status |-> "none", items |-> {}]

FirstStep == [create |-> "insert", configure |-> "insert", update |-> "enable",
              remove |-> "find", list |-> "read"]

-----------------------------------------------------------------------------

\* The contacts a tenant's queries select.
ContactsOf(t) == {c \in ContactIds : contact[c].tenant = t}

\* The contact with an address; the unique index is on lower(email).
WithAddress(t, x) == {c \in ContactsOf(t) : contact[c].email = x}

ReasonsOf(c) == {s.reason : s \in {z \in suppressions : z.contact = c}}

Shown(S) == {[contact |-> c, enabled |-> contact[c].enabled] : c \in S}

Init ==
    /\ contact = [c \in ContactIds |-> NoRow]
    /\ suppressions = {}
    /\ used = 0
    /\ removed = {}
    /\ pc = [r \in Requests |-> "idle"]
    /\ op = [r \in Requests |-> NoOp]
    /\ shown = [r \in Requests |-> {}]
    /\ found = [r \in Requests |-> 0]
    /\ answer = NoAnswer

-----------------------------------------------------------------------------
(* Requests                                                                *)

Start(r, o) ==
    /\ pc[r] = "idle"
    /\ pc' = [pc EXCEPT ![r] = FirstStep[o.kind]]
    /\ op' = [op EXCEPT ![r] = o]
    /\ answer' = NoAnswer
    /\ UNCHANGED <<shown, found, tables>>

GoOn(r, step) ==
    /\ pc' = [pc EXCEPT ![r] = step]
    /\ answer' = NoAnswer
    /\ UNCHANGED op

\* The request ends; nothing it read is kept.
Finish(r, status, items) ==
    /\ pc' = [pc EXCEPT ![r] = "idle"]
    /\ op' = [op EXCEPT ![r] = NoOp]
    /\ shown' = [shown EXCEPT ![r] = {}]
    /\ found' = [found EXCEPT ![r] = 0]
    /\ answer' = [by |-> r, to |-> op[r], status |-> status, items |-> items]

\* Fault: the address is stored as it was spelt.
InsertAsSpelt(r) ==
    /\ pc[r] = "insert"
    /\ WithAddress(op[r].tenant, op[r].email) = {}
    /\ \E c \in ContactIds :
          /\ contact[c] = NoRow
          /\ contact' = [contact EXCEPT ![c] = [tenant |-> op[r].tenant,
                                                email |-> op[r].email,
                                                enabled |-> TRUE]]
          /\ Finish(r, "ok", {[contact |-> c, enabled |-> TRUE, reasons |-> {}]})
    /\ UNCHANGED <<suppressions, used, removed>>

\* create_notification_contact, and no contact has the address.
Insert(r) ==
    /\ pc[r] = "insert"
    /\ WithAddress(op[r].tenant, NormalOf[op[r].email]) = {}
    /\ \E c \in ContactIds :
          /\ contact[c] = NoRow
          /\ contact' = [contact EXCEPT ![c] = [tenant |-> op[r].tenant,
                                                email |-> NormalOf[op[r].email],
                                                enabled |-> TRUE]]
          /\ Finish(r, "ok", {[contact |-> c, enabled |-> TRUE, reasons |-> {}]})
    /\ UNCHANGED <<suppressions, used, removed>>

\* ... and the unique index refuses the row.
InsertRefused(r) ==
    /\ pc[r] = "insert"
    /\ WithAddress(op[r].tenant, NormalOf[op[r].email]) # {}
    /\ GoOn(r, "look")
    /\ UNCHANGED <<shown, found, tables>>

\* Fault: a contact the listing shows is refused without a look at its state.
LookUpAnyState(r) ==
    /\ pc[r] = "look"
    /\ Finish(r, IF op[r].kind = "configure" THEN "ok" ELSE "conflict", {})
    /\ UNCHANGED tables

\* The contacts are listed to find the one with the address.  If it is enabled,
\* the setup is content and the route answers 400.
LookUp(r) ==
    /\ pc[r] = "look"
    /\ \E c \in WithAddress(op[r].tenant, NormalOf[op[r].email]) :
          IF contact[c].enabled
          THEN Finish(r, IF op[r].kind = "configure" THEN "ok" ELSE "conflict",
                      {})
          ELSE /\ GoOn(r, "enable")
               /\ shown' = [shown EXCEPT ![r] = Shown({c})]
               /\ UNCHANGED found
    /\ UNCHANGED tables

\* The contact a set_notification_contact_enabled is about, and the value.
Target(r) == IF op[r].kind = "update"
             THEN [contact |-> op[r].contact, enabled |-> op[r].enabled]
             ELSE [contact |-> CHOOSE c \in {x.contact : x \in shown[r]} : TRUE,
                   enabled |-> TRUE]

\* Fault: the UPDATE selects by contact_id alone.
UpdatableByAnyone(r) == contact[Target(r).contact] # NoRow

Updatable(r) == Target(r).contact \in ContactsOf(op[r].tenant)

\* Fault: a contact enabled again is answered as if it were new.
SetEnabledAsNew(r) ==
    /\ pc[r] = "enable"
    /\ Updatable(r)
    /\ contact' = [contact EXCEPT ![Target(r).contact].enabled =
                                        Target(r).enabled]
    /\ Finish(r, "ok", IF op[r].kind = "configure" THEN {}
                       ELSE {[contact |-> Target(r).contact,
                              enabled |-> Target(r).enabled, reasons |-> {}]})
    /\ UNCHANGED <<suppressions, used, removed>>

\* set_notification_contact_enabled, for an update and for a duplicate.
SetEnabled(r) ==
    /\ pc[r] = "enable"
    /\ Updatable(r)
    /\ contact' = [contact EXCEPT ![Target(r).contact].enabled =
                                        Target(r).enabled]
    /\ IF op[r].kind = "configure"
       THEN Finish(r, "ok", {})
       ELSE /\ GoOn(r, "reasons")
            /\ shown' = [shown EXCEPT ![r] = {Target(r)}]
            /\ UNCHANGED found
    /\ UNCHANGED <<suppressions, used, removed>>

\* No such contact of the tenant, or no such suppression: 404.
NotFound(r) ==
    /\ \/ pc[r] = "enable" /\ ~Updatable(r)
       \/ /\ pc[r] = "find"
          /\ \/ op[r].contact \notin ContactsOf(op[r].tenant)
             \/ op[r].reason \notin ReasonsOf(op[r].contact)
    /\ Finish(r, "not_found", {})
    /\ UNCHANGED tables

\* The removal reads the row it is about ...
FindSuppression(r) ==
    /\ pc[r] = "find"
    /\ op[r].contact \in ContactsOf(op[r].tenant)
    /\ \E s \in suppressions :
          /\ s.contact = op[r].contact
          /\ s.reason = op[r].reason
          /\ found' = [found EXCEPT ![r] = s.id]
    /\ GoOn(r, "delete")
    /\ UNCHANGED <<shown, tables>>

\* Fault: the DELETE leaves out the reason.
SelectedForAnyReason(r) == {s \in suppressions : s.contact = op[r].contact}

\* The rows its DELETE selects: by contact and reason, not by suppression_id.
Selected(r) == {s \in suppressions : /\ s.contact = op[r].contact
                                     /\ s.reason = op[r].reason}

\* ... deletes what is there now, and records the row it has read as removed.
DeleteSuppression(r) ==
    /\ pc[r] = "delete"
    /\ suppressions' = suppressions \ Selected(r)
    /\ removed' = removed \cup {found[r]}
    /\ GoOn(r, "read")
    /\ UNCHANGED <<shown, found, contact, used>>

\* list_notification_contacts, by the listing and after a removal.
ReadContacts(r) ==
    /\ pc[r] = "read"
    /\ shown' = [shown EXCEPT ![r] =
                    Shown({c \in ContactsOf(op[r].tenant) :
                              op[r].kind = "remove" => c = op[r].contact})]
    /\ GoOn(r, "reasons")
    /\ UNCHANGED <<found, tables>>

\* list_notification_contact_suppressions, and the answer.
ReadReasons(r) ==
    /\ pc[r] = "reasons"
    /\ Finish(r, "ok", {[contact |-> x.contact, enabled |-> x.enabled,
                         reasons |-> ReasonsOf(x.contact)] : x \in shown[r]})
    /\ UNCHANGED tables

\* The Lambda times out or loses its connection between two transactions.
Abandon(r) ==
    /\ pc[r] # "idle"
    /\ Finish(r, "lost", {})
    /\ UNCHANGED tables

-----------------------------------------------------------------------------

\* Fault: a second row for the same reason.
SuppressAgain(c, reason) ==
    /\ contact[c] # NoRow
    /\ used < MaxSuppressions
    /\ used' = used + 1
    /\ suppressions' = suppressions \cup
                          {[id |-> used + 1, contact |-> c, reason |-> reason]}
    /\ answer' = NoAnswer
    /\ UNCHANGED <<contact, removed, locals>>

\* The feedback processor suppresses a contact; a row that is there stays.
Suppress(c, reason) ==
    /\ contact[c] # NoRow
    /\ reason \notin ReasonsOf(c)
    /\ used < MaxSuppressions
    /\ used' = used + 1
    /\ suppressions' = suppressions \cup
                          {[id |-> used + 1, contact |-> c, reason |-> reason]}
    /\ answer' = NoAnswer
    /\ UNCHANGED <<contact, removed, locals>>

RequestStep(r) ==
    \/ Insert(r) \/ InsertRefused(r) \/ LookUp(r)
    \/ SetEnabled(r) \/ NotFound(r)
    \/ FindSuppression(r) \/ DeleteSuppression(r)
    \/ ReadContacts(r) \/ ReadReasons(r)

Next ==
    \/ \E r \in Requests : \/ \E o \in Inputs : Start(r, o)
                           \/ RequestStep(r)
                           \/ Abandon(r)
    \/ \E c \in ContactIds, reason \in Reasons : Suppress(c, reason)

Spec == Init /\ [][Next]_vars

-----------------------------------------------------------------------------
(* Properties                                                              *)

\* Every variable keeps the values its column or local can hold, and the rows
\* have distinct identifiers and at most one suppression for a reason.
TypeOK ==
    /\ contact \in [ContactIds -> Rows \cup {NoRow}]
    /\ suppressions \subseteq [id : 1..used, contact : ContactIds,
                               reason : Reasons]
    /\ \A s, z \in suppressions :
          s.id = z.id \/ (s.contact = z.contact /\ s.reason = z.reason) => s = z
    /\ used \in 0..MaxSuppressions
    /\ removed \subseteq 1..used
    /\ pc \in [Requests -> {"idle", "insert", "look", "enable", "find",
                            "delete", "read", "reasons"}]
    /\ \A r \in Requests : /\ op[r] \in Inputs \cup {NoOp}
                           /\ pc[r] = "idle" <=> op[r] = NoOp
                           /\ found[r] \in 0..used
                           /\ shown[r] \subseteq [contact : ContactIds,
                                                  enabled : BOOLEAN]

\* However requests race, and however they spell it, an address belongs to at
\* most one contact of a tenant.
OneContactPerAddress ==
    \A c, e \in ContactIds :
        /\ contact[c] # NoRow /\ contact[e] # NoRow
        /\ contact[c].tenant = contact[e].tenant
        /\ NormalOf[contact[c].email] = NormalOf[contact[e].email]
        => c = e

\* What a request changes or takes away belongs to its own tenant, and a
\* contact never changes hands.
TenantsApart ==
    [][\A c \in ContactIds :
          contact[c] # NoRow =>
              /\ contact'[c].tenant = contact[c].tenant
              /\ \/ contact'[c] # contact[c]
                 \/ \E s \in suppressions \ suppressions' : s.contact = c
                 => \E r \in Requests : /\ pc'[r] # pc[r]
                                        /\ op[r].tenant = contact[c].tenant]_vars

\* A suppression ends only through a request to remove it, and that request
\* takes away the very row it has found; a row that has come since only if the
\* one it has found is gone.
RemovesWhatItFound ==
    [][\A s \in suppressions \ suppressions' :
          \E r \in Requests : /\ pc[r] = "delete" /\ pc'[r] # pc[r]
                              /\ \/ found[r] = s.id
                                 \/ \A z \in suppressions : z.id # found[r]]_vars

=============================================================================
