---------------------------- MODULE LeaseReminders ----------------------------
(***************************************************************************)
(* Leases, the reminder scan (scan_due_lease_reminders), the notifications *)
(* it inserts, and the lease editor that deletes the ones a change makes   *)
(* obsolete.                                                               *)
(*                                                                         *)
(* A scan reads its candidates in one transaction and inserts them in the  *)
(* next; what it found stays in its local state while leases change.       *)
(* Dates are numbers; which of them a due day falls on is the calendar's   *)
(* business (DueDates), and module DueDate relates it to _next_due_date.   *)
(***************************************************************************)
EXTENDS Naturals

CONSTANTS
    Tenants,
    Leases,     \* lease_id
    TenantOf,   \* the tenant a lease belongs to
    Scans,      \* invocations of the scan that may overlap
    DueDays,    \* values of rent_due_day_of_month
    DueDates,   \* the dates a due day falls on
    Terms,      \* the start, end and due day that requests ask for
    Windows,    \* values of the event's field days
    AsOfDates,  \* values of the event's field as_of_date, besides the default
    LastDay     \* bound on the days TLC explores

ASSUME ReminderAssumption ==
    /\ TenantOf \in [Leases -> Tenants]
    /\ DueDates \in [DueDays -> SUBSET Nat]
    /\ Terms \subseteq [start : Nat, end : Nat, due : DueDays]
    /\ Windows \subseteq Nat
    /\ AsOfDates \subseteq Nat
    /\ LastDay \in Nat
    /\ \A k \in DueDays, x \in (0..LastDay) \cup AsOfDates :
          \E y \in DueDates[k] : y >= x

NoLease == [start |-> 1, end |-> 0, due |-> "none"]

VARIABLES
    today,   \* date.today()
    terms,   \* the reminder fields of the rows of leases, NoLease: no row
    unread,  \* notifications rows with read_at IS NULL, by (lease, due_date)
    read,    \* notifications rows with read_at set
    mailed,  \* the notifications notification_email_deliveries refers to
    answer,  \* was the last PATCH of a lease handled, with whatever result?
    pc,      \* where a scan is
    scope,   \* the tenant it was asked to scan, or "all"
    asOf,    \* its as_of_date
    range,   \* its range_end
    todo,    \* tenants it has still to read
    found    \* the candidates it has read and not yet inserted

tables == <<terms, unread, read, mailed>>
locals == <<pc, scope, asOf, range, todo, found>>
vars   == <<today, tables, answer, locals>>

Dates == UNION {DueDates[k] : k \in DueDays}
Keys  == Leases \X Dates

-----------------------------------------------------------------------------
(* Due dates                                                               *)

NextDue(x, k) ==
    CHOOSE y \in DueDates[k] : /\ y >= x
                               /\ \A z \in DueDates[k] : z >= x => y <= z

\* Does the lease ask for a reminder in the range?  (A range that ends before
\* the lease starts or starts after it ends is excluded by the query itself.)
DueWithin(l, from, to) ==
    LET due == NextDue(from, terms[l].due)
    IN  /\ terms[l] # NoLease
        /\ due <= to
        /\ terms[l].start <= due /\ due <= terms[l].end

\* Fault: the last day of the range is not part of it.
DueTenantsShort(from, to) ==
    {t \in Tenants : \E l \in Leases :
        TenantOf[l] = t /\ DueWithin(l, from, to - 1)}

DueTenants(from, to) ==
    {t \in Tenants :
        \E l \in Leases : TenantOf[l] = t /\ DueWithin(l, from, to)}

Candidates(t, from, to) ==
    {<<l, NextDue(from, terms[l].due)>> :
        l \in {k \in Leases : TenantOf[k] = t /\ DueWithin(k, from, to)}}

-----------------------------------------------------------------------------

Init ==
    /\ today = 0
    /\ terms = [l \in Leases |-> NoLease]
    /\ unread = {}
    /\ read = {}
    /\ mailed = {}
    /\ answer = "handled"
    /\ pc = [s \in Scans |-> "idle"]
    /\ scope = [s \in Scans |-> "all"]
    /\ asOf = [s \in Scans |-> 0]
    /\ range = [s \in Scans |-> 0]
    /\ todo = [s \in Scans |-> {}]
    /\ found = [s \in Scans |-> {}]

-----------------------------------------------------------------------------
(* The scan                                                                *)

\* A run for all tenants first reads which tenants have a lease due.
StartScan(s, who, from, days) ==
    /\ pc[s] = "idle"
    /\ pc' = [pc EXCEPT ![s] = "read"]
    /\ scope' = [scope EXCEPT ![s] = who]
    /\ asOf' = [asOf EXCEPT ![s] = from]
    /\ range' = [range EXCEPT ![s] = from + days]
    /\ todo' = [todo EXCEPT ![s] = IF who = "all"
                                   THEN DueTenants(from, from + days)
                                   ELSE {who}]
    /\ UNCHANGED <<found, today, tables, answer>>

\* The transaction that reads the candidates of a tenant.
ReadCandidates(s, t) ==
    /\ pc[s] = "read"
    /\ t \in todo[s]
    /\ todo' = [todo EXCEPT ![s] = @ \ {t}]
    /\ found' = [found EXCEPT ![s] = Candidates(t, asOf[s], range[s])]
    /\ pc' = [pc EXCEPT ![s] = "insert"]
    /\ UNCHANGED <<scope, asOf, range, today, tables, answer>>

\* Fault: an existing row is updated to the new one.
InsertOrReplace(s) ==
    /\ pc[s] = "insert"
    /\ unread' = unread \cup found[s]
    /\ read' = read \ found[s]
    /\ found' = [found EXCEPT ![s] = {}]
    /\ pc' = [pc EXCEPT ![s] = "read"]
    /\ UNCHANGED <<terms, mailed, scope, asOf, range, todo, today, answer>>

\* Fault: only unread rows count as conflicts.
InsertAgain(s) ==
    /\ pc[s] = "insert"
    /\ unread' = unread \cup found[s]
    /\ found' = [found EXCEPT ![s] = {}]
    /\ pc' = [pc EXCEPT ![s] = "read"]
    /\ UNCHANGED <<terms, read, mailed, scope, asOf, range, todo, today,
                   answer>>

\* The transaction that inserts them, ON CONFLICT DO NOTHING.
InsertReminders(s) ==
    /\ pc[s] = "insert"
    /\ unread' = unread \cup (found[s] \ read)
    /\ found' = [found EXCEPT ![s] = {}]
    /\ pc' = [pc EXCEPT ![s] = "read"]
    /\ UNCHANGED <<terms, read, mailed, scope, asOf, range, todo, today,
                   answer>>

EndScan(s) ==
    /\ pc' = [pc EXCEPT ![s] = "idle"]
    /\ scope' = [scope EXCEPT ![s] = "all"]
    /\ asOf' = [asOf EXCEPT ![s] = 0]
    /\ range' = [range EXCEPT ![s] = 0]
    /\ todo' = [todo EXCEPT ![s] = {}]
    /\ found' = [found EXCEPT ![s] = {}]
    /\ UNCHANGED <<today, tables, answer>>

FinishScan(s) ==
    /\ pc[s] = "read"
    /\ todo[s] = {}
    /\ EndScan(s)

\* The Lambda dies or times out with tenants left to do.
CrashScan(s) ==
    /\ pc[s] = "insert" \/ todo[s] # {}
    /\ EndScan(s)

-----------------------------------------------------------------------------
(* The lease routes                                                        *)

CreateLease(l, new) ==
    /\ terms[l] = NoLease
    /\ new.start <= new.end
    /\ terms' = [terms EXCEPT ![l] = new]
    /\ UNCHANGED <<today, unread, read, mailed, answer, locals>>

\* The unread reminders a change of the lease makes obsolete.
Obsolete(l) == {x \in unread : x[1] = l /\ x[2] >= today}

\* An edit is answered without a change: the merged dates are refused, or none
\* of the reminder fields differs.
EditLeavesTerms(l, new) ==
    /\ terms[l] # NoLease
    /\ new.end < new.start \/ new = terms[l]
    /\ answer' = "handled"
    /\ UNCHANGED <<today, tables, locals>>

EditAsked(l, new) ==
    /\ terms[l] # NoLease
    /\ new.start <= new.end
    /\ new # terms[l]

\* Fault: the reminder due today is kept.
EditLeaseLate(l, new) ==
    /\ EditAsked(l, new)
    /\ Obsolete(l) \cap mailed = {}
    /\ terms' = [terms EXCEPT ![l] = new]
    /\ unread' = unread \ {x \in Obsolete(l) : x[2] > today}
    /\ answer' = "handled"
    /\ UNCHANGED <<today, read, mailed, locals>>

\* The lease is locked, updated, and its obsolete reminders are deleted.
EditLease(l, new) ==
    /\ EditAsked(l, new)
    /\ Obsolete(l) \cap mailed = {}
    /\ terms' = [terms EXCEPT ![l] = new]
    /\ unread' = unread \ Obsolete(l)
    /\ answer' = "handled"
    /\ UNCHANGED <<today, read, mailed, locals>>

\* A delivery row refers to one of those reminders: the DELETE violates the
\* foreign key, the transaction is rolled back, the handler answers 500.
EditFails(l, new) ==
    /\ EditAsked(l, new)
    /\ Obsolete(l) \cap mailed # {}
    /\ answer' = "internal_error"
    /\ UNCHANGED <<today, tables, locals>>

-----------------------------------------------------------------------------
(* Readers, the delivery worker, and time                                  *)

MarkRead(x) ==
    /\ x \in unread
    /\ unread' = unread \ {x}
    /\ read' = read \cup {x}
    /\ UNCHANGED <<today, terms, mailed, answer, locals>>

\* The delivery worker prepares a row for the notification.
PrepareDelivery(x) ==
    /\ x \in unread \cup read
    /\ mailed' = mailed \cup {x}
    /\ UNCHANGED <<today, terms, unread, read, answer, locals>>

DayPasses ==
    /\ today < LastDay
    /\ today' = today + 1
    /\ UNCHANGED <<tables, answer, locals>>

-----------------------------------------------------------------------------

ScanNext ==
    \E s \in Scans :
        \/ \E who \in Tenants \cup {"all"}, from \in {today} \cup AsOfDates,
              days \in Windows : StartScan(s, who, from, days)
        \/ \E t \in Tenants : ReadCandidates(s, t)
        \/ InsertReminders(s)
        \/ FinishScan(s)
        \/ CrashScan(s)

LeaseNext ==
    \E l \in Leases, new \in Terms : \/ CreateLease(l, new)
                                     \/ EditLeavesTerms(l, new)
                                     \/ EditLease(l, new)
                                     \/ EditFails(l, new)

OtherNext ==
    \/ \E x \in Keys : MarkRead(x) \/ PrepareDelivery(x)
    \/ DayPasses

Next == ScanNext \/ LeaseNext \/ OtherNext

Spec == Init /\ [][Next]_vars

-----------------------------------------------------------------------------
(* Properties                                                              *)

\* Every variable keeps the values its column or local can hold, and no
\* notification is at once read and unread.
TypeOK ==
    /\ today \in 0..LastDay
    /\ terms \in [Leases -> Terms \cup {NoLease}]
    /\ unread \subseteq Keys
    /\ read \subseteq Keys \ unread
    /\ mailed \subseteq unread \cup read
    /\ answer \in {"handled", "internal_error"}
    /\ pc \in [Scans -> {"idle", "read", "insert"}]
    /\ scope \in [Scans -> Tenants \cup {"all"}]
    /\ asOf \in [Scans -> Nat]
    /\ range \in [Scans -> Nat]
    /\ todo \in [Scans -> SUBSET Tenants]
    /\ found \in [Scans -> SUBSET Keys]

\* A reminder its tenant has read never comes back as unread, however many
\* scans find the same due date again.
ReadStaysRead == [][read \subseteq read']_vars

\* A reminder of the lease's current terms.
Agrees(x) ==
    LET m == terms[x[1]]
    IN  /\ m # NoLease
        /\ x[2] \in DueDates[m.due]
        /\ m.start <= x[2] /\ x[2] <= m.end

\* What the tests of the lease editor say: an edit of the terms either is refused
\* or removes the obsolete reminders; none ends in an internal error, whatever
\* the delivery worker has done with those reminders before.
EditsSucceed == answer = "handled"

=============================================================================
