---------------------------- MODULE EmailDelivery ----------------------------
(***************************************************************************)
(* The notification email delivery worker (deliver_notification_emails),   *)
(* the tables it works on, and the two parties that change them meanwhile: *)
(* the SES feedback processor and the tenants' contact routes.             *)
(*                                                                         *)
(* Every action is one database transaction, one SMTP conversation, or one *)
(* step of the worker's own loop.  A worker is one running Lambda          *)
(* invocation; what it read stays in its local state (batch, seen) while   *)
(* the tables move on.                                                     *)
(***************************************************************************)
EXTENDS Naturals, FiniteSets

CONSTANTS
    Tenants,
    Notifications,  \* notification_id of the rent_due_soon notifications
    Contacts,       \* contact_id
    TenantOf,       \* the tenant a notification or a contact belongs to
    Workers,        \* invocations of the worker that may overlap
    MaxAttempts,    \* NOTIFICATION_EMAIL_MAX_ATTEMPTS
    BatchSize,      \* NOTIFICATION_EMAIL_BATCH_SIZE
    Unsendable,     \* contacts whose address no message can be built for
    FeedbackTypes,  \* the feedback SES publishes in this deployment
    BypassRLS,      \* may the database role ignore row-level security?
    MaxCrashes      \* bound on the crashes TLC explores

Reasons == {"bounce", "complaint"}

ASSUME DeliveryAssumption ==
    /\ TenantOf \in [Notifications \cup Contacts -> Tenants]
    /\ IsFiniteSet(Notifications) /\ IsFiniteSet(Contacts)
    /\ IsFiniteSet(Workers) /\ Workers # {}
    /\ MaxAttempts \in Nat \ {0}
    /\ BatchSize \in Nat \ {0}
    /\ Unsendable \subseteq Contacts
    /\ FeedbackTypes \subseteq Reasons
    /\ BypassRLS \in BOOLEAN
    /\ MaxCrashes \in Nat

VARIABLES
    (* tables *)
    notifications,  \* the rows of notifications, type rent_due_soon
    deleted,        \* their identifiers that were used and are gone
    enabled,        \* notification_contacts.enabled
    suppressions,   \* the rows of notification_contact_suppressions
    status,         \* notification_email_deliveries.status, "none": no row
    attempts,       \* ... .attempt_count
    lastError,      \* ... .last_error_code
    sentAt,         \* ... .sent_at IS NOT NULL
    rank,           \* the row's place in the order (created_at, delivery_id)
    (* worker invocations *)
    pc,             \* where the invocation is
    scope,          \* the tenant it was asked to serve, or "all"
    todo,           \* tenants whose transaction of this phase is to come
    batch,          \* the listed items not yet dealt with
    seen,           \* attempt_count of those items when they were listed
    exhausted,      \* the items retry_exhausted_count counts so far
    (* the world outside *)
    accepted,       \* how many copies of the mail SES has accepted
    feedback,       \* SES events on their way to the processor
    reported,       \* the items an emitted retry_exhausted_count covered
    crashes

tables  == <<notifications, deleted, enabled, suppressions>>
rows    == <<status, attempts, lastError, sentAt, rank>>
locals  == <<pc, scope, todo, batch, seen, exhausted>>
outside == <<accepted, feedback, reported, crashes>>
vars    == <<tables, rows, locals, outside>>

-----------------------------------------------------------------------------
(* Deliveries: a notification and a contact of the same tenant             *)

Deliveries ==
    {d \in Notifications \X Contacts : TenantOf[d[1]] = TenantOf[d[2]]}

ContactOf(d) == d[2]
TenantOfDelivery(d) == TenantOf[d[2]]

\* Fault: suppressions are not consulted.
EligibleIfEnabled(c) == enabled[c]

\* A contact mail may be sent to: enabled, and not suppressed for any reason.
Eligible(c) ==
    /\ enabled[c]
    /\ \A r \in Reasons : <<c, r>> \notin suppressions

\* The pairs the preparation transaction of tenant t selects.
Candidates(t) ==
    {d \in Deliveries : /\ TenantOfDelivery(d) = t
                        /\ d[1] \in notifications
                        /\ Eligible(ContactOf(d))}

\* Fault: the attempt limit is not part of the query.
ListableForever(t) ==
    {d \in Candidates(t) : status[d] \in {"pending", "failed"}}

\* Fault: rows already sent are listed again.
ListableSentToo(t) ==
    {d \in Candidates(t) : status[d] # "none" /\ attempts[d] < MaxAttempts}

\* The rows the listing transaction of tenant t selects, before LIMIT.
Listable(t) ==
    {d \in Candidates(t) : /\ status[d] \in {"pending", "failed"}
                           /\ attempts[d] < MaxAttempts}

\* ORDER BY created_at, delivery_id LIMIT k
FirstRows(S, k) ==
    {d \in S : Cardinality({e \in S : rank[e] < rank[d]}) < k}

\* The item the worker's loop has reached.
Current(w, d) ==
    /\ d \in batch[w]
    /\ \A e \in batch[w] : rank[d] <= rank[e]

\* Fault: off by one.
LastAttemptLate(n) == n + 1 > MaxAttempts

\* Is the attempt after n attempts the last one?
LastAttempt(n) == n + 1 >= MaxAttempts

NoneSeen == [d \in Deliveries |-> 0]

-----------------------------------------------------------------------------
(* Initial state: contacts exist, nothing has been scanned or sent yet     *)

Init ==
    /\ notifications = {}
    /\ deleted = {}
    /\ enabled \in [Contacts -> BOOLEAN]
    /\ suppressions = {}
    /\ status = [d \in Deliveries |-> "none"]
    /\ attempts = [d \in Deliveries |-> 0]
    /\ lastError = [d \in Deliveries |-> "none"]
    /\ sentAt = [d \in Deliveries |-> FALSE]
    /\ rank = [d \in Deliveries |-> 0]
    /\ pc = [w \in Workers |-> "idle"]
    /\ scope = [w \in Workers |-> "all"]
    /\ todo = [w \in Workers |-> {}]
    /\ batch = [w \in Workers |-> {}]
    /\ seen = [w \in Workers |-> NoneSeen]
    /\ exhausted = [w \in Workers |-> {}]
    /\ accepted = [d \in Deliveries |-> 0]
    /\ feedback = {}
    /\ reported = {}
    /\ crashes = 0

-----------------------------------------------------------------------------
(* One invocation of the worker                                            *)

\* The tenants list_notification_email_delivery_tenants returns: with
\* max_attempts it adds the tenants that have a row left to deliver.
DeliveryTenants(withRows) ==
    {t \in Tenants : \/ Candidates(t) # {}
                     \/ withRows /\ Listable(t) # {}}

\* The invocation is over: a response was returned, or the process is gone.
EndRun(w) ==
    /\ pc' = [pc EXCEPT ![w] = "idle"]
    /\ scope' = [scope EXCEPT ![w] = "all"]
    /\ todo' = [todo EXCEPT ![w] = {}]
    /\ batch' = [batch EXCEPT ![w] = {}]
    /\ seen' = [seen EXCEPT ![w] = NoneSeen]
    /\ exhausted' = [exhausted EXCEPT ![w] = {}]

\* Delivery is enabled and configured (a disabled or misconfigured worker
\* returns before it touches anything).  A run for all tenants first reads
\* which tenants have something to prepare.
StartRun(w, s) ==
    /\ pc[w] = "idle"
    /\ pc' = [pc EXCEPT ![w] = "prepare"]
    /\ scope' = [scope EXCEPT ![w] = s]
    /\ todo' = [todo EXCEPT ![w] = IF s = "all" THEN DeliveryTenants(FALSE)
                                                ELSE {s}]
    /\ UNCHANGED <<batch, seen, exhausted, tables, rows, outside>>

\* One tenant's preparation transaction: a pending row for every candidate
\* that has none (ON CONFLICT DO NOTHING).  The rows of one transaction share
\* created_at, so their random delivery_id orders them: any order is possible.
PrepareTenant(w, t) ==
    LET new  == {d \in Candidates(t) : status[d] = "none"}
        old  == {d \in Deliveries : status[d] # "none"}
        n    == Cardinality(old)
    IN  /\ pc[w] = "prepare"
        /\ t \in todo[w]
        /\ todo' = [todo EXCEPT ![w] = @ \ {t}]
        /\ status' = [d \in Deliveries |->
                         IF d \in new THEN "pending" ELSE status[d]]
        /\ \E place \in [new -> (n + 1)..(n + Cardinality(new))] :
              /\ \A d, e \in new : place[d] = place[e] => d = e
              /\ rank' = [d \in Deliveries |->
                             IF d \in new THEN place[d] ELSE rank[d]]
        /\ UNCHANGED <<attempts, lastError, sentAt, pc, scope, batch, seen,
                       exhausted, tables, outside>>

\* Fault: a run for all tenants is listed as if "all" were a tenant.
StartListingScope(w) ==
    /\ pc[w] = "prepare"
    /\ todo[w] = {}
    /\ pc' = [pc EXCEPT ![w] = "list"]
    /\ todo' = [todo EXCEPT ![w] = {scope[w]}]
    /\ UNCHANGED <<scope, batch, seen, exhausted, tables, rows, outside>>

\* Preparation is over; a run for all tenants reads the tenants afresh.
StartListing(w) ==
    /\ pc[w] = "prepare"
    /\ todo[w] = {}
    /\ pc' = [pc EXCEPT ![w] = "list"]
    /\ todo' = [todo EXCEPT ![w] = IF scope[w] = "all"
                                   THEN DeliveryTenants(TRUE)
                                   ELSE {scope[w]}]
    /\ UNCHANGED <<scope, batch, seen, exhausted, tables, rows, outside>>

\* One tenant's listing transaction.
ListTenant(w, t) ==
    LET found == FirstRows(Listable(t), BatchSize)
    IN  /\ pc[w] = "list"
        /\ t \in todo[w]
        /\ todo' = [todo EXCEPT ![w] = @ \ {t}]
        /\ batch' = [batch EXCEPT ![w] = @ \cup found]
        /\ seen' = [seen EXCEPT ![w] =
                       [d \in Deliveries |-> IF d \in found THEN attempts[d]
                                                            ELSE @[d]]]
        /\ UNCHANGED <<pc, scope, exhausted, tables, rows, outside>>

\* All tenants are listed: the merged list is sorted and cut to the limit.
StartSending(w) ==
    LET kept == FirstRows(batch[w], BatchSize)
    IN  /\ pc[w] = "list"
        /\ todo[w] = {}
        /\ pc' = [pc EXCEPT ![w] = "send"]
        /\ batch' = [batch EXCEPT ![w] = kept]
        /\ seen' = [seen EXCEPT ![w] =
                       [d \in Deliveries |-> IF d \in kept THEN @[d] ELSE 0]]
        /\ UNCHANGED <<scope, todo, exhausted, tables, rows, outside>>

\* Fault: an error the client sees is not raised.
SendItemUnchecked(w, d) ==
    /\ pc[w] = "send"
    /\ Current(w, d)
    /\ ContactOf(d) \notin Unsendable
    /\ \E delivered \in BOOLEAN :
          accepted' = [accepted EXCEPT ![d] = IF delivered THEN @ + 1 ELSE @]
    /\ pc' = [pc EXCEPT ![w] = "mark_sent"]
    /\ UNCHANGED <<scope, todo, batch, seen, exhausted, tables, rows,
                   feedback, reported, crashes>>

\* One SMTP conversation.  SES may accept the mail and the client still see
\* an error: the answer to DATA is lost, or QUIT is not answered with 221.
SendItem(w, d) ==
    /\ pc[w] = "send"
    /\ Current(w, d)
    /\ ContactOf(d) \notin Unsendable
    /\ \E delivered, ok \in BOOLEAN :
          /\ ok => delivered
          /\ accepted' = [accepted EXCEPT ![d] = IF delivered THEN @ + 1 ELSE @]
          /\ pc' = [pc EXCEPT ![w] = IF ok THEN "mark_sent" ELSE "mark_failed"]
          /\ exhausted' =
                IF ~ok /\ LastAttempt(seen[w][d])
                THEN [exhausted EXCEPT ![w] = @ \cup {d}]
                ELSE exhausted
    /\ UNCHANGED <<scope, todo, batch, seen, tables, rows,
                   feedback, reported, crashes>>

\* Building or encoding the message raises an error that is not a
\* NotificationEmailSendError: the loop does not catch it and the run ends.
AbortOnUnsendable(w, d) ==
    /\ pc[w] = "send"
    /\ Current(w, d)
    /\ ContactOf(d) \in Unsendable
    /\ EndRun(w)
    /\ UNCHANGED <<tables, rows, outside>>

\* The loop goes on to the next item.
NextItem(w, d) ==
    /\ pc' = [pc EXCEPT ![w] = "send"]
    /\ batch' = [batch EXCEPT ![w] = @ \ {d}]
    /\ seen' = [seen EXCEPT ![w] = [@ EXCEPT ![d] = 0]]
    /\ UNCHANGED <<scope, todo, exhausted>>

\* The UPDATE matches no row that is already sent: LookupError ends the run.
MarkMissesSentRow(w, d) ==
    /\ pc[w] \in {"mark_sent", "mark_failed"}
    /\ Current(w, d)
    /\ status[d] = "sent"
    /\ EndRun(w)
    /\ UNCHANGED <<tables, rows, outside>>

\* Fault: the UPDATE does not look at the status.
MarkSentAgain(w, d) ==
    /\ pc[w] = "mark_sent"
    /\ Current(w, d)
    /\ status' = [status EXCEPT ![d] = "sent"]
    /\ attempts' = [attempts EXCEPT ![d] = @ + 1]
    /\ sentAt' = [sentAt EXCEPT ![d] = TRUE]
    /\ lastError' = [lastError EXCEPT ![d] = "none"]
    /\ NextItem(w, d)
    /\ UNCHANGED <<rank, tables, outside>>

MarkSent(w, d) ==
    /\ pc[w] = "mark_sent"
    /\ Current(w, d)
    /\ status[d] # "sent"
    /\ status' = [status EXCEPT ![d] = "sent"]
    /\ attempts' = [attempts EXCEPT ![d] = @ + 1]
    /\ sentAt' = [sentAt EXCEPT ![d] = TRUE]
    /\ lastError' = [lastError EXCEPT ![d] = "none"]
    /\ NextItem(w, d)
    /\ UNCHANGED <<rank, tables, outside>>

\* Fault: a failed attempt is not counted.
MarkFailedUncounted(w, d) ==
    /\ pc[w] = "mark_failed"
    /\ Current(w, d)
    /\ status[d] # "sent"
    /\ status' = [status EXCEPT ![d] = "failed"]
    /\ lastError' = [lastError EXCEPT ![d] = "smtp"]
    /\ NextItem(w, d)
    /\ UNCHANGED <<attempts, rank, sentAt, tables, outside>>

MarkFailed(w, d) ==
    /\ pc[w] = "mark_failed"
    /\ Current(w, d)
    /\ status[d] # "sent"
    /\ status' = [status EXCEPT ![d] = "failed"]
    /\ attempts' = [attempts EXCEPT ![d] = @ + 1]
    /\ lastError' = [lastError EXCEPT ![d] = "smtp"]
    /\ NextItem(w, d)
    /\ UNCHANGED <<rank, sentAt, tables, outside>>

\* The loop is over: the metrics are emitted and the payload is returned.
FinishRun(w) ==
    /\ pc[w] = "send"
    /\ batch[w] = {}
    /\ reported' = reported \cup exhausted[w]
    /\ EndRun(w)
    /\ UNCHANGED <<tables, rows, accepted, feedback, crashes>>

\* The Lambda dies or times out.  Nothing it kept in memory survives, and a
\* transaction it was in is rolled back.
Crash(w) ==
    /\ pc[w] # "idle"
    /\ crashes < MaxCrashes
    /\ crashes' = crashes + 1
    /\ EndRun(w)
    /\ UNCHANGED <<tables, rows, accepted, feedback, reported>>

\* update_lease deletes an unread reminder; the foreign key of
\* notification_email_deliveries protects those that have a delivery row.
Withdraw(n) ==
    /\ n \in notifications
    /\ \A d \in Deliveries : d[1] = n => status[d] = "none"
    /\ notifications' = notifications \ {n}
    /\ deleted' = deleted \cup {n}

\* The deletion commits between the SELECT and the INSERTs of a preparation:
\* the INSERT violates the foreign key, and the error ends the run.
DeleteDuringPreparation(w, t, n) ==
    /\ pc[w] = "prepare"
    /\ t \in todo[w]
    /\ \E d \in Candidates(t) : d[1] = n
    /\ Withdraw(n)
    /\ EndRun(w)
    /\ UNCHANGED <<enabled, suppressions, rows, outside>>

\* What ends an invocation from outside.
Interrupted(w) ==
    \/ Crash(w)
    \/ \E t \in Tenants, n \in Notifications : DeleteDuringPreparation(w, t, n)

-----------------------------------------------------------------------------
(* Provider feedback                                                       *)

\* SES publishes an event for a mail it accepted, at any later time.  Every
\* copy of a delivery carries the same correlation token.
SesReports(d, r) ==
    /\ accepted[d] > 0
    /\ r \in FeedbackTypes
    /\ feedback' = feedback \cup {<<d, r>>}
    /\ UNCHANGED <<tables, rows, locals, accepted, reported, crashes>>

ErrorCode(r) == IF r = "bounce" THEN "ses_bounce" ELSE "ses_complaint"

\* Fault: the row is changed, but no suppression is inserted.
ProcessFeedbackRowOnly(d, r) ==
    /\ <<d, r>> \in feedback
    /\ status' = [status EXCEPT ![d] = "failed"]
    /\ lastError' = [lastError EXCEPT ![d] = ErrorCode(r)]
    /\ feedback' \in {feedback, feedback \ {<<d, r>>}}
    /\ UNCHANGED <<tables, attempts, sentAt, rank, locals, accepted, reported, crashes>>

\* process_ses_provider_feedback: one transaction, opened without a tenant
\* context.  Both of its audit_logs rows fail the row-level security check
\* unless the role bypasses it, and then the whole transaction rolls back; the
\* handler answers 500, which EventBridge takes for a completed invocation.
\* An event may be delivered again.
ProcessFeedback(d, r) ==
    LET c       == ContactOf(d)
        changed == status[d] # "failed" \/ lastError[d] # ErrorCode(r)
        fresh   == <<c, r>> \notin suppressions
        audited == changed \/ fresh
    IN  /\ <<d, r>> \in feedback
        /\ IF audited /\ ~BypassRLS
           THEN UNCHANGED <<status, lastError, suppressions>>
           ELSE /\ status' = [status EXCEPT ![d] = "failed"]
                /\ lastError' = [lastError EXCEPT ![d] = ErrorCode(r)]
                /\ suppressions' = suppressions \cup {<<c, r>>}
        /\ feedback' \in {feedback, feedback \ {<<d, r>>}}
        /\ UNCHANGED <<notifications, deleted, enabled, attempts, sentAt, rank,
                       locals, accepted, reported, crashes>>

-----------------------------------------------------------------------------
(* The reminder scan and the tenants                                       *)

\* The reminder scan inserts a notification, under a fresh identifier.
CreateNotification(n) ==
    /\ n \notin notifications \cup deleted
    /\ notifications' = notifications \cup {n}
    /\ UNCHANGED <<deleted, enabled, suppressions, rows, locals, outside>>

\* update_lease deletes a reminder outside any preparation.
DeleteNotification(n) ==
    /\ Withdraw(n)
    /\ UNCHANGED <<enabled, suppressions, rows, locals, outside>>

SetContactEnabled(c, b) ==
    /\ enabled' = [enabled EXCEPT ![c] = b]
    /\ UNCHANGED <<notifications, deleted, suppressions, rows, locals, outside>>

\* DELETE .../suppressions/{reason}: one reason at a time, 404 if not present.
RemoveSuppression(c, r) ==
    /\ <<c, r>> \in suppressions
    /\ suppressions' = suppressions \ {<<c, r>>}
    /\ UNCHANGED <<notifications, deleted, enabled, rows, locals, outside>>

-----------------------------------------------------------------------------

\* The steps an invocation takes by itself once started.
WorkerStep(w) ==
    \/ \E t \in Tenants : PrepareTenant(w, t) \/ ListTenant(w, t)
    \/ StartListing(w)
    \/ StartSending(w)
    \/ \E d \in Deliveries : \/ SendItem(w, d)
                             \/ AbortOnUnsendable(w, d)
                             \/ MarkMissesSentRow(w, d)
                             \/ MarkSent(w, d)
                             \/ MarkFailed(w, d)
    \/ FinishRun(w)

WorkerNext ==
    \E w \in Workers : \/ \E s \in Tenants \cup {"all"} : StartRun(w, s)
                       \/ WorkerStep(w)
                       \/ Interrupted(w)

FeedbackNext ==
    \E d \in Deliveries, r \in Reasons :
        SesReports(d, r) \/ ProcessFeedback(d, r)

TenantNext ==
    \/ \E n \in Notifications : CreateNotification(n) \/ DeleteNotification(n)
    \/ \E c \in Contacts, b \in BOOLEAN : SetContactEnabled(c, b)
    \/ \E c \in Contacts, r \in Reasons : RemoveSuppression(c, r)

Next == WorkerNext \/ FeedbackNext \/ TenantNext

Spec == Init /\ [][Next]_vars

\* Invocations make progress, and runs for all tenants are requested again
\* and again.  Nothing is assumed of crashes, SES, the tenants or the scan.
Fairness ==
    /\ \A w \in Workers : WF_vars(WorkerStep(w))
    /\ SF_vars(\E w \in Workers : StartRun(w, "all"))

FairSpec == Spec /\ Fairness

-----------------------------------------------------------------------------
(* Properties                                                              *)

\* Every variable keeps the values its column, local or event queue can hold.
TypeOK ==
    /\ notifications \subseteq Notifications
    /\ deleted \subseteq Notifications \ notifications
    /\ enabled \in [Contacts -> BOOLEAN]
    /\ suppressions \subseteq Contacts \X Reasons
    /\ status \in [Deliveries -> {"none", "pending", "failed", "sent"}]
    /\ attempts \in [Deliveries -> Nat]
    /\ lastError \in [Deliveries ->
                         {"none", "smtp", "ses_bounce", "ses_complaint"}]
    /\ sentAt \in [Deliveries -> BOOLEAN]
    /\ rank \in [Deliveries -> Nat]
    /\ pc \in [Workers -> {"idle", "prepare", "list", "send",
                           "mark_sent", "mark_failed"}]
    /\ scope \in [Workers -> Tenants \cup {"all"}]
    /\ todo \in [Workers -> SUBSET Tenants]
    /\ batch \in [Workers -> SUBSET Deliveries]
    /\ seen \in [Workers -> [Deliveries -> Nat]]
    /\ exhausted \in [Workers -> SUBSET Deliveries]
    /\ accepted \in [Deliveries -> Nat]
    /\ feedback \subseteq Deliveries \X Reasons
    /\ reported \subseteq Deliveries
    /\ crashes \in Nat

\* The attempt limit is checked when a batch is listed and not when an attempt
\* is counted, so overlapping runs can pass it, but only by one attempt for
\* each invocation beyond the first.
AttemptBound ==
    \A d \in Deliveries : attempts[d] < MaxAttempts + Cardinality(Workers)

\* A row that is or ever was 'sent' stands for a mail SES really accepted,
\* whatever crashes, lost answers and late feedback came between.
SentMeansAccepted ==
    \A d \in Deliveries : status[d] = "sent" \/ sentAt[d] =>
        sentAt[d] /\ accepted[d] > 0

\* With invocations that do not overlap, a copy beyond the recorded attempts
\* is explained by a crash after SES took the mail, or is being recorded now.
CopiesAccounted ==
    \A d \in Deliveries :
        accepted[d] <= attempts[d] + crashes
            + Cardinality({w \in Workers :
                              /\ pc[w] \in {"mark_sent", "mark_failed"}
                              /\ Current(w, d)})

\* Has a run been, or can one be, cut short by a crash or an unsendable item?
CutShort ==
    \/ crashes > 0
    \/ \E d \in Deliveries : status[d] # "none" /\ ContactOf(d) \in Unsendable

\* With invocations that do not overlap and are not cut short, a row whose last
\* permitted attempt failed is covered by the retry_exhausted_count of a run:
\* the alarm sees every exhausted delivery.
ExhaustionReported ==
    \A d \in Deliveries :
        lastError[d] = "smtp" /\ attempts[d] >= MaxAttempts =>
            \/ d \in reported \cup UNION {exhausted[w] : w \in Workers}
            \/ CutShort

\* A row that is sent becomes failed only together with a bar on its contact, so
\* that, without overlap, a mail goes out again only after a tenant has lifted
\* one; a listing or a mark that overlaps the feedback does not reopen the row.
ReopenedOnlyBarred ==
    [][\A d \in Deliveries : status[d] = "sent" /\ status'[d] # "sent"
            => ~Eligible(ContactOf(d))']_vars

\* A feedback event leaves the queue only when it has left its mark: the
\* contact it names is suppressed for that reason.
FeedbackSuppresses ==
    [][\A e \in feedback \ feedback' :
          <<ContactOf(e[1]), e[2]>> \in suppressions']_vars

\* With invocations that do not overlap, a run stops working on an item only by
\* recording an outcome for it, sent or failed, unless it crashes or has come to
\* an item that no message can be built for.
OutcomeRecorded ==
    [][\A w \in Workers : \A d \in batch[w] \ batch'[w] :
          pc[w] # "list" /\ crashes' = crashes
              => \/ attempts'[d] > attempts[d]
                 \/ \E e \in Deliveries : Current(w, e) /\ ContactOf(e) \in Unsendable]_vars

\* A pair whose notification exists and whose contact stays eligible is
\* eventually delivered or given up on, and stays so: no row starves behind
\* the rows, the failures or the aborted runs of others.
EveryDeliverySettles ==
    \A d \in Deliveries :
        <>[](d[1] \in notifications /\ Eligible(ContactOf(d)))
            => <>[](status[d] = "sent" \/ attempts[d] >= MaxAttempts)

=============================================================================
