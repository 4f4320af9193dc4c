# LeaseFlow: TLA+ models, checks and proofs

LeaseFlow is a multi-tenant lease manager: a Python Lambda over PostgreSQL, a
React frontend, and Terraform for the AWS resources around them. Most of it is
short request handlers. Its own logic is in what runs on its own: a daily scan
that turns leases into reminders, a worker that mails the reminders, and a
processor for what Amazon SES reports back about the mails. These three share
tables, keep what they read across several transactions, may overlap, and may
die anywhere. They come first here. Around them are the requests of users, who
edit the same rows at the same time, the browser that shows them answers in
whatever order they arrive, and the migrations that build the tables.

## Inventory

| Component | State | Operations | What is hard | What makes it correct |
|---|---|---|---|---|
| Email delivery worker (`routes/notification_email_delivery.py`, `email_delivery.py`, `db.py`) | `notification_email_deliveries`; the list and counters of an invocation | prepare rows, list a batch, send, mark sent or failed, emit metrics | overlapping invocations, acting on a stale list, a crash after SES took the mail, a lost SMTP answer, one item that stops a run | a bounded number of attempts, no copies without a cause, nothing sent to barred contacts, every delivery settles, exhaustion is reported |
| SES feedback processor (`routes/ses_provider_feedback.py`, `db.py`) | `notification_contact_suppressions`, status of a delivery | one transaction per event | feedback before the row is marked, the same event twice, row-level security, an event lost on error | feedback suppresses, a sent row stands for an accepted mail |
| Reminder scan (`routes/reminder_scans.py`, `db.py`) | `notifications`; the candidates of an invocation | list tenants, read candidates, insert | read and insert are two transactions, overlapping scans, dying between tenants | no due date missed, nothing reappears once read, reminders agree with leases |
| Due dates (`_next_due_date`) | none | a date for a date and a due day | short months, leap years, the turn of the year | the right day, none skipped |
| Leases (`routes/leases.py`, `db.py`) | `leases` | create, edit (deletes obsolete reminders) | the deletion meets scans under way and the foreign key of the deliveries | valid edits succeed and leave no obsolete reminder |
| Notification inbox (`routes/notifications.py`) | `notifications.read_at` | list, mark read | races with scans and edits | read stays read |
| Notification contacts (`routes/notification_contacts.py`, `notification_contact_setup.py`) | `notification_contacts`, `notification_contact_suppressions` | list, create or re-enable, enable, disable, remove a suppression, internal setup | up to three transactions for one request, feedback in between, a removal whose SELECT and DELETE differ | one contact for an address, answers made of true parts, only what was found is removed |
| Properties and leases as records (`routes/properties.py`, `routes/leases.py`) | `properties`, `leases`, `audit_logs` | create, edit, list | partial edits at the same time, row locks, a lost answer to a commit | dates in order, edits answered as made, the audit log names what changed |
| Tenant isolation (`auth.py`, `_tenant_transaction`, `audit_logs` policy) | the setting `app.tenant_id` | every transaction | transactions without the setting | audit rows are written with what they report; no row of another tenant is shown or changed |
| Migrations (`routes/db_migrations.py`, `migrations/`) | the schema, `alembic_version` | upgrade to head by an event, any upgrade or downgrade by hand | two runs at once, lock cycles, a run cut off half-way | the schema is that of the recorded revision |
| Request handling (`handler.py`) | none | routing, status codes | which exception becomes which answer | |
| Notifications page (`useNotificationsPage.ts`) | React state | load, create, enable, disable | answers out of order, unmounted pages | the page is right when nothing is under way |
| Browser session (`lib/auth.ts`, `AuthContext.tsx`) | `sessionStorage`, React state | sign in, callback, sign out, expiry | callbacks of earlier sign-ins, late 401s, documents that end | storage and memory agree; a sign-in can be completed |
| Other pages, configuration, metrics, logging, demo client, operator scripts, health check, Terraform | | | | |

Interactions: EventBridge Scheduler invokes the scan once a day
(`infra/modules/reminder_scheduler`); the delivery worker is invoked by an
operator (`docs/notification-email-delivery-mvp.md:118`); SES events reach the
processor through EventBridge (`infra/modules/ses_feedback_eventbridge_processor`);
users reach leases, properties, notifications and contacts through the API, from
a page that keeps what it was answered; migrations are run by an event or by
hand. All of them meet in the tables. Nothing is shared in memory, nothing is
locked across transactions, and an invocation of the worker or of the scan, or a
request about contacts, consists of several transactions.

## Modules

| Module | What it is |
|---|---|
| `EmailDelivery` | the worker, the feedback processor, and the tenants who change contacts and notifications |
| `EmailDeliveryHistory` | the same with a history variable: what has been barred since an invocation started |
| `EmailDeliveryProofs` | theorems about both |
| `DeliveryContract` | what the worker promises for one delivery: the abstract specification |
| `EmailDeliveryRefinement` | the mapping under which `EmailDelivery` implements it |
| `EmailDeliveryRefinementProofs` | the theorem that it does |
| `LeaseReminders` | leases, scans, reminders, the edits that delete reminders |
| `LeaseRemindersHistory` | the same with history variables: edits that raced with a scan, completed scans |
| `LeaseRemindersProofs` | theorems about both |
| `DueDate` | `_next_due_date` on the real calendar |
| `DueDateProofs` | theorems about it |
| `NotificationContacts` | the contact routes, the internal setup, and feedback between their transactions |
| `NotificationContactsHistory` | the same with a history variable: the states of the contacts while a request ran |
| `NotificationContactsProofs` | theorems about both |
| `Records` | requests about properties and leases, with row locks and the audit log |
| `RecordsProofs` | theorems about it |
| `NotificationsPage` | the contacts on the notifications page and the requests it sends |
| `BrowserSession` | signing in and out in one browser tab |
| `Frontend` | both composed, with history variables |
| `FrontendProofs` | theorems about it |
| `Schema` | the eleven revisions: what each upgrade adds and each downgrade drops |
| `Migrations` | runs of Alembic over `Schema` |
| `MigrationsProofs` | theorems about both |
| `MC...` | small instances for TLC |

Operators whose comment begins with *Fault* are not part of a specification.
Each is a plausible bug in the definition that follows it; `PROJECT.json` names
the property that finds it.

### EmailDelivery

One action is one database transaction, one SMTP conversation, or a step of the
worker's loop between two of these. An invocation goes through

    StartRun -> PrepareTenant* -> StartListing -> ListTenant* -> StartSending
             -> (SendItem -> MarkSent | MarkFailed)* -> FinishRun

and leaves that path through `AbortOnUnsendable` (an exception the loop does
not catch), `MarkMissesSentRow` (the `UPDATE ... status != 'sent'` finds no row
and raises `LookupError`), `DeleteDuringPreparation` (a foreign key error) and
`Crash`. `batch` and `seen` are the local list `pending` with the
`attempt_count` each item had when it was listed; the tables go on changing
meanwhile. `rank` stands for the order `(created_at, delivery_id)`: rows of one
transaction share `created_at` and have random identifiers, so any order among
them is possible; a preparation that commits later is taken to have started
later. Tenants are visited in any order; the code sorts them, so the model
allows more. `accepted` counts the copies SES took, and `feedback` holds
events SES has published: an event may be delivered more than once, late, or
before the worker has marked the row. `Reasons` covers the two kinds of
feedback; a failed send has one error code, `smtp`, as no property tells the
six codes apart. `BypassRLS` says whether the database role is exempt from
row-level security; with it the feedback transaction works, without it the
audit rows are refused and everything is rolled back.

`EmailDeliveryHistory` adds `barred`: for each invocation, the deliveries that
could not be sent (sent already, given up on, disabled, suppressed) at every
moment since it started. A worker cannot avoid acting on a list that is a little
old, but it can never act on something older than itself. `BarsHonoured` says so.

### DeliveryContract and the refinement

`DeliveryContract` has items, agents and a limit, and four variables: the status
of an item's row, the attempts recorded, the copies SES took, and the attempts
under way. It says how they go together: an attempt may begin only while the
recorded ones and those under way are below the limit, an outcome is recorded
at most once and never over `sent`, `sent` needs a copy, and only SES takes a
row out of `sent`. `EmailDeliveryRefinement` maps `status`, `attempts` and
`accepted` to the first three and computes the fourth from where the invocations
are; the limit is `MaxAttempts + Cardinality(Workers) - 1`. Lists, tenants,
contacts, suppressions, preparation, metrics and deleted notifications are all
stutters. The property `RefinesContract` is that specification itself.

### LeaseReminders

A scan reads the tenants (`StartScan`), and for each tenant reads the
candidates (`ReadCandidates`) and inserts them (`InsertReminders`): two
transactions with the candidates in memory in between. `EditLease` is the whole
of `update_lease`: it takes the merged fields, refuses an end before the start,
returns if nothing differs, updates, and deletes the unread reminders from
`date.today()` on. If a delivery row refers to one of them it is `EditFails`
instead. A notification is identified by lease and due date, as its unique
constraint does; `unread` and `read` are the rows without and with `read_at`. Dates are
numbers and a due day is a set of dates, so that a window of a few days can hold
the interesting cases; `DueDate` has the calendar.

`LeaseRemindersHistory` adds `raced` (leases last changed while a scan held a
reminder of theirs) and `scanned` (completed scans, with the leases unchanged
since they started).

### DueDate

Python's `datetime.date` and `calendar.monthrange` are modelled as far as
`_next_due_date` uses them. The next-month anchor (the 28th plus four days) is
part of the model, since that is where an error would be.

### NotificationContacts

One action is one transaction of a request, which goes through

    create:  Insert | InsertRefused -> LookUp -> SetEnabled -> ReadReasons
    update:  SetEnabled -> ReadReasons
    remove:  FindSuppression -> DeleteSuppression -> ReadContacts -> ReadReasons
    list:    ReadContacts -> ReadReasons

and `shown` is what it has read on the way, to be answered at the end.
`configure` is the internal event: the same first steps and no listing at the
end. The removal is one transaction in the code, but its SELECT and its DELETE
each see the tables as they are at that moment (READ COMMITTED), so they are two
actions; `found` is the identifier it will put into the audit log. An address is
a spelling, and `NormalOf` is `_normalize_notification_contact_email`.
`Suppress` is the part of the feedback transaction that concerns contacts; it
runs with the audit policy out of the way, since `EmailDelivery` is about that.
`Abandon` is a timeout between transactions. `NotificationContactsHistory` adds
`seen`: everything that was true of the contacts while a request ran.

What the answer shows was true part by part, never necessarily as a whole: a
contact may be shown enabled with a suppression that came after it was disabled
again. `AnswerPartsTrue` says how far that goes.

### Records

Create, edit and list of properties and leases, from the event to the status
code. The handler's checks of the input are `RefusalOf` (what is refused how) and
the set `Operations` (what is let through). An edit is three steps inside one
transaction: `LockRow` (SELECT ... FOR UPDATE), then `RefuseEdit`, `KeepRow` or
`UpdateRow`, which releases the lock with the transaction. `UpdateRow` writes only
the fields that differ from what was read, and the audit row with it; the
deletion of reminders in the same transaction is in `LeaseReminders`. A new lease
takes a key lock on its property, so it waits for an edit of that property.
`Committed` allows for the answer to COMMIT being lost. `answer` and `audit` hold
what the last step answered and wrote to `audit_logs`: they are what the
properties compare the tables with.

### NotificationsPage, BrowserSession, Frontend

`NotificationsPage` has the contacts as the server has them and as the page lists
them, and the requests between the two. A request is served and answered in two
steps; its answer belongs to the page that sent it, to a page closed since, or to
a document that is gone. `Upsert` is `upsertContact`. `BrowserSession` has one tab:
what `sessionStorage` keeps, what the React state holds, and where the tab is.
Sign-ins are numbered; the number stands for the state, the verifier and the
session it leads to. `Frontend` composes them: requests carry a session, an
expired one is answered 401, which signs the user out, and a document that ends
takes the page and the pending answers with it.

`disturbed` and `spoilt` are history: which contacts have had overlapping or
failed requests or foreign changes, and whether anything has cleared the sign-in
begun last. The two properties that use them, `StaleOnlyByOverlap` and
`SignInCompletes`, are lists of everything that can go wrong; nothing else can.

### Schema, Migrations

`Schema` is the eleven revision files as data. A schema is a set of names:
tables, and the columns, constraints, indexes, defaults and policies that a later
revision adds or drops. `of` says what an object goes with, `refs` which unique
constraints a table's foreign keys need. Column types, and the columns and
constraints a table is created and dropped with, are left out; so is the UPDATE
that fills the token column (its NOT NULL is an object of its own).

`Migrations` runs them. A run is one transaction, as `migrations/env.py` has it:
`Begins` reads the revision, `Execute` is one statement, `MarkVersion` changes the
row of `alembic_version` after each revision, and `Commit` makes all of it
visible. The event's run also reads the revision before and after, in
transactions of their own. What Alembic and PostgreSQL do is external, modelled
as follows: a statement sees committed objects and its own; it locks the object,
its table and the tables its foreign keys refer to until the transaction ends;
`UPDATE alembic_version` that matches no row is an error; of two transactions that
wait for each other one is ended.

## Runs

Runs that pass:

| Run | Checks | What it shows, and why its bounds are enough |
|---|---|---|
| `DeliveryOverlap` | `TypeOK`, `AttemptBound`, `SentMeansAccepted`, `BarsHonoured`, `ReopenedOnlyBarred`, `RefinesContract` | Two invocations, one delivery, two attempts, one crash, bounces, and a tenant who disables, enables and removes suppressions. Both invocations can hold the same row at any stage, which is what each property is about; `AttemptBound` is reached, so it cannot be made tighter. |
| `DeliveryAlone` | `CopiesAccounted`, `ExhaustionReported`, `OutcomeRecorded` | One invocation at a time, a delivery of each of two tenants of which one cannot be mailed, a batch of two, three attempts, a crash: lost answers, resending after feedback, and runs that are cut short combine. Where no run is cut short, every row given up on has been counted. |
| `DeliverySettles` | `EveryDeliverySettles` | Two overlapping invocations, two deliveries, a batch of one and one attempt: the second row is always behind the first, and the invocations could abort each other for ever, were it not that each abort means a row was sent. |
| `ReminderRaces` | `TypeOK`, `ObsoleteOnlyByRace`, `ReadStaysRead` | Two scans of one lease with two due days and two days to live through. |
| `ReminderScans` | `ScansMissNothing` | One scan at a time over two tenants, with leases that start and end on a due date, a due date at the end of the range, and scans dated ahead with `as_of_date`. |
| `DueDates` | `TypeOK`, `DueDateRight`, `NoDueDateSkipped` | All days of 1900, 2000, 2023 and 2024 and all due days: every combination of leap year and month, and each turn of the year after them. |
| `Contacts` | `TypeOK`, `OneContactPerAddress`, `AnswerPartsTrue`, `CreateEndsEnabled`, `TenantsApart`, `RemovesWhatItFound` | Two requests of two tenants at any stages, two contacts, one address in two spellings, and two suppressions, so that one can be removed and put back under a request that has found it. Both kinds of suppression come; as nothing tells them apart but their names, requests remove bounces only. With a third suppression, what has come in its place may have been found by another request as well; that is left to the proof of `RemovalsMeant`. Requests and contacts are interchangeable (`SYMMETRY`; no liveness is checked here). |
| `Records` | `TypeOK`, `LeaseDatesOrdered`, `EditAnsweredAsMade`, `TenantsApart`, `AuditNamesChanges`, `RequestsAnswered` | Two requests of two tenants about one property and one lease, with dates 0 and 1: two edits that give one date each are the write skew the lock prevents, an edit of two fields of which one has its value already is the one that could lose an update. |
| `Frontend` | `TypeOK`, `StaleOnlyByOverlap`, `NoneTwice`, `SessionsAgree`, `SignInCompletes` | Two requests, two contacts and two sign-ins: a load that overlaps a write, a write of a closed page, a callback of the first sign-in after the second has begun, a 401 to a request of the session before. |
| `Migrations` | `TypeOK`, `SchemaFollowsVersion`, `FailsOnlyByOverlap`, `SomebodyReachesHead`, `RunsEnd` | Two runs, each by an event or by hand, from every revision to every other: every pair of an upgrade and a downgrade that can meet does. |

Runs that find a violation, each a place where the code and a statement of the
repository about it disagree (`findings` in `PROJECT.json` quotes both):

| Run | Property | What happens |
|---|---|---|
| `DeliveryFeedbackRLS` | `FeedbackSuppresses` | Without `app.tenant_id` the audit rows are refused; the suppression is lost with them and so is the event. |
| `ReminderEditFails` | `EditsSucceed` | A reminder with a delivery row makes every edit of the lease's terms fail. |

### Disagreements

`FeedbackSuppresses` and `EditsSucceed` are what documents and tests say. There are
more statements the code does not keep; for those the passing runs check what is
true instead.

- `docs/ses-production-delivery-hardening.md:125` wants no retry of rows already
  sent. Feedback makes a sent row `failed`, and once a tenant removes the
  suppression it is sent again. `ReopenedOnlyBarred`: a sent row is reopened only
  together with a bar. Two overlapping invocations also send one row twice when
  both have listed it; `AttemptBound` and `RefinesContract` say how often.
- `docs/notification-email-delivery-mvp.md:123` says that the worker records
  success or a failure category. An address that no message can be built for
  raises an error the loop does not catch, in every run. `OutcomeRecorded`: every
  other way out of an item records its outcome or is a crash.
- `backend/tests/test_db_integration.py:975` has an edit leave no obsolete reminder. A scan
  that read its candidates before the edit inserts one after it.
  `ObsoleteOnlyByRace`: that is the only cause.
- `retry_exhausted_count` is computed from the count that was listed: two
  overlapping invocations that add the last two attempts report nothing. That is
  why `ExhaustionReported` is checked with one invocation.
- The audit log's entry for the removal of a suppression names the row the request
  has found (`db.py:312`). The `DELETE` goes by contact and reason: if another
  request has removed that row and feedback has put a newer one there between the
  two statements, the newer one is deleted and the older one is logged.
  `RemovesWhatItFound`: a row other than the one found is taken away only if that
  one is gone.
- A POST whose body is JSON but not an object is answered 500, a PATCH with the
  same body 400 (`RefusalOf`): only the routes that parse PATCH bodies look.

`CHECK_DEADLOCK FALSE` is set for `DueDates`, where the explored years come to an
end, and for `Migrations`, where every run may be over.

### Bounds

`MaxCrashes` bounds the crashes, `LastDay` the days and `Years` the years that
TLC explores; `MaxAttempts` and `BatchSize` are the configuration's own
numbers (3 and 25 by default), made small. A notification identifier is used
once, so the number of identifiers bounds how often a reminder can be created.
Copies need no bound: each belongs to an attempt or a crash. In
`NotificationContacts`, `MaxSuppressions` bounds what feedback creates and the
contacts cannot be more than `ContactIds`; in `Records`, `Room` admits a request to
create only while an identifier is left, and `Inputs` chooses among `Operations`; in
`BrowserSession`, `MaxSignIns` bounds the sign-ins. A run of `Migrations` is used
once.

### Fairness

`EmailDelivery.FairSpec` assumes that a running invocation goes on (`WF` of its
own steps: the Lambda is either executed or ended by `Crash`, of which there are
finitely many) and that a run for all tenants is requested again and again (`SF`
of `StartRun(w, "all")` for some invocation). The second is a duty of the operator:
no schedule invokes the worker. It is strong because a run cannot start while
all invocations are busy. Nothing is assumed of SES, the tenants, the scan,
crashes, or the success of any send. `Unsendable` is empty in `DeliverySettles`:
such an address stops every run before the rows behind it.

`Records.FairSpec` assumes that a request goes on, or is ended by its timeout
(`WF` of its steps; `Abandon` is not needed), and `SF` of the two actions that wait
for a lock: PostgreSQL queues those who wait for a row, so one that waits is
served though others keep coming.

`Migrations.FairSpec` assumes that a run goes on (`WF` of its steps). A lock is
granted when its holder ends, and a cycle of two is broken by PostgreSQL's
deadlock detector (`Deadlocked`).

## Proofs

Each theorem holds for all values of the constants that satisfy the assumptions
named in the module that declares them: any number of tenants, rows, requests
and invocations, any limits. The assumptions are few: tenants, contacts and
notifications go together as foreign keys have it, sets that are counted are
finite, limits are natural numbers, normalising an address twice changes
nothing more, and the strings that stand for *none*, *free* and *all* are not
themselves values. TLC evaluates them on the runs.

Few of the properties are inductive as they stand. What had to be added to them is
what the proofs are worth reading for:

### EmailDeliveryProofs

- `TypeCorrect`: `Spec => []TypeOK`.
- `AttemptsBounded`: an attempt is counted long after the limit was checked. The
  invariant counts, for each delivery, its attempts together with the
  invocations that still hold it in their batch: that sum stays below
  `MaxAttempts + Cardinality(Workers)`. Listing a row needs
  `attempts < MaxAttempts`, when at most all invocations hold it; counting an
  attempt gives up a hold.
- `NoMailBarredThroughout`: what an invocation holds in its batch has not been
  barred all the time since it started, because it was not barred when it was
  listed.
- `SentIsAccepted`: from an invariant about invocations between a send and its mark.
- `ReopenedIsBarred`: of all steps only the feedback transaction takes a row out of
  `sent`, and it suppresses the contact with it.
- `CopiesExplained`, `AlarmSeesAll` and `EveryItemRecorded` have the hypothesis
  `NoOverlap` (there is at most one worker), which is what these properties are
  about: with two workers they are false. What makes them true is that the item an
  invocation is at has a place of its own in the order of the batch
  (`OneCurrent`), and that an invocation that is alone holds each row as it has
  read it, with the count it has read, and finds it unsent (`AloneInv`).
- `FeedbackActs`: with `BypassRLS` the property that `DeliveryFeedbackRLS` refutes
  without it. What the run finds wrong is thus the role and nothing else.

### EmailDeliveryRefinementProofs

`ContractRefined`: `Spec => RefinesContract`, for any number of overlapping
invocations. The initial states are mapped to the contract's; a send, a mark, a
failure and a feedback transaction are each one action of the contract; all
others change neither rows, nor copies, nor the attempts under way. `OpenAttempts` is a
cardinality, so the step lemmas say which invocations begin or stop being at an
item. The limit in the guard of `Attempt` comes from the invariant of
`AttemptsBounded`.

### LeaseRemindersProofs

- `TypeCorrect`, `ReadForGood`.
- `ObsoleteRemindersExplained`: the property speaks of rows; the invariant
  (`RaceInv`) says the same of the candidates that scans hold, since these will be rows,
  and that only leases that exist have either.
- `CompleteScansMissNothing`: for each lease unchanged since a scan started and due in
  its range, the tenant is still to be visited, or the reminder is in memory, or it is
  in the table (`ScanInv`). The property is what is left when the scan is over.
  No assumption is made on how many scans there are.

### RecordsProofs

One invariant: `TypeOK`, `LeaseDatesOrdered`, and that a request that has
locked its row still has in `got` what is in the table (`RequestInv`).

- `TypeCorrect`, `DatesOrdered`: the merged dates were checked against the row as it
  still is.
- `EditsAnswered`, `AuditComplete`: what is answered and logged is compared with
  the row before and after the one step that writes it.
- `NoTenantMixed`.

### NotificationContactsProofs

One invariant for the specification (`IInv`): addresses are stored as
normalised, only contacts are suppressed, and what a request has read of its contact
is of its own tenant and address. Another with the history variable (`HInv`):
what a request is about to answer has been true while it ran.

- `TypeCorrect` (a contact has one suppression for a reason, no identifier comes
  twice), `AddressesApart`, `NoTenantMixed`.
- `RemovalsMeant`: the attempt to prove an earlier form of `RemovesWhatItFound`, that
  a request takes away the row it has found or one that came later, failed: the
  row deleted may have been found by one request after it had replaced what
  another one found. TLC shows it with three suppressions. The property now says
  what the code does, and *Disagreements* what that means for the audit log.
- `AnswersRecent`, `CreationsEndEnabled`.

### FrontendProofs

- `TypeCorrect`, `ListedOnce`, `OneSession` from one invariant (`TabInv`): an
  exchange under way belongs to the pending sign-in, storage and memory agree
  wherever a document can be, and requests under way when a document starts are
  of documents that are gone. A 401 therefore ends the session it was sent with.
- `LastSignInWorks`: the pending sign-in is the last one begun, unless spoilt or done.
- `ShownAsItIs`: about a contact that nothing has disturbed at most one request is
  under way (`ContactInv`); its answer, once it is served, is the contact as it is,
  and a page with no request about it shows it so. Loading is a request about
  all contacts, and an open page has at most one (`LoadInv`).

### DueDateProofs

For all years: `TypeCorrect`, `DueDatesRight` and
`NothingSkipped`. The lemmas follow the code: the clamped due date of a month is
a day of that month (`MonthDueDates`), four days after the 28th is the next
month (`Anchor`), so the due date found is this month's or the next one's
(`NextDueDates`); `Tomorrow` and `DayAfterDay` carry this from a day to the next.

### MigrationsProofs

For any number of runs. First the data, two lemmas for each revision. One: every
object is added by one revision (`Since`) and goes with none of a later one; the
downgrade drops what its upgrade has added, itself or with its table, and
nothing else. Hence an upgrade takes the schema of a revision to that of the next
(`UpgradesAdd`), a downgrade back to that of the one before (`DowngradesRestore`);
`pgcrypto` and the version table stay. The other (`Ordered`): what an object
belongs to or refers to is there before it, and what refers to it goes no later.
Hence each statement is possible in the schema of its revision with the
statements before it (`AddsPossible`, `DropsPossible`).

`TypeCorrect` and `SchemaAsRecorded` follow from one invariant (`IInv`):

- What a run sees is the schema of the revision it is at, with the statements of
  the script it is in (`Progress`).
- A run past the first revision it changes holds the version row, and what it has
  found there is still recorded (`Claims`); so no other can commit a change.
- An upgrade from nothing has no row to hold. Until it adds one, what it holds is
  its first table, `properties`, which no other can make meanwhile.
- No two runs hold the same lock (`Exclusive`).

`FailuresExplained`: a run that has met no other is the only one, and what it has
found is still recorded (`Alone`); while it is, everything the run does is possible
(`NothingInTheWay`). `HeadReached`, under the hypothesis that there is a run: as
long as no run of an event has committed, what each has found stands, so that
one fails only in a deadlock, which leaves the other active; once one has
committed, the head is recorded for good (`Heads`).

### Only model-checked

Liveness (`EveryDeliverySettles`, `RequestsAnswered`, `RunsEnd`): it depends on
fairness, which is out of the prover's reach. Every other property of the passing
runs is a theorem.

## Not modelled

Formatting of messages, metrics, logs and answers; configuration parsing (a
misconfigured backend answers 400 to everything). A disabled or misconfigured
worker, a feedback event without a known token, and a 404: nothing changes.
The dashboard, leases and properties pages: each has the load and the merged
answers of `NotificationsPage`, except that the last two prepend what they have
created without a look at the list, so that it may be listed twice if the load
is still under way. A repeated create after a lost answer makes a second
property or lease; nothing in the code says it should not.
The order of `audit_logs.created_at` is that of the starts of transactions, not
of their commits; nothing reads it.
`_tenant_transaction` opens a connection for each transaction, so that the
setting of one cannot reach another.
Suppressions by an actor other than SES
(`create_notification_contact_suppression` has no caller outside the tests).
Terraform, scripts, demo client and health check: declarative or run by hand.
In `EmailDelivery` and `LeaseReminders`, two transactions are interleaved as a whole: PostgreSQL's row locks
(`FOR UPDATE` on the lease and the delivery, key locks on referenced rows) make the
conflicting ones serial, and the one place where a transaction's own
statements see different states is an action (`DeleteDuringPreparation`).

## Plan

Done, in this order: `EmailDelivery` with its history and proofs;
`LeaseReminders`; `DueDate` and its proofs; `DeliveryContract` and the refinement;
`NotificationContacts`; `Records`; the frontend modules; the migrations; the
proofs of the refinement and of every safety property.

Left: the leases and properties pages, composed with `Records`. They have the load
and the merged answers of `NotificationsPage`, so that `Frontend`'s invariants about
requests under way carry over; what is new is that a created lease is prepended
while the load may still be under way.
