--------------------------- MODULE MigrationsProofs ---------------------------
(***************************************************************************)
(* Theorems about Migrations, for any number of runs.                      *)
(***************************************************************************)
EXTENDS Migrations, FiniteSetTheorems, SequenceTheorems, TLAPS

\* What some revision writes IF NOT EXISTS and none takes away.
Lasting == {"alembic_version", "pgcrypto"}

\* The names in the first k statements of a script.
First(script, k) == {script[i] : i \in 1..k}

\* What goes when the first k statements of a downgrade are executed.
Gone(script, k) == UNION {Parts[script[i]] : i \in 1..k}

-----------------------------------------------------------------------------
(* The revisions                                                           *)

\* The revision that adds an object.
Since(n) ==
    IF n = "alembic_version" THEN 0
    ELSE IF n \in {"pgcrypto", "properties", "ix_properties_tenant_id",
                   "ix_properties_tenant_created_at", "audit_logs",
                   "ix_audit_logs_tenant_created_at", "ix_audit_logs_tenant_entity"}
    THEN 1
    ELSE IF n \in {"uq_properties_tenant_property", "leases",
                   "ix_leases_tenant_created_at", "ix_leases_tenant_property"}
    THEN 2
    ELSE IF n \in {"rent_due_day_of_month", "ck_leases_rent_due_day_of_month"}
    THEN 3
    ELSE IF n \in {"uq_leases_tenant_lease", "notifications",
                   "ix_notifications_tenant_created_at",
                   "ix_notifications_tenant_type_due_date"}
    THEN 4
    ELSE IF n = "uq_notifications_tenant_lease_type_due_date" THEN 5
    ELSE IF n = "read_at" THEN 6
    ELSE IF n \in {"notification_contacts",
                   "uq_notification_contacts_tenant_email_lower",
                   "ix_notification_contacts_tenant_enabled"}
    THEN 7
    ELSE IF n \in {"uq_notifications_tenant_notification",
                   "uq_notification_contacts_tenant_contact",
                   "notification_email_deliveries",
                   "ix_notification_email_deliveries_tenant_status_attempts",
                   "ix_notification_email_deliveries_tenant_notification",
                   "ix_notification_email_deliveries_tenant_contact"}
    THEN 8
    ELSE IF n \in {"event_correlation_token", "event_correlation_token_not_null",
                   "uq_notification_email_deliveries_event_correlation_token"}
    THEN 9
    ELSE IF n \in {"notification_contact_suppressions",
                   "ix_notification_contact_suppressions_tenant_contact",
                   "ix_notification_contact_suppressions_tenant_reason"}
    THEN 10
    ELSE 11

\* An upgrade adds objects of its revision, which go with none of a later one.
UpFits(up, i) ==
    /\ Len(up) \in Nat /\ DOMAIN up = 1..Len(up)
    /\ \A k \in 1..Len(up) : /\ Since(up[k].name) = i
                             /\ \A m \in up[k].of : Since(m) <= i

\* A downgrade drops what the upgrade has added, or what that goes with.
DownFits(up, down, i) ==
    /\ Len(down) \in Nat
    /\ \A j \in 1..Len(down) : /\ Since(down[j]) = i
                               /\ \E k \in 1..Len(up) : up[k].name = down[j]
    /\ \A k \in 1..Len(up) :
          \/ up[k].name \in Lasting
          \/ \E j \in 1..Len(down) : down[j] \in {up[k].name} \cup up[k].of

Fits(revision, i) ==
    UpFits(revision.up, i) /\ DownFits(revision.up, revision.down, i)

LEMMA InitialTablesFits == Fits(InitialTables, 1)
<1>1. UpFits(InitialTables.up, 1)
  BY DEF UpFits, InitialTables, Table, On, Referring, Object, Since
<1>2. DownFits(InitialTables.up, InitialTables.down, 1)
  BY DEF DownFits, InitialTables, Table, On, Referring, Object, Since, Lasting
<1>3. QED
  BY <1>1, <1>2 DEF Fits

LEMMA AddLeasesFits == Fits(AddLeases, 2)
<1>1. UpFits(AddLeases.up, 2)
  BY DEF UpFits, AddLeases, Table, On, Referring, Object, Since
<1>2. DownFits(AddLeases.up, AddLeases.down, 2)
  BY DEF DownFits, AddLeases, Table, On, Referring, Object, Since, Lasting
<1>3. QED
  BY <1>1, <1>2 DEF Fits

LEMMA AddLeaseDueDayFits == Fits(AddLeaseDueDay, 3)
<1>1. UpFits(AddLeaseDueDay.up, 3)
  BY DEF UpFits, AddLeaseDueDay, Table, On, Referring, Object, Since
<1>2. DownFits(AddLeaseDueDay.up, AddLeaseDueDay.down, 3)
  BY DEF DownFits, AddLeaseDueDay, Table, On, Referring, Object, Since, Lasting
<1>3. QED
  BY <1>1, <1>2 DEF Fits

LEMMA AddNotificationsFits == Fits(AddNotifications, 4)
<1>1. UpFits(AddNotifications.up, 4)
  BY DEF UpFits, AddNotifications, Table, On, Referring, Object, Since
<1>2. DownFits(AddNotifications.up, AddNotifications.down, 4)
  BY DEF DownFits, AddNotifications, Table, On, Referring, Object, Since, Lasting
<1>3. QED
  BY <1>1, <1>2 DEF Fits

LEMMA AddNotificationDedupeFits == Fits(AddNotificationDedupe, 5)
<1>1. UpFits(AddNotificationDedupe.up, 5)
  BY DEF UpFits, AddNotificationDedupe, Table, On, Referring, Object, Since
<1>2. DownFits(AddNotificationDedupe.up, AddNotificationDedupe.down, 5)
  BY DEF DownFits, AddNotificationDedupe, Table, On, Referring, Object, Since, Lasting
<1>3. QED
  BY <1>1, <1>2 DEF Fits

LEMMA AddNotificationReadAtFits == Fits(AddNotificationReadAt, 6)
<1>1. UpFits(AddNotificationReadAt.up, 6)
  BY DEF UpFits, AddNotificationReadAt, Table, On, Referring, Object, Since
<1>2. DownFits(AddNotificationReadAt.up, AddNotificationReadAt.down, 6)
  BY DEF DownFits, AddNotificationReadAt, Table, On, Referring, Object, Since, Lasting
<1>3. QED
  BY <1>1, <1>2 DEF Fits

LEMMA AddNotificationContactsFits == Fits(AddNotificationContacts, 7)
<1>1. UpFits(AddNotificationContacts.up, 7)
  BY DEF UpFits, AddNotificationContacts, Table, On, Referring, Object, Since
<1>2. DownFits(AddNotificationContacts.up, AddNotificationContacts.down, 7)
  BY DEF DownFits, AddNotificationContacts, Table, On, Referring, Object, Since, Lasting
<1>3. QED
  BY <1>1, <1>2 DEF Fits

LEMMA AddEmailDeliveriesFits == Fits(AddEmailDeliveries, 8)
<1>1. /\ Since("uq_notifications_tenant_notification") = 8
      /\ Since("uq_notification_contacts_tenant_contact") = 8
      /\ Since("notification_email_deliveries") = 8
      /\ Since("ix_notification_email_deliveries_tenant_status_attempts") = 8
      /\ Since("ix_notification_email_deliveries_tenant_notification") = 8
      /\ Since("ix_notification_email_deliveries_tenant_contact") = 8
      /\ Since("notifications") = 4
      /\ Since("notification_contacts") = 7
  BY DEF Since
<1>2. UpFits(AddEmailDeliveries.up, 8)
  BY <1>1 DEF UpFits, AddEmailDeliveries, DeliveriesUp, Table, On, Referring, Object
<1>3. DownFits(AddEmailDeliveries.up, AddEmailDeliveries.down, 8)
  BY <1>1 DEF DownFits, AddEmailDeliveries, DeliveriesUp, Table, On, Referring, Object,
               Lasting
<1>4. QED
  BY <1>2, <1>3 DEF Fits

LEMMA AddEmailCorrelationFits == Fits(AddEmailCorrelation, 9)
<1>1. /\ Since("event_correlation_token") = 9
      /\ Since("event_correlation_token_not_null") = 9
      /\ Since("uq_notification_email_deliveries_event_correlation_token") = 9
      /\ Since("notification_email_deliveries") = 8
  BY DEF Since
<1>2. UpFits(AddEmailCorrelation.up, 9)
  BY <1>1 DEF UpFits, AddEmailCorrelation, Table, On, Referring, Object
<1>3. DownFits(AddEmailCorrelation.up, AddEmailCorrelation.down, 9)
  BY <1>1 DEF DownFits, AddEmailCorrelation, Table, On, Referring, Object, Lasting
<1>4. QED
  BY <1>2, <1>3 DEF Fits

LEMMA AddContactSuppressionsFits == Fits(AddContactSuppressions, 10)
<1>1. /\ Since("notification_contact_suppressions") = 10
      /\ Since("ix_notification_contact_suppressions_tenant_contact") = 10
      /\ Since("ix_notification_contact_suppressions_tenant_reason") = 10
  BY DEF Since
<1>2. UpFits(AddContactSuppressions.up, 10)
  BY <1>1 DEF UpFits, AddContactSuppressions, Table, On, Referring, Object
<1>3. DownFits(AddContactSuppressions.up, AddContactSuppressions.down, 10)
  BY <1>1 DEF DownFits, AddContactSuppressions, Table, On, Referring, Object, Lasting
<1>4. QED
  BY <1>2, <1>3 DEF Fits

LEMMA AddAuditLogsRLSFits == Fits(AddAuditLogsRLS, 11)
<1>1. /\ Since("audit_logs_rls") = 11
      /\ Since("audit_logs_forced_rls") = 11
      /\ Since("audit_logs_tenant_isolation") = 11
      /\ Since("audit_logs") = 1
  BY DEF Since
<1>2. UpFits(AddAuditLogsRLS.up, 11)
  BY <1>1 DEF UpFits, AddAuditLogsRLS, Table, On, Referring, Object
<1>3. DownFits(AddAuditLogsRLS.up, AddAuditLogsRLS.down, 11)
  BY <1>1 DEF DownFits, AddAuditLogsRLS, Table, On, Referring, Object, Lasting
<1>4. QED
  BY <1>2, <1>3 DEF Fits

LEMMA ManyRevisions == Newest = 11
BY DEF Newest, Revisions

LEMMA RevisionsFit == \A i \in 1..Newest : Fits(Revisions[i], i)
<1> SUFFICES ASSUME NEW i \in 1..Newest PROVE Fits(Revisions[i], i)
  OBVIOUS
<1>1. i = 1 => Fits(Revisions[i], i)
  BY InitialTablesFits DEF Revisions
<1>2. i = 2 => Fits(Revisions[i], i)
  BY AddLeasesFits DEF Revisions
<1>3. i = 3 => Fits(Revisions[i], i)
  BY AddLeaseDueDayFits DEF Revisions
<1>4. i = 4 => Fits(Revisions[i], i)
  BY AddNotificationsFits DEF Revisions
<1>5. i = 5 => Fits(Revisions[i], i)
  BY AddNotificationDedupeFits DEF Revisions
<1>6. i = 6 => Fits(Revisions[i], i)
  BY AddNotificationReadAtFits DEF Revisions
<1>7. i = 7 => Fits(Revisions[i], i)
  BY AddNotificationContactsFits DEF Revisions
<1>8. i = 8 => Fits(Revisions[i], i)
  BY AddEmailDeliveriesFits DEF Revisions
<1>9. i = 9 => Fits(Revisions[i], i)
  BY AddEmailCorrelationFits DEF Revisions
<1>10. i = 10 => Fits(Revisions[i], i)
  BY AddContactSuppressionsFits DEF Revisions
<1>11. i = 11 => Fits(Revisions[i], i)
  BY AddAuditLogsRLSFits DEF Revisions
<1>12. QED
  BY <1>1, <1>2, <1>3, <1>4, <1>5, <1>6, <1>7, <1>8, <1>9, <1>10, <1>11, ManyRevisions

-----------------------------------------------------------------------------
(* The order of statements                                                 *)

\* What later revisions add to or refer to.
Bases == {"properties", "audit_logs", "leases", "notifications",
          "notification_contacts", "notification_email_deliveries",
          "uq_notification_contacts_tenant_contact"}

\* No name is added twice, and what an object belongs to or refers to is there.
UpOrdered(up, i) ==
    \A k \in 1..Len(up) :
        /\ \A j \in 1..(k - 1) : up[j].name # up[k].name
        /\ \A m \in up[k].of \cup up[k].refs :
              /\ m \notin Lasting
              /\ \/ m \in Bases /\ Since(m) < i
                 \/ \E j \in 1..(k - 1) : up[j].name = m

\* Nothing is dropped that has gone before, and what refers to it goes no later.
DownOrdered(up, down) ==
    \A k \in 1..Len(down) :
        /\ down[k] \notin Lasting
        /\ \A a \in 1..Len(up) :
              up[a].name = down[k] =>
                  \A j \in 1..(k - 1) : down[j] \notin {up[a].name} \cup up[a].of
        /\ \A a \in 1..Len(up) : \A b \in 1..Len(up) :
              up[b].name \in up[a].refs /\ down[k] \in {up[b].name} \cup up[b].of =>
                  \E j \in 1..k : down[j] \in {up[a].name} \cup up[a].of

Ordered(revision, i) ==
    UpOrdered(revision.up, i) /\ DownOrdered(revision.up, revision.down)

LEMMA BasesSince ==
    /\ Since("properties") = 1 /\ Since("audit_logs") = 1 /\ Since("leases") = 2
    /\ Since("notifications") = 4 /\ Since("notification_contacts") = 7
    /\ Since("notification_email_deliveries") = 8
    /\ Since("uq_notification_contacts_tenant_contact") = 8
BY DEF Since

LEMMA InitialTablesOrdered == Ordered(InitialTables, 1)
<1>1. UpOrdered(InitialTables.up, 1)
  BY BasesSince DEF UpOrdered, InitialTables, Table, On, Referring, Object,
                    Lasting, Bases
<1>2. DownOrdered(InitialTables.up, InitialTables.down)
  BY DEF DownOrdered, InitialTables, Table, On, Referring, Object, Lasting
<1>3. QED
  BY <1>1, <1>2 DEF Ordered

LEMMA AddLeasesOrdered == Ordered(AddLeases, 2)
<1>1. UpOrdered(AddLeases.up, 2)
  BY BasesSince DEF UpOrdered, AddLeases, Table, On, Referring, Object,
                    Lasting, Bases
<1>2. DownOrdered(AddLeases.up, AddLeases.down)
  BY DEF DownOrdered, AddLeases, Table, On, Referring, Object, Lasting
<1>3. QED
  BY <1>1, <1>2 DEF Ordered

LEMMA AddLeaseDueDayOrdered == Ordered(AddLeaseDueDay, 3)
<1>1. UpOrdered(AddLeaseDueDay.up, 3)
  BY BasesSince DEF UpOrdered, AddLeaseDueDay, Table, On, Referring, Object,
                    Lasting, Bases
<1>2. DownOrdered(AddLeaseDueDay.up, AddLeaseDueDay.down)
  BY DEF DownOrdered, AddLeaseDueDay, Table, On, Referring, Object, Lasting
<1>3. QED
  BY <1>1, <1>2 DEF Ordered

LEMMA AddNotificationsOrdered == Ordered(AddNotifications, 4)
<1>1. UpOrdered(AddNotifications.up, 4)
  BY BasesSince DEF UpOrdered, AddNotifications, Table, On, Referring, Object,
                    Lasting, Bases
<1>2. DownOrdered(AddNotifications.up, AddNotifications.down)
  BY DEF DownOrdered, AddNotifications, Table, On, Referring, Object, Lasting
<1>3. QED
  BY <1>1, <1>2 DEF Ordered

LEMMA AddNotificationDedupeOrdered == Ordered(AddNotificationDedupe, 5)
<1>1. UpOrdered(AddNotificationDedupe.up, 5)
  BY BasesSince DEF UpOrdered, AddNotificationDedupe, Table, On, Referring, Object,
                    Lasting, Bases
<1>2. DownOrdered(AddNotificationDedupe.up, AddNotificationDedupe.down)
  BY DEF DownOrdered, AddNotificationDedupe, Table, On, Referring, Object, Lasting
<1>3. QED
  BY <1>1, <1>2 DEF Ordered

LEMMA AddNotificationReadAtOrdered == Ordered(AddNotificationReadAt, 6)
<1>1. UpOrdered(AddNotificationReadAt.up, 6)
  BY BasesSince DEF UpOrdered, AddNotificationReadAt, Table, On, Referring, Object,
                    Lasting, Bases
<1>2. DownOrdered(AddNotificationReadAt.up, AddNotificationReadAt.down)
  BY DEF DownOrdered, AddNotificationReadAt, Table, On, Referring, Object, Lasting
<1>3. QED
  BY <1>1, <1>2 DEF Ordered

LEMMA AddNotificationContactsOrdered == Ordered(AddNotificationContacts, 7)
<1>1. UpOrdered(AddNotificationContacts.up, 7)
  BY BasesSince DEF UpOrdered, AddNotificationContacts, Table, On, Referring, Object,
                    Lasting, Bases
<1>2. DownOrdered(AddNotificationContacts.up, AddNotificationContacts.down)
  BY DEF DownOrdered, AddNotificationContacts, Table, On, Referring, Object, Lasting
<1>3. QED
  BY <1>1, <1>2 DEF Ordered

LEMMA AddEmailDeliveriesOrdered == Ordered(AddEmailDeliveries, 8)
<1>1. UpOrdered(AddEmailDeliveries.up, 8)
  BY BasesSince DEF UpOrdered, AddEmailDeliveries, DeliveriesUp, Table, On, Referring,
                    Object, Lasting, Bases
<1>2. DownOrdered(AddEmailDeliveries.up, AddEmailDeliveries.down)
  BY DEF DownOrdered, AddEmailDeliveries, DeliveriesUp, Table, On, Referring, Object,
         Lasting
<1>3. QED
  BY <1>1, <1>2 DEF Ordered

LEMMA AddEmailCorrelationOrdered == Ordered(AddEmailCorrelation, 9)
<1>1. UpOrdered(AddEmailCorrelation.up, 9)
  BY BasesSince DEF UpOrdered, AddEmailCorrelation, Table, On, Referring, Object,
                    Lasting, Bases
<1>2. DownOrdered(AddEmailCorrelation.up, AddEmailCorrelation.down)
  BY DEF DownOrdered, AddEmailCorrelation, Table, On, Referring, Object, Lasting
<1>3. QED
  BY <1>1, <1>2 DEF Ordered

LEMMA AddContactSuppressionsOrdered == Ordered(AddContactSuppressions, 10)
<1>1. UpOrdered(AddContactSuppressions.up, 10)
  BY BasesSince DEF UpOrdered, AddContactSuppressions, Table, On, Referring, Object,
                    Lasting, Bases
<1>2. DownOrdered(AddContactSuppressions.up, AddContactSuppressions.down)
  BY DEF DownOrdered, AddContactSuppressions, Table, On, Referring, Object, Lasting
<1>3. QED
  BY <1>1, <1>2 DEF Ordered

LEMMA AddAuditLogsRLSOrdered == Ordered(AddAuditLogsRLS, 11)
<1>1. UpOrdered(AddAuditLogsRLS.up, 11)
  BY BasesSince DEF UpOrdered, AddAuditLogsRLS, Table, On, Referring, Object,
                    Lasting, Bases
<1>2. DownOrdered(AddAuditLogsRLS.up, AddAuditLogsRLS.down)
  BY DEF DownOrdered, AddAuditLogsRLS, Table, On, Referring, Object, Lasting
<1>3. QED
  BY <1>1, <1>2 DEF Ordered

LEMMA RevisionsOrdered == \A i \in 1..Newest : Ordered(Revisions[i], i)
<1> SUFFICES ASSUME NEW i \in 1..Newest PROVE Ordered(Revisions[i], i)
  OBVIOUS
<1>1. i = 1 => Ordered(Revisions[i], i)
  BY InitialTablesOrdered DEF Revisions
<1>2. i = 2 => Ordered(Revisions[i], i)
  BY AddLeasesOrdered DEF Revisions
<1>3. i = 3 => Ordered(Revisions[i], i)
  BY AddLeaseDueDayOrdered DEF Revisions
<1>4. i = 4 => Ordered(Revisions[i], i)
  BY AddNotificationsOrdered DEF Revisions
<1>5. i = 5 => Ordered(Revisions[i], i)
  BY AddNotificationDedupeOrdered DEF Revisions
<1>6. i = 6 => Ordered(Revisions[i], i)
  BY AddNotificationReadAtOrdered DEF Revisions
<1>7. i = 7 => Ordered(Revisions[i], i)
  BY AddNotificationContactsOrdered DEF Revisions
<1>8. i = 8 => Ordered(Revisions[i], i)
  BY AddEmailDeliveriesOrdered DEF Revisions
<1>9. i = 9 => Ordered(Revisions[i], i)
  BY AddEmailCorrelationOrdered DEF Revisions
<1>10. i = 10 => Ordered(Revisions[i], i)
  BY AddContactSuppressionsOrdered DEF Revisions
<1>11. i = 11 => Ordered(Revisions[i], i)
  BY AddAuditLogsRLSOrdered DEF Revisions
<1>12. QED
  BY <1>1, <1>2, <1>3, <1>4, <1>5, <1>6, <1>7, <1>8, <1>9, <1>10, <1>11, ManyRevisions

-----------------------------------------------------------------------------
(* What upgrades add and downgrades take away                              *)

\* The objects of a revision, by name.
AddedBy(i) == {Revisions[i].up[k].name : k \in 1..Len(Revisions[i].up)}

LEMMA RevisionFacts ==
    ASSUME NEW i \in 1..Newest
    PROVE  /\ Len(Revisions[i].up) \in Nat
           /\ DOMAIN Revisions[i].up = 1..Len(Revisions[i].up)
           /\ \A k \in 1..Len(Revisions[i].up) :
                 /\ Revisions[i].up[k] \in Catalog
                 /\ Revisions[i].up[k].name \in Names
                 /\ Since(Revisions[i].up[k].name) = i
                 /\ \A m \in Revisions[i].up[k].of : Since(m) <= i
<1>1. UpFits(Revisions[i].up, i)
  BY RevisionsFit DEF Fits
<1>2. DOMAIN Revisions = 1..Newest
  BY DEF Revisions, Newest
<1>3. ASSUME NEW k \in 1..Len(Revisions[i].up)
      PROVE  Revisions[i].up[k] \in Catalog /\ Revisions[i].up[k].name \in Names
  <2>1. Revisions[i].up[k] \in ToSet(Revisions[i].up)
    BY <1>1, <1>3 DEF UpFits, ToSet
  <2>2. Revisions[i].up[k] \in Catalog
    BY <1>2, <2>1 DEF Catalog
  <2>3. QED
    BY <2>2 DEF Names
<1>4. QED
  BY <1>1, <1>3 DEF UpFits

\* The entry of an object in the catalog is that of the revision that adds it.
LEMMA ObjectOf ==
    ASSUME NEW n \in Names, Since(n) # 0
    PROVE  /\ Since(n) \in 1..Newest
           /\ \E k \in 1..Len(Revisions[Since(n)].up) :
                 /\ Revisions[Since(n)].up[k].name = n
                 /\ Revisions[Since(n)].up[k].of = Of[n]
<1>1. \E o \in Catalog : o.name = n
  BY DEF Names
<1>2. PICK o \in Catalog : o.name = n /\ o.of = Of[n]
  BY <1>1 DEF Of
<1>3. o # VersionTable
  BY <1>2 DEF VersionTable, Table, Object, Since
<1>4. PICK i \in 1..Newest : o \in ToSet(Revisions[i].up)
  <2>1. DOMAIN Revisions = 1..Newest
    BY DEF Revisions, Newest
  <2>2. QED
    BY <1>2, <1>3, <2>1 DEF Catalog
<1>5. PICK k \in 1..Len(Revisions[i].up) : o = Revisions[i].up[k]
  BY <1>4, RevisionFacts DEF ToSet
<1>6. Since(n) = i
  BY <1>2, <1>5, RevisionFacts
<1>7. QED
  BY <1>2, <1>5, <1>6

LEMMA SchemaAtIs ==
    ASSUME NEW v \in 0..Newest
    PROVE  SchemaAt[v] = UNION {AddedBy(i) : i \in 1..v}
<1>1. \A i \in 1..v : i \in 1..Newest
  BY ManyRevisions
<1>2. \A i \in 1..v : {o.name : o \in ToSet(Revisions[i].up)} = AddedBy(i)
  BY <1>1, RevisionFacts DEF ToSet, AddedBy
<1>3. SchemaAt[v] = UNION {{o.name : o \in ToSet(Revisions[i].up)} : i \in 1..v}
  BY DEF SchemaAt
<1>4. QED
  BY <1>2, <1>3

LEMMA VersionTableNamed == "alembic_version" \in Names
<1>1. VersionTable \in Catalog
  BY DEF Catalog
<1>2. VersionTable.name = "alembic_version"
  BY DEF VersionTable, Table, Object
<1>3. QED
  BY <1>1, <1>2 DEF Names

\* Before the statements of a revision the first upgrade makes the version table.
Before(v) == IF v = 0 THEN 1 ELSE 0

LEMMA UpgradeStatements ==
    ASSUME NEW v \in 0..(Newest - 1)
    PROVE  /\ Len(UpgradeFrom[v]) = Before(v) + Len(Revisions[v + 1].up)
           /\ Before(v) \in Nat /\ Len(Revisions[v + 1].up) \in Nat
           /\ Len(UpgradeFrom[v]) \in Nat
           /\ \A i \in 1..Len(UpgradeFrom[v]) :
                 \/ i <= Before(v) /\ UpgradeFrom[v][i] = "alembic_version"
                 \/ /\ i - Before(v) \in 1..Len(Revisions[v + 1].up)
                    /\ UpgradeFrom[v][i] = Revisions[v + 1].up[i - Before(v)].name
<1> DEFINE head == IF v = 0 THEN <<"alembic_version">> ELSE << >>
           up == Revisions[v + 1].up
           rest == [i \in DOMAIN up |-> up[i].name]
<1>1. v + 1 \in 1..Newest
  BY ManyRevisions
<1>2. UpgradeFrom[v] = head \o rest
  BY DEF UpgradeFrom
<1>3. /\ head \in Seq(Names) /\ Len(head) = Before(v)
      /\ \A i \in 1..Len(head) : head[i] = "alembic_version"
  BY VersionTableNamed DEF Before
<1>4. /\ rest \in Seq(Names) /\ Len(rest) = Len(up)
      /\ \A i \in 1..Len(rest) : rest[i] = up[i].name
  <2>1. /\ Len(up) \in Nat /\ DOMAIN up = 1..Len(up)
        /\ \A k \in 1..Len(up) : up[k].name \in Names
    BY <1>1, RevisionFacts
  <2>2. rest = [i \in 1..Len(up) |-> up[i].name]
    BY <2>1
  <2> HIDE DEF up, rest
  <2>3. rest \in [1..Len(up) -> Names]
    BY <2>1, <2>2
  <2>4. rest \in Seq(Names) /\ Len(rest) = Len(up)
    BY <2>1, <2>3
  <2>5. QED
    BY <2>2, <2>4
<1> HIDE DEF head, rest
<1>5. Before(v) \in Nat /\ Len(up) \in Nat
  BY <1>1, RevisionFacts DEF Before
<1>6. /\ Len(head \o rest) = Len(head) + Len(rest)
      /\ \A i \in 1..(Len(head) + Len(rest)) :
            (head \o rest)[i] = IF i <= Len(head) THEN head[i]
                                ELSE rest[i - Len(head)]
  <2>1. head \in Seq(Names) /\ rest \in Seq(Names)
    BY <1>3, <1>4
  <2>2. QED
    BY <2>1, ConcatProperties
<1>7. Len(UpgradeFrom[v]) = Before(v) + Len(up)
  BY <1>2, <1>3, <1>4, <1>6
<1>8. ASSUME NEW i \in 1..(Before(v) + Len(up)), i <= Before(v)
      PROVE  UpgradeFrom[v][i] = "alembic_version"
  BY <1>2, <1>3, <1>4, <1>5, <1>6, <1>8
<1>9. ASSUME NEW i \in 1..(Before(v) + Len(up)), ~(i <= Before(v))
      PROVE  i - Before(v) \in 1..Len(up) /\ UpgradeFrom[v][i] = up[i - Before(v)].name
  <2>1. i - Before(v) \in 1..Len(up)
    BY <1>5, <1>9
  <2>2. QED
    BY <1>2, <1>3, <1>4, <1>5, <1>6, <1>9, <2>1
<1>10. ASSUME NEW i \in 1..Len(UpgradeFrom[v])
       PROVE  \/ i <= Before(v) /\ UpgradeFrom[v][i] = "alembic_version"
              \/ /\ i - Before(v) \in 1..Len(up)
                 /\ UpgradeFrom[v][i] = up[i - Before(v)].name
  BY <1>7, <1>8, <1>9
<1>11. Len(UpgradeFrom[v]) \in Nat
  BY <1>5, <1>7
<1>12. QED
  BY <1>5, <1>7, <1>10, <1>11

LEMMA UpgradesAdd ==
    \A v \in 0..(Newest - 1) :
        /\ Len(UpgradeFrom[v]) \in Nat
        /\ \A i \in 1..Len(UpgradeFrom[v]) : UpgradeFrom[v][i] \in Names
        /\ SchemaAt[v + 1] \ Lasting
              = (SchemaAt[v] \cup First(UpgradeFrom[v], Len(UpgradeFrom[v]))) \ Lasting
<1> SUFFICES ASSUME NEW v \in 0..(Newest - 1)
             PROVE  /\ Len(UpgradeFrom[v]) \in Nat
                    /\ \A i \in 1..Len(UpgradeFrom[v]) : UpgradeFrom[v][i] \in Names
                    /\ SchemaAt[v + 1] \ Lasting
                          = (SchemaAt[v] \cup First(UpgradeFrom[v],
                                                    Len(UpgradeFrom[v]))) \ Lasting
  OBVIOUS
<1> DEFINE script == UpgradeFrom[v]
           up == Revisions[v + 1].up
           h == Before(v)
<1>1. v \in 0..Newest /\ v + 1 \in 1..Newest /\ v + 1 \in 0..Newest
  BY ManyRevisions
<1>2. /\ Len(script) = h + Len(up) /\ h \in Nat /\ Len(up) \in Nat
      /\ \A i \in 1..Len(script) :
            \/ i <= h /\ script[i] = "alembic_version"
            \/ i - h \in 1..Len(up) /\ script[i] = up[i - h].name
  BY UpgradeStatements
<1>3. Len(script) \in Nat /\ \A i \in 1..Len(script) : script[i] \in Names
  <2>1. \A k \in 1..Len(up) : up[k].name \in Names
    BY <1>1, RevisionFacts
  <2> HIDE DEF script, up, h
  <2>2. QED
    BY <1>2, <2>1, VersionTableNamed
<1>4. AddedBy(v + 1) = {up[k].name : k \in 1..Len(up)}
  BY DEF AddedBy
<1> HIDE DEF script, up, h
<1>5. First(script, Len(script)) \ Lasting = AddedBy(v + 1) \ Lasting
  <2>1. ASSUME NEW i \in 1..Len(script), script[i] \notin Lasting
        PROVE  script[i] \in AddedBy(v + 1)
    BY <1>2, <1>4, <2>1 DEF Lasting
  <2>2. ASSUME NEW k \in 1..Len(up)
        PROVE  up[k].name \in First(script, Len(script))
    <3> DEFINE i == k + h
    <3>1. i \in 1..Len(script) /\ ~(i <= h) /\ i - h = k
      BY <1>2
    <3> HIDE DEF i
    <3>2. script[i] = up[k].name
      BY <1>2, <3>1
    <3>3. QED
      BY <3>1, <3>2 DEF First
  <2>3. QED
    BY <1>4, <2>1, <2>2 DEF First
<1>6. SchemaAt[v + 1] = SchemaAt[v] \cup AddedBy(v + 1)
  <2>1. 1..(v + 1) = (1..v) \cup {v + 1}
    OBVIOUS
  <2>2. QED
    BY <1>1, <2>1, SchemaAtIs
<1>7. QED
  BY <1>3, <1>5, <1>6 DEF script

LEMMA DowngradesRestore ==
    \A v \in 1..Newest :
        /\ Len(DowngradeFrom[v]) \in Nat
        /\ \A i \in 1..Len(DowngradeFrom[v]) : DowngradeFrom[v][i] \in Names
        /\ (SchemaAt[v] \ Gone(DowngradeFrom[v], Len(DowngradeFrom[v]))) \ Lasting
              = SchemaAt[v - 1] \ Lasting
<1> SUFFICES ASSUME NEW v \in 1..Newest
             PROVE  /\ Len(DowngradeFrom[v]) \in Nat
                    /\ \A i \in 1..Len(DowngradeFrom[v]) : DowngradeFrom[v][i] \in Names
                    /\ (SchemaAt[v] \ Gone(DowngradeFrom[v],
                                           Len(DowngradeFrom[v]))) \ Lasting
                          = SchemaAt[v - 1] \ Lasting
  OBVIOUS
<1> DEFINE up == Revisions[v].up
           down == Revisions[v].down
<1>1. DowngradeFrom[v] = down
  BY DEF DowngradeFrom
<1>2. DownFits(up, down, v)
  BY RevisionsFit DEF Fits
<1>3. Len(down) \in Nat /\ \A j \in 1..Len(down) : down[j] \in Names /\ Since(down[j]) = v
  BY <1>2, RevisionFacts DEF DownFits
<1>4. v \in 0..Newest /\ v - 1 \in 0..Newest /\ 1..v = (1..(v - 1)) \cup {v}
  BY ManyRevisions
<1>5. /\ SchemaAt[v] = SchemaAt[v - 1] \cup AddedBy(v)
      /\ SchemaAt[v - 1] = UNION {AddedBy(i) : i \in 1..(v - 1)}
  BY <1>4, SchemaAtIs
<1>6. \A n \in Names : n \in Gone(down, Len(down))
          <=> \E j \in 1..Len(down) : n = down[j] \/ down[j] \in Of[n]
  <2>1. ASSUME NEW j \in 1..Len(down)
        PROVE  Parts[down[j]] = {m \in Names : m = down[j] \/ down[j] \in Of[m]}
    BY <1>3, <2>1 DEF Parts
  <2>2. \A n : n \in Gone(down, Len(down))
          <=> \E j \in 1..Len(down) : n \in Parts[down[j]]
    BY DEF Gone
  <2> HIDE DEF down
  <2>3. QED
    BY <2>1, <2>2
<1>7. ASSUME NEW n \in AddedBy(v), n \notin Lasting
      PROVE  n \in Gone(down, Len(down))
  <2>1. n \in Names /\ Since(n) = v
    BY RevisionFacts DEF AddedBy
  <2>2. PICK k \in 1..Len(up) : up[k].name = n /\ up[k].of = Of[n]
    BY <2>1, ManyRevisions, ObjectOf
  <2>3. PICK j \in 1..Len(down) : down[j] \in {up[k].name} \cup up[k].of
    BY <1>2, <1>7, <2>2 DEF DownFits
  <2>4. QED
    BY <1>6, <2>1, <2>2, <2>3
<1>8. ASSUME NEW n \in SchemaAt[v - 1]
      PROVE  n \notin Gone(down, Len(down))
  <2>1. PICK i \in 1..(v - 1) : n \in AddedBy(i)
    BY <1>5
  <2>2. i \in 1..Newest /\ i # 0 /\ i < v
    BY ManyRevisions
  <2>3. n \in Names /\ Since(n) = i
    BY <2>1, <2>2, RevisionFacts DEF AddedBy
  <2>4. PICK k \in 1..Len(Revisions[i].up) :
            Revisions[i].up[k].name = n /\ Revisions[i].up[k].of = Of[n]
    BY <2>2, <2>3, ObjectOf
  <2>5. \A m \in Of[n] : Since(m) <= i
    BY <2>2, <2>4, RevisionFacts
  <2>6. \A j \in 1..Len(down) : n # down[j] /\ down[j] \notin Of[n]
    BY <1>3, <2>2, <2>3, <2>5
  <2>7. QED
    BY <1>6, <2>3, <2>6
<1>9. QED
  BY <1>1, <1>3, <1>5, <1>7, <1>8

\* No upgrade from nothing gets past the third statement where there is a schema.
LEMMA FirstTable ==
    /\ UpgradeFrom[0][3] = "properties" /\ Len(UpgradeFrom[0]) >= 3
    /\ "properties" \notin IfNotExists \cup Lasting
    /\ SchemaAt[0] = {}
    /\ \A v \in 1..Newest : "properties" \in SchemaAt[v]
<1> DEFINE up == InitialTables.up
           rest == [i \in DOMAIN up |-> up[i].name]
<1>1. /\ DOMAIN up = 1..7 /\ Len(up) = 7
      /\ up[2].name = "properties"
  BY DEF InitialTables, Table, On, Object
<1>2. UpgradeFrom[0] = <<"alembic_version">> \o rest
  BY ManyRevisions DEF UpgradeFrom, Revisions
<1>3. rest \in Seq(Names) /\ Len(rest) = 7 /\ rest[2] = "properties"
  <2>1. up = Revisions[1].up /\ 1 \in 1..Newest
    BY ManyRevisions DEF Revisions
  <2>2. \A k \in 1..7 : up[k].name \in Names
    BY <1>1, <2>1, RevisionFacts
  <2>3. QED
    BY <1>1, <2>2
<1>4. <<"alembic_version">> \in Seq(Names) /\ Len(<<"alembic_version">>) = 1
  BY VersionTableNamed
<1> HIDE DEF rest, up
<1>5. UpgradeFrom[0][3] = "properties" /\ Len(UpgradeFrom[0]) >= 3
  BY <1>2, <1>3, <1>4, ConcatProperties
<1>6. "properties" \notin IfNotExists \cup Lasting
  BY DEF IfNotExists, Lasting
<1>7. SchemaAt[0] = {}
  <2>1. 0 \in 0..Newest /\ 1..0 = {}
    BY ManyRevisions
  <2>2. QED
    BY <2>1, SchemaAtIs
<1>8. ASSUME NEW v \in 1..Newest PROVE "properties" \in SchemaAt[v]
  <2>1. v \in 0..Newest /\ 1 \in 1..v
    BY ManyRevisions
  <2>2. "properties" \in AddedBy(1)
    BY <1>1 DEF AddedBy, Revisions, up
  <2>3. QED
    BY <2>1, <2>2, SchemaAtIs
<1>9. QED
  BY <1>5, <1>6, <1>7, <1>8

LEMMA NamesOfAll ==
    /\ "alembic_version" \in Names
    /\ \A v \in 0..Newest :
          SchemaAt[v] \subseteq Names /\ "alembic_version" \notin SchemaAt[v]
<1>1. "alembic_version" \in Names
  BY VersionTableNamed
<1>2. ASSUME NEW v \in 0..Newest
      PROVE  SchemaAt[v] \subseteq Names /\ "alembic_version" \notin SchemaAt[v]
  <2>1. ASSUME NEW i \in 1..v
        PROVE  AddedBy(i) \subseteq Names /\ "alembic_version" \notin AddedBy(i)
    <3>1. i \in 1..Newest /\ i # 0
      BY ManyRevisions
    <3>2. Since("alembic_version") = 0
      BY DEF Since
    <3>3. QED
      BY <3>1, <3>2, RevisionFacts DEF AddedBy
  <2>2. QED
    BY <2>1, SchemaAtIs
<1>3. QED
  BY <1>1, <1>2

-----------------------------------------------------------------------------
(* Every statement is possible at its place                                *)

\* The catalog has one entry for a name.
LEMMA OneEntry ==
    ASSUME NEW i \in 1..Newest, NEW k \in 1..Len(Revisions[i].up)
    PROVE  /\ Of[Revisions[i].up[k].name] = Revisions[i].up[k].of
           /\ Refs[Revisions[i].up[k].name] = Revisions[i].up[k].refs
<1> DEFINE e == Revisions[i].up[k]
<1>1. e \in Catalog /\ e.name \in Names /\ Since(e.name) = i /\ i # 0
  <2>1. e \in Catalog /\ e.name \in Names /\ Since(e.name) = i
    BY RevisionFacts
  <2>2. QED
    BY <2>1
<1>2. ASSUME NEW o \in Catalog, o.name = e.name PROVE o = e
  <2>1. o # VersionTable
    BY <1>1, <1>2 DEF VersionTable, Table, Object, Since
  <2>2. PICK j \in 1..Newest : o \in ToSet(Revisions[j].up)
    <3>1. DOMAIN Revisions = 1..Newest
      BY DEF Revisions, Newest
    <3>2. QED
      BY <2>1, <3>1 DEF Catalog
  <2>3. PICK m \in 1..Len(Revisions[j].up) : o = Revisions[j].up[m]
    BY <2>2, RevisionFacts DEF ToSet
  <2>4. j = i
    BY <1>1, <1>2, <2>3, RevisionFacts
  <2>5. UpOrdered(Revisions[i].up, i) /\ Len(Revisions[i].up) \in Nat
    BY RevisionsOrdered, RevisionFacts DEF Ordered
  <2>6. ~(m < k) /\ ~(k < m)
    <3>1. m < k => m \in 1..(k - 1)
      BY <2>3, <2>4, <2>5
    <3>2. k < m => k \in 1..(m - 1)
      BY <2>3, <2>4, <2>5
    <3>3. QED
      BY <1>2, <2>3, <2>4, <2>5, <3>1, <3>2 DEF UpOrdered
  <2>7. m = k
    BY <2>3, <2>4, <2>5, <2>6
  <2>8. QED
    BY <2>3, <2>4, <2>7
<1> HIDE DEF e
<1>3. (CHOOSE o \in Catalog : o.name = e.name) = e
  BY <1>1, <1>2
<1>4. Of[e.name] = e.of /\ Refs[e.name] = e.refs
  BY <1>1, <1>3 DEF Of, Refs
<1>5. QED
  BY <1>4 DEF e

LEMMA VersionTableEntry == Of["alembic_version"] = {} /\ Refs["alembic_version"] = {}
<1>1. VersionTable \in Catalog /\ VersionTable.name = "alembic_version"
      /\ VersionTable.of = {} /\ VersionTable.refs = {}
  BY DEF Catalog, VersionTable, Table, Object
<1>2. ASSUME NEW o \in Catalog, o.name = "alembic_version" PROVE o = VersionTable
  <2>1. ASSUME NEW j \in 1..Newest, o \in ToSet(Revisions[j].up) PROVE FALSE
    <3>1. PICK m \in 1..Len(Revisions[j].up) : o = Revisions[j].up[m]
      BY <2>1, RevisionFacts DEF ToSet
    <3>2. Since("alembic_version") = j
      BY <1>2, <3>1, RevisionFacts
    <3>3. QED
      BY <3>2, ManyRevisions DEF Since
  <2>2. DOMAIN Revisions = 1..Newest
    BY DEF Revisions, Newest
  <2>3. QED
    BY <2>1, <2>2 DEF Catalog
<1>3. (CHOOSE o \in Catalog : o.name = "alembic_version") = VersionTable
  BY <1>1, <1>2
<1>4. QED
  BY <1>1, <1>3, VersionTableNamed DEF Of, Refs

\* An object is in the schema of every revision since the one that adds it.
LEMMA SchemaHolds ==
    ASSUME NEW v \in 0..Newest, NEW n \in Names
    PROVE  n \in SchemaAt[v] <=> Since(n) \in 1..v
<1>1. ASSUME Since(n) \in 1..v PROVE n \in SchemaAt[v]
  <2>1. Since(n) # 0 /\ Since(n) \in 1..Newest
    BY <1>1, ManyRevisions
  <2>2. n \in AddedBy(Since(n))
    BY <2>1, ObjectOf DEF AddedBy
  <2>3. QED
    BY <1>1, <2>2, SchemaAtIs
<1>2. ASSUME n \in SchemaAt[v] PROVE Since(n) \in 1..v
  <2>1. PICK i \in 1..v : n \in AddedBy(i)
    BY <1>2, SchemaAtIs
  <2>2. i \in 1..Newest
    BY ManyRevisions
  <2>3. Since(n) = i
    BY <2>1, <2>2, RevisionFacts DEF AddedBy
  <2>4. QED
    BY <2>3
<1>3. QED
  BY <1>1, <1>2

LEMMA BasesNamed == Bases \subseteq Names
<1>1. "properties" \in Names
  <2>1. Len(Revisions[1].up) = 7 /\ Revisions[1].up[2].name = "properties"
    BY DEF Revisions, InitialTables, Table, On, Object
  <2>2. 1 \in 1..Newest
    BY ManyRevisions
  <2>3. 2 \in 1..Len(Revisions[1].up)
    BY <2>1
  <2>4. QED
    BY <2>1, <2>2, <2>3, RevisionFacts
<1>2. "audit_logs" \in Names
  <2>1. Len(Revisions[1].up) = 7 /\ Revisions[1].up[5].name = "audit_logs"
    BY DEF Revisions, InitialTables, Table, On, Object
  <2>2. 1 \in 1..Newest
    BY ManyRevisions
  <2>3. 5 \in 1..Len(Revisions[1].up)
    BY <2>1
  <2>4. QED
    BY <2>1, <2>2, <2>3, RevisionFacts
<1>3. "leases" \in Names
  <2>1. Len(Revisions[2].up) = 4 /\ Revisions[2].up[2].name = "leases"
    BY DEF Revisions, AddLeases, Table, On, Object, Referring
  <2>2. 2 \in 1..Newest
    BY ManyRevisions
  <2>3. 2 \in 1..Len(Revisions[2].up)
    BY <2>1
  <2>4. QED
    BY <2>1, <2>2, <2>3, RevisionFacts
<1>4. "notifications" \in Names
  <2>1. Len(Revisions[4].up) = 4 /\ Revisions[4].up[2].name = "notifications"
    BY DEF Revisions, AddNotifications, Table, On, Object, Referring
  <2>2. 4 \in 1..Newest
    BY ManyRevisions
  <2>3. 2 \in 1..Len(Revisions[4].up)
    BY <2>1
  <2>4. QED
    BY <2>1, <2>2, <2>3, RevisionFacts
<1>5. "notification_contacts" \in Names
  <2>1. Len(Revisions[7].up) = 3 /\ Revisions[7].up[1].name = "notification_contacts"
    BY DEF Revisions, AddNotificationContacts, Table, On, Object
  <2>2. 7 \in 1..Newest
    BY ManyRevisions
  <2>3. 1 \in 1..Len(Revisions[7].up)
    BY <2>1
  <2>4. QED
    BY <2>1, <2>2, <2>3, RevisionFacts
<1>6. /\ "notification_email_deliveries" \in Names
      /\ "uq_notification_contacts_tenant_contact" \in Names
  <2>1. /\ Len(Revisions[8].up) = 6
        /\ Revisions[8].up[3].name = "notification_email_deliveries"
        /\ Revisions[8].up[2].name = "uq_notification_contacts_tenant_contact"
    BY DEF Revisions, AddEmailDeliveries, DeliveriesUp, Table, On, Object, Referring
  <2>2. 8 \in 1..Newest
    BY ManyRevisions
  <2>3. 3 \in 1..Len(Revisions[8].up) /\ 2 \in 1..Len(Revisions[8].up)
    BY <2>1
  <2>4. QED
    BY <2>1, <2>2, <2>3, RevisionFacts
<1>7. QED
  BY <1>1, <1>2, <1>3, <1>4, <1>5, <1>6 DEF Bases

LEMMA AddsPossible ==
    ASSUME NEW v \in 0..(Newest - 1), NEW k \in 1..Len(UpgradeFrom[v]), NEW s,
           s \ Lasting = (SchemaAt[v] \cup First(UpgradeFrom[v], k - 1)) \ Lasting
    PROVE  CanAdd(s, UpgradeFrom[v][k])
<1> DEFINE n == UpgradeFrom[v][k]
           up == Revisions[v + 1].up
           h == Before(v)
<1>1. /\ v \in 0..Newest /\ v + 1 \in 1..Newest /\ v \in Nat /\ k \in Nat
      /\ h \in Nat /\ Len(up) \in Nat /\ Len(UpgradeFrom[v]) = h + Len(up)
  <2>1. v \in 0..Newest /\ v + 1 \in 1..Newest /\ v \in Nat
    BY ManyRevisions
  <2>2. h \in Nat /\ Len(up) \in Nat /\ Len(UpgradeFrom[v]) = h + Len(up)
    BY UpgradeStatements
  <2>3. k \in Nat
    OBVIOUS
  <2>4. QED
    BY <2>1, <2>2, <2>3
<1>2. UpOrdered(up, v + 1)
  BY <1>1, RevisionsOrdered DEF Ordered
<1>3. CASE n = "alembic_version"
  BY <1>3, VersionTableEntry DEF CanAdd, IfNotExists
<1>4. CASE n # "alembic_version"
  <2> DEFINE j == k - h
  <2>1. j \in 1..Len(up) /\ n = up[j].name
    BY <1>4, UpgradeStatements
  <2>2. n \in Names /\ Since(n) = v + 1 /\ Of[n] = up[j].of /\ Refs[n] = up[j].refs
    BY <1>1, <2>1, RevisionFacts, OneEntry
  <2>3. ASSUME n \in s, n \notin Lasting PROVE FALSE
    <3>1. n \notin SchemaAt[v]
      BY <1>1, <2>2, SchemaHolds
    <3>2. PICK m \in 1..(k - 1) : n = UpgradeFrom[v][m]
      BY <2>3, <3>1 DEF First
    <3>3. m \in 1..Len(UpgradeFrom[v])
      BY <1>1
    <3>4. m - h \in 1..Len(up) /\ n = up[m - h].name
      BY <1>4, <3>2, <3>3, UpgradeStatements
    <3>5. m - h \in 1..(j - 1)
      BY <1>1, <3>4
    <3>6. QED
      BY <1>2, <2>1, <3>4, <3>5 DEF UpOrdered
  <2>4. ASSUME NEW m \in Of[n] \cup Refs[n] PROVE m \in s
    <3>1. /\ m \notin Lasting
          /\ \/ m \in Bases /\ Since(m) < v + 1
             \/ \E b \in 1..(j - 1) : up[b].name = m
      BY <1>2, <2>1, <2>2 DEF UpOrdered
    <3>2. CASE m \in Bases /\ Since(m) < v + 1
      <4>1. Since(m) \in 1..v
        BY <1>1, <3>2, BasesSince DEF Bases
      <4>2. m \in SchemaAt[v]
        BY <1>1, <3>2, <4>1, BasesNamed, SchemaHolds
      <4>3. QED
        BY <3>1, <4>2
    <3>3. CASE \E b \in 1..(j - 1) : up[b].name = m
      <4>1. PICK b \in 1..(j - 1) : up[b].name = m
        BY <3>3
      <4> DEFINE x == b + h
      <4>2. x \in 1..(k - 1) /\ x \in 1..Len(UpgradeFrom[v]) /\ ~(x <= h) /\ x - h = b
        <5>1. b \in Nat /\ b >= 1 /\ b < j /\ j \in Nat /\ j <= Len(up) /\ k = j + h
          BY <1>1, <2>1
        <5> HIDE DEF h, j, up
        <5>2. QED
          BY <1>1, <5>1
      <4> HIDE DEF x
      <4>3. UpgradeFrom[v][x] = m
        BY <4>1, <4>2, UpgradeStatements
      <4>4. QED
        BY <3>1, <4>2, <4>3 DEF First
    <3>4. QED
      BY <3>1, <3>2, <3>3
  <2>5. Lasting \subseteq IfNotExists
    BY DEF Lasting, IfNotExists
  <2>6. QED
    BY <2>3, <2>4, <2>5 DEF CanAdd
<1>5. QED
  BY <1>3, <1>4

LEMMA DropsPossible ==
    ASSUME NEW v \in 1..Newest, NEW k \in 1..Len(DowngradeFrom[v]), NEW s,
           s \ Lasting = (SchemaAt[v] \ Gone(DowngradeFrom[v], k - 1)) \ Lasting
    PROVE  CanDrop(s, DowngradeFrom[v][k])
<1> DEFINE up == Revisions[v].up
           down == Revisions[v].down
           n == down[k]
<1>1. DowngradeFrom[v] = down
  BY DEF DowngradeFrom
<1>2. DownFits(up, down, v) /\ DownOrdered(up, down)
  BY RevisionsFit, RevisionsOrdered DEF Fits, Ordered
<1>3. v \in 0..Newest /\ v \in Nat /\ k \in 1..Len(down) /\ Len(down) \in Nat /\ k \in Nat
  BY <1>1, <1>2, ManyRevisions DEF DownFits
<1>4. \A j \in 1..k : down[j] \in Names /\ Since(down[j]) = v
  <2>1. \A j \in 1..k : j \in 1..Len(down)
    BY <1>3
  <2>2. QED
    BY <1>2, <2>1, RevisionFacts DEF DownFits
<1>5. k \in 1..k
  BY <1>3
<1>6. \A j \in 1..k : Parts[down[j]] = {m \in Names : m = down[j] \/ down[j] \in Of[m]}
  BY <1>4 DEF Parts
<1>7. \A j \in 1..(k - 1) : j \in 1..k /\ Parts[down[j]] \subseteq Gone(down, k - 1)
  BY <1>3 DEF Gone
<1>8. n \in s
  <2>1. n \in SchemaAt[v] /\ n \notin Lasting
    BY <1>2, <1>3, <1>4, <1>5, SchemaHolds DEF DownOrdered
  <2>2. PICK a \in 1..Len(up) : up[a].name = n
    BY <1>2, <1>3 DEF DownFits
  <2>3. Of[n] = up[a].of
    BY <2>2, OneEntry
  <2>4. ASSUME NEW j \in 1..(k - 1) PROVE n \notin Parts[down[j]]
    <3>1. down[j] # n /\ down[j] \notin Of[n]
      BY <1>2, <1>3, <2>2, <2>3 DEF DownOrdered
    <3>2. QED
      BY <1>6, <1>7, <3>1
  <2>5. n \notin Gone(down, k - 1)
    BY <2>4 DEF Gone
  <2>6. QED
    BY <1>1, <2>1, <2>5
<1>9. ASSUME NEW m \in Referrers[n], m \in s PROVE FALSE
  <2>1. m \in Names /\ m \notin Parts[n] /\ Refs[m] \cap Parts[n] # {}
    BY <1>4, <1>5, <1>9 DEF Referrers
  <2>2. PICK c : c \in Refs[m] /\ c \in Parts[n]
    BY <2>1
  <2>3. c \in Names /\ (c = n \/ n \in Of[c])
    BY <1>5, <1>6, <2>2
  <2>4. m \notin Lasting
    <3>1. Refs["pgcrypto"] = {}
      <4>1. Len(Revisions[1].up) = 7 /\ Revisions[1].up[1].name = "pgcrypto"
            /\ Revisions[1].up[1].refs = {}
        BY DEF Revisions, InitialTables, Table, Object
      <4>2. 1 \in 1..Newest /\ 1 \in 1..Len(Revisions[1].up)
        BY <4>1, ManyRevisions
      <4>3. QED
        BY <4>1, <4>2, OneEntry
    <3>2. QED
      BY <2>2, <3>1, VersionTableEntry DEF Lasting
  <2>5. m \in SchemaAt[v] /\ m \notin Gone(down, k - 1)
    BY <1>1, <1>9, <2>4
  <2> DEFINE i == Since(m)
  <2>6. i \in 1..v /\ i \in 1..Newest /\ i # 0
    <3>1. i \in 1..v
      BY <1>3, <2>1, <2>5, SchemaHolds
    <3>2. QED
      BY <3>1, ManyRevisions
  <2>7. PICK a \in 1..Len(Revisions[i].up) : Revisions[i].up[a].name = m
    BY <2>1, <2>6, ObjectOf
  <2>8. Refs[m] = Revisions[i].up[a].refs /\ Of[m] = Revisions[i].up[a].of
    BY <2>6, <2>7, OneEntry
  <2>9. Since(c) \in Nat /\ Since(c) <= i
    <3>1. UpOrdered(Revisions[i].up, i)
      BY <2>6, RevisionsOrdered DEF Ordered
    <3>2. \/ c \in Bases /\ Since(c) < i
          \/ \E b \in 1..(a - 1) : Revisions[i].up[b].name = c
      BY <2>2, <2>7, <2>8, <3>1 DEF UpOrdered
    <3>3. CASE c \in Bases /\ Since(c) < i
      BY <2>6, <3>3, BasesSince DEF Bases
    <3>4. CASE \E b \in 1..(a - 1) : Revisions[i].up[b].name = c
      <4>1. PICK b \in 1..(a - 1) : Revisions[i].up[b].name = c
        BY <3>4
      <4>2. b \in 1..Len(Revisions[i].up)
        BY <2>6, <2>7, RevisionFacts
      <4>3. Since(c) = i
        BY <2>6, <4>1, <4>2, RevisionFacts
      <4>4. QED
        BY <2>6, <4>3
    <3>5. QED
      BY <3>2, <3>3, <3>4
  <2>10. Since(c) # 0
    BY <1>3, <1>4, <1>5, <2>3, <2>9, VersionTableEntry DEF Since
  <2>11. Since(c) \in 1..Newest
    BY <2>3, <2>10, ObjectOf
  <2>12. PICK b \in 1..Len(Revisions[Since(c)].up) :
             Revisions[Since(c)].up[b].name = c /\ Revisions[Since(c)].up[b].of = Of[c]
    BY <2>3, <2>10, ObjectOf
  <2>13. Since(c) = v /\ i = v
    <3>1. v <= Since(c)
      <4>1. CASE c = n
        BY <1>3, <1>4, <1>5, <4>1
      <4>2. CASE n \in Of[c]
        <5>1. Since(n) <= Since(c)
          BY <2>11, <2>12, <4>2, RevisionFacts
        <5>2. QED
          BY <1>4, <1>5, <5>1
      <4>3. QED
        BY <2>3, <4>1, <4>2
    <3>2. QED
      BY <1>3, <2>6, <2>9, <3>1
  <2>14. PICK j \in 1..k : down[j] \in {m} \cup Of[m]
    <3>1. /\ a \in 1..Len(up) /\ b \in 1..Len(up)
          /\ up[b].name \in up[a].refs
          /\ down[k] \in {up[b].name} \cup up[b].of
      BY <2>2, <2>3, <2>7, <2>8, <2>12, <2>13
    <3>2. \E j \in 1..k : down[j] \in {up[a].name} \cup up[a].of
      BY <1>2, <1>3, <3>1 DEF DownOrdered
    <3>3. QED
      BY <2>7, <2>8, <2>13, <3>2
  <2>15. m \in Parts[down[j]]
    BY <1>6, <2>1, <2>14
  <2>16. j = k \/ j \in 1..(k - 1)
    BY <1>3
  <2>17. QED
    BY <1>7, <2>1, <2>5, <2>15, <2>16
<1>10. QED
  BY <1>1, <1>8, <1>9 DEF CanDrop

-----------------------------------------------------------------------------
(* The invariant                                                           *)

Stages == {"idle", "connecting", "running", "committed", "answered", "failed",
           "cut off"}

LockNames == {"version row"} \cup Names \cup (UNION {Of[n] : n \in Names})
                \cup (UNION {Targets[n] : n \in Names})

RunRecords ==
    [stage : Stages, byHand : BOOLEAN, before : 0..Newest, after : 0..Newest,
     to : 0..Newest, from : 0..Newest, rev : 0..Newest, step : Nat \ {0},
     added : SUBSET Names, dropped : SUBSET Names,
     locks : SUBSET LockNames, met : BOOLEAN]

\* The schema of the revision a run has found, with what it has changed since, is
\* that of the revision it is at, with the statements of the script it is in.
Upwards(r) ==
    /\ run[r].rev \in run[r].from..run[r].to
    /\ run[r].dropped = {}
    /\ run[r].rev < run[r].to => run[r].step <= Len(UpgradeFrom[run[r].rev]) + 1
    /\ (SchemaAt[run[r].from] \cup run[r].added) \ Lasting
          = (SchemaAt[run[r].rev]
                \cup First(UpgradeFrom[run[r].rev], run[r].step - 1)) \ Lasting

Downwards(r) ==
    /\ run[r].rev \in run[r].to..run[r].from
    /\ run[r].added = {}
    /\ run[r].rev > run[r].to => run[r].step <= Len(DowngradeFrom[run[r].rev]) + 1
    /\ (SchemaAt[run[r].from] \ run[r].dropped) \ Lasting
          = (SchemaAt[run[r].rev]
                \ Gone(DowngradeFrom[run[r].rev], run[r].step - 1)) \ Lasting

Untouched(r) == run[r].added = {} /\ run[r].dropped = {} /\ run[r].step = 1

Progress(r) ==
    /\ ~Running(r) => Untouched(r) /\ run[r].locks = {}
    /\ Running(r) =>
          /\ IF run[r].from <= run[r].to THEN Upwards(r) ELSE Downwards(r)
          /\ run[r].rev = run[r].to => run[r].step = 1
          /\ run[r].rev = run[r].from /\ run[r].step = 1 => Untouched(r)

\* The revision that is recorded.
Recorded(v) == versions = {v} \ {0}

\* A run that has got past the first revision it changes holds the version row,
\* and what it has found there still stands.  One that has started from nothing
\* has no such row to hold: what it holds is its first table.
Claims(r) ==
    Running(r) =>
        /\ run[r].rev # run[r].from => /\ "version row" \in run[r].locks
                                       /\ Recorded(run[r].from)
        /\ run[r].from = 0 /\ run[r].to > 0 /\ (run[r].rev > 0 \/ run[r].step > 3) =>
              /\ "properties" \in run[r].locks
              /\ versions = {}

Exclusive ==
    \A r, q \in Runs : r # q => run[r].locks \cap run[q].locks = {}

SchemaInv ==
    /\ schema \subseteq Names
    /\ \E v \in 0..Newest : Recorded(v) /\ schema \ Lasting = SchemaAt[v] \ Lasting

IInv ==
    /\ run \in [Runs -> RunRecords]
    /\ \A r \in Runs : Progress(r) /\ Claims(r)
    /\ Exclusive
    /\ SchemaInv

-----------------------------------------------------------------------------
(* Scripts                                                                 *)

LEMMA Counting ==
    /\ 1..0 = {}
    /\ \A k \in Nat \ {0} : k - 1 + 1 = k /\ 1..k = (1..(k - 1)) \cup {k}
OBVIOUS

\* What a run knows of itself, field by field.
LEMMA RunFacts ==
    ASSUME IInv, NEW r \in Runs
    PROVE  /\ run[r] \in RunRecords
           /\ run[r].from \in 0..Newest /\ run[r].to \in 0..Newest
           /\ run[r].rev \in 0..Newest /\ run[r].step \in Nat \ {0}
           /\ run[r].added \subseteq Names /\ run[r].dropped \subseteq Names
           /\ run[r].locks \subseteq LockNames
           /\ Newest = 11
BY ManyRevisions DEF IInv, RunRecords

\* A run that is not at its goal is in the script of its direction.
LEMMA Directions ==
    ASSUME IInv, NEW r \in Runs, AtRevision(r)
    PROVE  \/ /\ Upward(r) /\ run[r].from < run[r].to /\ Upwards(r)
              /\ run[r].rev \in 0..(Newest - 1)
              /\ Script(r) = UpgradeFrom[run[r].rev]
              /\ Len(Script(r)) \in Nat
              /\ run[r].step <= Len(Script(r)) + 1
           \/ /\ ~Upward(r) /\ run[r].to < run[r].from /\ Downwards(r)
              /\ run[r].rev \in 1..Newest
              /\ Script(r) = DowngradeFrom[run[r].rev]
              /\ Len(Script(r)) \in Nat
              /\ run[r].step <= Len(Script(r)) + 1
<1>1. Running(r) /\ run[r].rev # run[r].to
  BY DEF AtRevision
<1>2. IF run[r].from <= run[r].to THEN Upwards(r) ELSE Downwards(r)
  BY <1>1 DEF IInv, Progress
<1>3. CASE run[r].from <= run[r].to
  <2>1. Upwards(r) /\ run[r].rev < run[r].to /\ run[r].rev \in 0..(Newest - 1)
    BY <1>1, <1>2, <1>3, RunFacts DEF Upwards
  <2>2. QED
    BY <1>1, <1>3, <2>1, RunFacts, UpgradesAdd DEF Upwards, Upward, Script
<1>4. CASE ~(run[r].from <= run[r].to)
  <2>1. Downwards(r) /\ run[r].rev > run[r].to /\ run[r].rev \in 1..Newest
    BY <1>1, <1>2, <1>4, RunFacts DEF Downwards
  <2>2. QED
    BY <1>1, <1>4, <2>1, RunFacts, DowngradesRestore DEF Downwards, Upward, Script
<1>5. QED
  BY <1>3, <1>4

-----------------------------------------------------------------------------
(* Steps that change no table                                              *)

SameWork(q) ==
    /\ run'[q].stage = run[q].stage
    /\ run'[q].to = run[q].to /\ run'[q].from = run[q].from
    /\ run'[q].rev = run[q].rev /\ run'[q].step = run[q].step
    /\ run'[q].added = run[q].added /\ run'[q].dropped = run[q].dropped
    /\ run'[q].locks = run[q].locks

LEMMA ProgressStays ==
    ASSUME NEW q \in Runs, SameWork(q), Progress(q)
    PROVE  Progress(q)'
<1>1. Running(q)' <=> Running(q)
  BY DEF SameWork, Running
<1>2. Upwards(q)' <=> Upwards(q)
  BY DEF SameWork, Upwards
<1>3. Downwards(q)' <=> Downwards(q)
  BY DEF SameWork, Downwards
<1>4. Untouched(q)' <=> Untouched(q)
  BY DEF SameWork, Untouched
<1>5. QED
  BY <1>1, <1>2, <1>3, <1>4 DEF Progress, SameWork

LEMMA ClaimsStay ==
    ASSUME NEW q \in Runs, SameWork(q), Claims(q), versions' = versions
    PROVE  Claims(q)'
BY DEF SameWork, Claims, Running, Recorded

LEMMA OneRunSteps ==
    ASSUME IInv, NEW r \in Runs, run' \in [Runs -> RunRecords],
           UNCHANGED <<schema, versions>>,
           \A q \in Runs \ {r} : SameWork(q),
           Progress(r)', Claims(r)',
           \A q \in Runs \ {r} : run'[r].locks \cap run[q].locks = {}
    PROVE  IInv'
<1>1. \A q \in Runs : Progress(q)' /\ Claims(q)'
  BY ProgressStays, ClaimsStay DEF IInv
<1>2. Exclusive'
  BY DEF IInv, Exclusive, SameWork
<1>3. SchemaInv'
  BY DEF IInv, SchemaInv, Recorded
<1>4. QED
  BY <1>1, <1>2, <1>3 DEF IInv

\* A run that has not begun or is over claims nothing.
LEMMA IdleSteps ==
    ASSUME IInv, NEW r \in Runs, run' \in [Runs -> RunRecords],
           UNCHANGED <<schema, versions>>,
           \A q \in Runs \ {r} : SameWork(q),
           run'[r].stage # "running",
           Untouched(r)', run'[r].locks = {}
    PROVE  IInv'
<1>1. Progress(r)' /\ Claims(r)'
  BY DEF Progress, Claims, Running, Untouched
<1>2. QED
  BY <1>1, OneRunSteps

\* The run that takes a step and those that it meets keep what they have done.
LEMMA MetSteps ==
    ASSUME IInv, NEW r \in Runs, NEW update \in RunRecords, Meets(r, update)
    PROVE  /\ run' \in [Runs -> RunRecords]
           /\ \A q \in Runs \ {r} : SameWork(q)
           /\ run'[r] = [update EXCEPT !.met = @ \/ \E x \in Runs \ {r} : Active(x)]
<1>1. \A q \in Runs : run[q] \in RunRecords
  BY RunFacts
<1>2. [update EXCEPT !.met = @ \/ \E x \in Runs \ {r} : Active(x)] \in RunRecords
  BY DEF RunRecords
<1>3. \A q \in Runs : [run[q] EXCEPT !.met = TRUE] \in RunRecords
  BY <1>1 DEF RunRecords
<1>4. run' \in [Runs -> RunRecords]
  BY <1>1, <1>2, <1>3 DEF Meets
<1>5. \A q \in Runs \ {r} : SameWork(q)
  BY <1>1 DEF Meets, SameWork, RunRecords
<1>6. QED
  BY <1>4, <1>5 DEF Meets

LEMMA ReadBeforeSteps == ASSUME IInv, NEW r \in Runs, ReadBefore(r) PROVE IInv'
<1>1. PICK v \in 0..Newest :
          Meets(r, [run[r] EXCEPT !.stage = "connecting", !.before = v])
  BY DEF ReadBefore
<1> DEFINE update == [run[r] EXCEPT !.stage = "connecting", !.before = v]
<1>2. run[r] \in RunRecords /\ Untouched(r) /\ run[r].locks = {}
  BY RunFacts DEF ReadBefore, IInv, Progress, Running
<1>3. update \in RunRecords
  BY <1>2 DEF RunRecords, Stages
<1>4. /\ run' \in [Runs -> RunRecords]
      /\ \A q \in Runs \ {r} : SameWork(q)
      /\ run'[r] = [update EXCEPT !.met = @ \/ \E x \in Runs \ {r} : Active(x)]
  BY <1>1, <1>3, MetSteps
<1>5. /\ run'[r].stage = "connecting" /\ run'[r].added = run[r].added
      /\ run'[r].dropped = run[r].dropped /\ run'[r].step = run[r].step
      /\ run'[r].locks = run[r].locks
  BY <1>2, <1>3, <1>4 DEF RunRecords
<1>6. Untouched(r)' /\ run'[r].stage # "running"
  BY <1>2, <1>5 DEF Untouched
<1>7. UNCHANGED <<schema, versions>>
  BY DEF ReadBefore
<1>8. QED
  BY <1>2, <1>4, <1>5, <1>6, <1>7, IdleSteps

\* A run begins at the revision it finds, with nothing done.
LEMMA BeginsSteps ==
    ASSUME IInv, NEW r \in Runs, run[r].stage \in {"idle", "connecting"},
           NEW to \in 0..Newest, NEW byHand \in BOOLEAN, Begins(r, to, byHand)
    PROVE  IInv'
<1>1. PICK v \in 0..Newest :
          Meets(r, [run[r] EXCEPT !.stage = "running", !.byHand = byHand, !.to = to,
                                  !.from = v, !.rev = v])
  BY DEF Begins
<1> DEFINE update == [run[r] EXCEPT !.stage = "running", !.byHand = byHand,
                                    !.to = to, !.from = v, !.rev = v]
<1>2. run[r] \in RunRecords /\ Untouched(r) /\ run[r].locks = {}
  BY RunFacts DEF IInv, Progress, Running
<1>3. update \in RunRecords
  BY <1>2 DEF RunRecords, Stages
<1>4. /\ run' \in [Runs -> RunRecords]
      /\ \A q \in Runs \ {r} : SameWork(q)
      /\ run'[r] = [update EXCEPT !.met = @ \/ \E x \in Runs \ {r} : Active(x)]
  BY <1>1, <1>3, MetSteps
<1>5. /\ run'[r].stage = "running" /\ run'[r].to = to
      /\ run'[r].from = v /\ run'[r].rev = v /\ run'[r].step = 1
      /\ run'[r].added = {} /\ run'[r].dropped = {} /\ run'[r].locks = {}
  BY <1>2, <1>3, <1>4 DEF RunRecords, Untouched
<1>6. Newest = 11 /\ v \in Nat /\ to \in Nat
  BY ManyRevisions
<1>7. /\ First(UpgradeFrom[v], 1 - 1) = {}
      /\ Gone(DowngradeFrom[v], 1 - 1) = {}
  BY Counting DEF First, Gone
<1>8. ASSUME v <= to PROVE Progress(r)'
  <2>1. v < to => v \in 0..(Newest - 1)
    BY <1>6, <1>8
  <2>2. v < to => 1 <= Len(UpgradeFrom[v]) + 1
    BY <2>1, UpgradesAdd
  <2>3. (SchemaAt[v] \cup {}) \ Lasting
           = (SchemaAt[v] \cup First(UpgradeFrom[v], 1 - 1)) \ Lasting
    BY <1>7
  <2>4. v \in v..to
    BY <1>6, <1>8
  <2>5. Upwards(r)'
    BY <1>5, <2>2, <2>3, <2>4 DEF Upwards
  <2>6. QED
    BY <1>5, <1>8, <2>5 DEF Progress, Untouched, Running
<1>9. ASSUME ~(v <= to) PROVE Progress(r)'
  <2>1. v \in 1..Newest
    BY <1>6, <1>9
  <2>2. 1 <= Len(DowngradeFrom[v]) + 1
    BY <2>1, DowngradesRestore
  <2>3. (SchemaAt[v] \ {}) \ Lasting
           = (SchemaAt[v] \ Gone(DowngradeFrom[v], 1 - 1)) \ Lasting
    BY <1>7
  <2>4. v \in to..v
    BY <1>6, <1>9
  <2>5. Downwards(r)'
    BY <1>5, <2>2, <2>3, <2>4 DEF Downwards
  <2>6. QED
    BY <1>5, <1>9, <2>5 DEF Progress, Untouched, Running
<1>10. Claims(r)'
  BY <1>5 DEF Claims
<1>11. UNCHANGED <<schema, versions>>
  BY DEF Begins
<1>12. QED
  BY <1>4, <1>5, <1>8, <1>9, <1>10, <1>11, OneRunSteps

LEMMA NewRunType == NewRun \in RunRecords
BY ManyRevisions DEF NewRun, RunRecords, Stages

\* A run that is over, or between its transactions, has nothing open.
LEMMA EndSteps ==
    ASSUME IInv, NEW r \in Runs,
           NEW stage \in Stages \ {"running"}, NEW byHand \in BOOLEAN,
           NEW before \in 0..Newest, NEW met \in BOOLEAN,
           run' = [run EXCEPT ![r] = [NewRun EXCEPT !.stage = stage,
                                                    !.byHand = byHand,
                                                    !.before = before,
                                                    !.met = met]]
    PROVE  /\ run' \in [Runs -> RunRecords]
           /\ \A q \in Runs \ {r} : SameWork(q)
           /\ run'[r].stage = stage
           /\ Untouched(r)' /\ run'[r].locks = {}
<1> DEFINE ended == [NewRun EXCEPT !.stage = stage, !.byHand = byHand,
                                   !.before = before, !.met = met]
<1>2. ended \in RunRecords
  BY NewRunType DEF RunRecords
<1>3. run \in [Runs -> RunRecords]
  BY DEF IInv
<1>4. run' \in [Runs -> RunRecords] /\ run'[r] = ended
  BY <1>2, <1>3
<1>5. \A q \in Runs \ {r} : run'[q] = run[q]
  BY <1>3
<1>6. ended.stage = stage /\ ended.added = {} /\ ended.dropped = {}
      /\ ended.step = 1 /\ ended.locks = {}
  BY DEF NewRun
<1>7. QED
  BY <1>4, <1>5, <1>6 DEF SameWork, Untouched

LEMMA RolledBackSteps ==
    ASSUME IInv, NEW r \in Runs, NEW stage \in {"failed", "cut off"},
           RolledBack(r, stage)
    PROVE  IInv'
<1>1. run[r] \in RunRecords
  BY RunFacts
<1>2. run[r].byHand \in BOOLEAN /\ run[r].before \in 0..Newest
      /\ run[r].met \in BOOLEAN /\ stage \in Stages \ {"running"}
  BY <1>1 DEF RunRecords, Stages
<1>3. /\ run' \in [Runs -> RunRecords]
      /\ \A q \in Runs \ {r} : SameWork(q)
      /\ run'[r].stage = stage
      /\ Untouched(r)' /\ run'[r].locks = {}
  BY <1>2, EndSteps DEF RolledBack
<1>4. UNCHANGED <<schema, versions>> /\ stage # "running"
  BY DEF RolledBack
<1>5. QED
  BY <1>3, <1>4, IdleSteps

LEMMA ReadAfterSteps == ASSUME IInv, NEW r \in Runs, ReadAfter(r) PROVE IInv'
<1>1. PICK v \in 0..Newest :
          run' = [run EXCEPT ![r].stage = IF v = 0 THEN "failed" ELSE "answered",
                             ![r].after = v]
  BY DEF ReadAfter
<1>2. run \in [Runs -> RunRecords] /\ run[r].stage = "committed"
      /\ Untouched(r) /\ run[r].locks = {}
  BY DEF IInv, Progress, Running, ReadAfter
<1>3. /\ run' \in [Runs -> RunRecords]
      /\ \A q \in Runs \ {r} : run'[q] = run[q]
      /\ run'[r].stage # "running" /\ run'[r].locks = run[r].locks
      /\ run'[r].added = run[r].added /\ run'[r].dropped = run[r].dropped
      /\ run'[r].step = run[r].step
  <2> DEFINE stage == IF v = 0 THEN "failed" ELSE "answered"
  <2>1. stage \in Stages /\ stage # "running"
    BY DEF Stages
  <2>2. run' = [run EXCEPT ![r] = [run[r] EXCEPT !.stage = stage, !.after = v]]
    BY <1>1, <1>2
  <2> HIDE DEF stage
  <2>3. [run[r] EXCEPT !.stage = stage, !.after = v] \in RunRecords
    BY <1>2, <2>1 DEF RunRecords
  <2>4. QED
    BY <1>2, <2>1, <2>2, <2>3 DEF RunRecords
<1>4. Untouched(r)' /\ \A q \in Runs \ {r} : SameWork(q)
  BY <1>2, <1>3 DEF Untouched, SameWork
<1>5. UNCHANGED <<schema, versions>>
  BY DEF ReadAfter
<1>6. QED
  BY <1>2, <1>3, <1>4, <1>5, IdleSteps

-----------------------------------------------------------------------------
(* Statements and the version row                                          *)

\* A run that need not wait gets locks that nobody else has.
LEMMA Unblocked ==
    ASSUME IInv, NEW r \in Runs, AtRevision(r), ~Blocked(r), NEW q \in Runs \ {r}
    PROVE  (run[r].locks \cup Locks(r)) \cap run[q].locks = {}
<1>1. run[r].locks \cap run[q].locks = {}
  BY DEF IInv, Exclusive
<1>2. CASE Running(q)
  BY <1>1, <1>2 DEF Blocked, Waits
<1>3. CASE ~Running(q)
  BY <1>3 DEF IInv, Progress
<1>4. QED
  BY <1>2, <1>3

LEMMA LockNamesOf ==
    ASSUME NEW n \in Names
    PROVE  n \in LockNames /\ Of[n] \subseteq LockNames /\ Targets[n] \subseteq LockNames
BY DEF LockNames

LEMMA StatementLocks ==
    ASSUME IInv, NEW r \in Runs, AtStatement(r)
    PROVE  /\ Statement(r) \in Names
           /\ Locks(r) \subseteq LockNames
           /\ Upward(r) /\ Statement(r) \notin View(r) => Statement(r) \in Locks(r)
<1>1. AtRevision(r) /\ run[r].step <= Len(Script(r)) /\ ~AtVersion(r)
      /\ run[r].step \in Nat \ {0}
  BY RunFacts, Directions DEF AtStatement, AtVersion
<1>2. run[r].step \in 1..Len(Script(r))
  BY <1>1, Directions
<1>3. Statement(r) \in Names
  BY <1>1, <1>2, Directions, UpgradesAdd, DowngradesRestore DEF Statement
<1>4. View(r) \subseteq Names
  BY RunFacts DEF View, IInv, SchemaInv
<1>5. CASE Upward(r)
  <2>1. Locks(r) = IF Statement(r) \in View(r) THEN {}
                   ELSE {Statement(r)} \cup Of[Statement(r)] \cup Targets[Statement(r)]
    BY <1>1, <1>5 DEF Locks
  <2>2. QED
    BY <1>3, <2>1, LockNamesOf
<1>6. CASE ~Upward(r)
  <2>1. Locks(r) = Of[Statement(r)] \cup Targets[Statement(r)]
                      \cup (Parts[Statement(r)] \cap View(r))
    BY <1>1, <1>6 DEF Locks
  <2>2. QED
    BY <1>3, <1>4, <1>6, <2>1, LockNamesOf
<1>7. QED
  BY <1>3, <1>5, <1>6

\* Where there is a schema, an upgrade from nothing does not get past the third
\* statement; so when it does, there is none.
LEMMA FirstTableMade ==
    ASSUME IInv, NEW r \in Runs, AtStatement(r), Possible(r),
           run[r].from = 0, run[r].to > 0, run[r].rev = 0, run[r].step = 3
    PROVE  "properties" \in Locks(r) /\ versions = {}
<1>1. Upward(r) /\ Upwards(r) /\ Statement(r) = "properties"
  BY RunFacts, Directions, FirstTable
     DEF AtStatement, Upward, Statement
<1>2. "properties" \notin View(r)
  BY <1>1, FirstTable DEF Possible, CanAdd
<1>3. "properties" \in Locks(r)
  BY <1>1, <1>2, StatementLocks
<1>4. "properties" \notin schema
  BY <1>1, <1>2 DEF View, Upwards
<1>5. PICK v \in 0..Newest : Recorded(v) /\ schema \ Lasting = SchemaAt[v] \ Lasting
  BY DEF IInv, SchemaInv
<1>6. v = 0
  <2>1. CASE v \in 1..Newest
    BY <1>4, <1>5, <2>1, FirstTable
  <2>2. QED
    BY <2>1, ManyRevisions
<1>7. QED
  BY <1>3, <1>5, <1>6 DEF Recorded

LEMMA ExecuteSteps == ASSUME IInv, NEW r \in Runs, Execute(r) PROVE IInv'
<1> DEFINE s == Script(r)
           k == run[r].step
<1>1. /\ AtStatement(r) /\ AtRevision(r) /\ Running(r) /\ run[r].rev # run[r].to
      /\ ~Blocked(r) /\ Possible(r) /\ UNCHANGED <<schema, versions>>
      /\ k \in Nat \ {0} /\ k <= Len(s) /\ run[r] \in RunRecords
      /\ Statement(r) = s[k]
  BY RunFacts DEF Execute, AtStatement, AtRevision, Statement
<1>2. s[k] \in Names /\ Locks(r) \subseteq LockNames
  BY <1>1, StatementLocks
<1>3. s[k] \in Names => Parts[s[k]] \subseteq Names
  BY DEF Parts
<1>4. /\ run' \in [Runs -> RunRecords]
      /\ \A q \in Runs \ {r} : run'[q] = run[q]
      /\ run'[r].stage = run[r].stage /\ run'[r].to = run[r].to
      /\ run'[r].from = run[r].from /\ run'[r].rev = run[r].rev
      /\ run'[r].step = k + 1
      /\ run'[r].locks = run[r].locks \cup Locks(r)
      /\ run'[r].added = IF Upward(r) THEN run[r].added \cup {s[k]} ELSE run[r].added
      /\ run'[r].dropped = IF Upward(r) THEN run[r].dropped
                           ELSE run[r].dropped \cup Parts[s[k]]
  <2>1. run \in [Runs -> RunRecords]
    BY DEF IInv
  <2> DEFINE made == IF Upward(r) THEN run[r].added \cup {s[k]} ELSE run[r].added
             gone == IF Upward(r) THEN run[r].dropped
                     ELSE run[r].dropped \cup Parts[s[k]]
  <2>2. made \subseteq Names /\ gone \subseteq Names
        /\ run[r].locks \cup Locks(r) \subseteq LockNames
    BY <1>2, <1>3, RunFacts
  <2> DEFINE next == k + 1
             held == run[r].locks \cup Locks(r)
  <2>3. next \in Nat \ {0} /\ held \subseteq LockNames
    BY <1>1, <2>2
  <2>4. run' = [run EXCEPT ![r] = [run[r] EXCEPT !.step = next, !.locks = held,
                                                 !.added = made, !.dropped = gone]]
    BY <1>1, <2>1 DEF Execute
  <2> HIDE DEF made, gone, next, held
  <2>5. [run[r] EXCEPT !.step = next, !.locks = held, !.added = made,
                       !.dropped = gone] \in RunRecords
    BY <1>1, <2>2, <2>3 DEF RunRecords
  <2>6. /\ run' \in [Runs -> RunRecords]
        /\ \A q \in Runs \ {r} : run'[q] = run[q]
        /\ run'[r] = [run[r] EXCEPT !.step = next, !.locks = held, !.added = made,
                                    !.dropped = gone]
    BY <2>1, <2>4, <2>5
  <2>7. QED
    BY <1>1, <2>6 DEF RunRecords, made, gone, next, held
<1>5. First(s, k) = First(s, k - 1) \cup {s[k]}
      /\ Gone(s, k) = Gone(s, k - 1) \cup Parts[s[k]]
  <2>1. 1..k = (1..(k - 1)) \cup {k}
    BY <1>1, Counting
  <2>2. First(s, k) = First(s, k - 1) \cup {s[k]}
    BY <2>1 DEF First
  <2>3. Gone(s, k) = Gone(s, k - 1) \cup Parts[s[k]]
    BY <2>1 DEF Gone
  <2>4. QED
    BY <2>2, <2>3
<1>6. k + 1 - 1 = k /\ k + 1 # 1
  BY <1>1
<1>7. Progress(r)'
  <2>1. CASE Upward(r)
    <3>1. Upwards(r) /\ run[r].from < run[r].to /\ s = UpgradeFrom[run[r].rev]
      BY <1>1, <2>1, Directions
    <3>2. (SchemaAt[run[r].from] \cup (run[r].added \cup {s[k]})) \ Lasting
             = (SchemaAt[run[r].rev] \cup First(s, k)) \ Lasting
      BY <1>5, <3>1 DEF Upwards
    <3>3. k + 1 <= Len(s) + 1
      BY <1>1, Directions
    <3>4. Upwards(r)'
      <4>1. run'[r].step - 1 = k /\ run'[r].step <= Len(UpgradeFrom[run'[r].rev]) + 1
        BY <1>1, <1>4, <1>6, <3>1, <3>3
      <4>2. (SchemaAt[run'[r].from] \cup run'[r].added) \ Lasting
               = (SchemaAt[run'[r].rev]
                     \cup First(UpgradeFrom[run'[r].rev], k)) \ Lasting
        BY <1>4, <2>1, <3>1, <3>2
      <4>3. run'[r].rev \in run'[r].from..run'[r].to /\ run'[r].dropped = {}
        BY <1>4, <2>1, <3>1 DEF Upwards
      <4>4. QED
        BY <4>1, <4>2, <4>3 DEF Upwards
    <3>5. run[r].from <= run[r].to
      BY <3>1, RunFacts
    <3>6. QED
      BY <1>1, <1>4, <1>6, <3>4, <3>5 DEF Progress, Running
  <2>2. CASE ~Upward(r)
    <3>1. Downwards(r) /\ run[r].to < run[r].from /\ s = DowngradeFrom[run[r].rev]
      BY <1>1, <2>2, Directions
    <3>2. (SchemaAt[run[r].from] \ (run[r].dropped \cup Parts[s[k]])) \ Lasting
             = (SchemaAt[run[r].rev] \ Gone(s, k)) \ Lasting
      BY <1>5, <3>1 DEF Downwards
    <3>3. k + 1 <= Len(s) + 1
      BY <1>1, Directions
    <3>4. Downwards(r)'
      <4>1. run'[r].step - 1 = k /\ run'[r].step <= Len(DowngradeFrom[run'[r].rev]) + 1
        BY <1>1, <1>4, <1>6, <3>1, <3>3
      <4>2. (SchemaAt[run'[r].from] \ run'[r].dropped) \ Lasting
               = (SchemaAt[run'[r].rev]
                     \ Gone(DowngradeFrom[run'[r].rev], k)) \ Lasting
        BY <1>4, <2>2, <3>1, <3>2
      <4>3. run'[r].rev \in run'[r].to..run'[r].from /\ run'[r].added = {}
        BY <1>4, <2>2, <3>1 DEF Downwards
      <4>4. QED
        BY <4>1, <4>2, <4>3 DEF Downwards
    <3>5. ~(run[r].from <= run[r].to)
      BY <3>1, RunFacts
    <3>6. QED
      BY <1>1, <1>4, <1>6, <3>4, <3>5 DEF Progress, Running
  <2>3. QED
    BY <2>1, <2>2
<1>8. Claims(r)'
  <2>1. Claims(r)
    BY DEF IInv
  <2>2. run[r].rev # run[r].from => "version row" \in run'[r].locks
                                    /\ Recorded(run[r].from)
    BY <1>1, <1>4, <2>1 DEF Claims
  <2>3. ASSUME run[r].from = 0, run[r].to > 0, run[r].rev > 0 \/ k + 1 > 3
        PROVE  "properties" \in run'[r].locks /\ versions = {}
    <3>1. CASE run[r].rev > 0 \/ k > 3
      BY <1>1, <1>4, <2>1, <2>3, <3>1 DEF Claims
    <3>2. CASE run[r].rev = 0 /\ k = 3
      BY <1>1, <1>4, <2>3, <3>2, FirstTableMade
    <3>3. QED
      BY <1>1, <2>3, <3>1, <3>2, RunFacts
  <2>4. QED
    BY <1>1, <1>4, <2>2, <2>3 DEF Claims, Recorded, Running
<1>9. QED
  BY <1>1, <1>4, <1>7, <1>8, Unblocked, OneRunSteps DEF SameWork

LEMMA MarkVersionSteps == ASSUME IInv, NEW r \in Runs, MarkVersion(r) PROVE IInv'
<1> DEFINE s == Script(r)
           v == run[r].rev
           next == IF Upward(r) THEN v + 1 ELSE v - 1
<1>1. /\ AtVersion(r) /\ AtRevision(r) /\ Running(r) /\ v # run[r].to
      /\ ~Blocked(r) /\ VersionStands(r) /\ UNCHANGED <<schema, versions>>
      /\ run[r] \in RunRecords /\ v \in Nat /\ run[r].step > Len(s)
  <2>1. /\ AtVersion(r) /\ AtRevision(r) /\ Running(r) /\ v # run[r].to
        /\ ~Blocked(r) /\ VersionStands(r) /\ UNCHANGED <<schema, versions>>
        /\ run[r].step > Len(s)
    BY DEF MarkVersion, AtVersion, AtRevision
  <2>2. run[r] \in RunRecords /\ v \in Nat
    BY RunFacts
  <2>3. QED
    BY <2>1, <2>2
<1>2. /\ run[r].step = Len(s) + 1 /\ run[r].step - 1 = Len(s)
      /\ ~(run[r].step <= Len(s))
  BY <1>1, RunFacts, Directions
<1>3. Locks(r) = {"version row"}
  BY <1>1, <1>2 DEF Locks, AtStatement
<1> DEFINE held == run[r].locks \cup {"version row"}
<1>0. next \in 0..Newest
  <2>1. CASE Upward(r)
    BY <1>1, <2>1, Directions, RunFacts
  <2>2. CASE ~Upward(r)
    BY <1>1, <2>2, Directions, RunFacts
  <2>3. QED
    BY <2>1, <2>2
<1>4. /\ run' \in [Runs -> RunRecords]
      /\ \A q \in Runs \ {r} : run'[q] = run[q]
      /\ run'[r].stage = run[r].stage /\ run'[r].to = run[r].to
      /\ run'[r].from = run[r].from /\ run'[r].rev = next
      /\ run'[r].step = 1
      /\ run'[r].locks = held
      /\ run'[r].added = run[r].added /\ run'[r].dropped = run[r].dropped
  <2>1. run \in [Runs -> RunRecords]
    BY DEF IInv
  <2>2. run' = [run EXCEPT ![r] = [run[r] EXCEPT !.rev = next, !.step = 1,
                                                 !.locks = held]]
    BY <2>1 DEF MarkVersion
  <2>3. held \subseteq LockNames
    BY RunFacts DEF LockNames
  <2> HIDE DEF next, held
  <2>4. [run[r] EXCEPT !.rev = next, !.step = 1, !.locks = held] \in RunRecords
    <3>1. run[r] \in RunRecords /\ 1 \in Nat \ {0}
      BY <1>1
    <3>2. QED
      BY <1>0, <2>3, <3>1 DEF RunRecords
  <2>5. QED
    BY <1>1, <2>1, <2>2, <2>4 DEF RunRecords
<1>5. 1..(1 - 1) = {}
  OBVIOUS
<1>6. ASSUME Upward(r) PROVE Progress(r)'
  <2>1. /\ Upwards(r) /\ run[r].from < run[r].to /\ s = UpgradeFrom[v]
        /\ v \in 0..(Newest - 1) /\ next = v + 1
    BY <1>1, <1>6, Directions
  <2>2. SchemaAt[v + 1] \ Lasting = (SchemaAt[v] \cup First(s, Len(s))) \ Lasting
    BY <2>1, UpgradesAdd
  <2>3. First(UpgradeFrom[next], 1 - 1) = {}
    BY <1>5 DEF First
  <2>4. (SchemaAt[run[r].from] \cup run[r].added) \ Lasting
           = (SchemaAt[next] \cup First(UpgradeFrom[next], 1 - 1)) \ Lasting
    BY <1>2, <2>1, <2>2, <2>3 DEF Upwards
  <2>5. next \in run[r].from..run[r].to /\ next # run[r].from
        /\ run[r].from <= run[r].to
    BY <1>6, <2>1, RunFacts DEF Upwards, Upward
  <2>6. next < run[r].to => 1 <= Len(UpgradeFrom[next]) + 1
    <3>1. next < run[r].to => next \in 0..(Newest - 1)
      BY <2>1, RunFacts
    <3>2. QED
      BY <3>1, UpgradesAdd
  <2>7. run[r].dropped = {}
    BY <2>1 DEF Upwards
  <2>8. Upwards(r)'
    BY <1>4, <2>4, <2>5, <2>6, <2>7 DEF Upwards
  <2>9. QED
    BY <1>1, <1>4, <2>5, <2>8 DEF Progress, Running
<1>7. ASSUME ~Upward(r) PROVE Progress(r)'
  <2>1. /\ Downwards(r) /\ run[r].to < run[r].from /\ s = DowngradeFrom[v]
        /\ v \in 1..Newest /\ next = v - 1
    BY <1>1, <1>7, Directions
  <2>2. SchemaAt[v - 1] \ Lasting = (SchemaAt[v] \ Gone(s, Len(s))) \ Lasting
    BY <2>1, DowngradesRestore
  <2>3. Gone(DowngradeFrom[next], 1 - 1) = {}
    BY <1>5 DEF Gone
  <2>4. (SchemaAt[run[r].from] \ run[r].dropped) \ Lasting
           = (SchemaAt[next] \ Gone(DowngradeFrom[next], 1 - 1)) \ Lasting
    BY <1>2, <2>1, <2>2, <2>3 DEF Downwards
  <2>5. next \in run[r].to..run[r].from /\ next # run[r].from
        /\ ~(run[r].from <= run[r].to)
    BY <1>1, <1>7, <2>1, RunFacts DEF Downwards, Upward
  <2>6. next > run[r].to => 1 <= Len(DowngradeFrom[next]) + 1
    <3>1. next > run[r].to => next \in 1..Newest
      BY <2>1, RunFacts
    <3>2. QED
      BY <3>1, DowngradesRestore
  <2>7. run[r].added = {}
    BY <2>1 DEF Downwards
  <2>8. Downwards(r)'
    BY <1>4, <2>4, <2>5, <2>6, <2>7 DEF Downwards
  <2>9. QED
    BY <1>1, <1>4, <2>5, <2>8 DEF Progress, Running
<1>8. ASSUME run[r].from = 0, run[r].to > 0
      PROVE  "properties" \in run[r].locks /\ versions = {}
  <2>1. Upward(r) /\ s = UpgradeFrom[v]
    BY <1>1, <1>8, RunFacts, Directions
  <2>2. v > 0 \/ run[r].step > 3
    <3>1. v = 0 => run[r].step = Len(UpgradeFrom[0]) + 1 /\ Len(UpgradeFrom[0]) \in Nat
      BY <1>1, <1>2, <2>1, Directions
    <3>2. QED
      BY <1>1, <3>1, FirstTable
  <2>3. QED
    BY <1>1, <1>8, <2>2 DEF IInv, Claims
<1>9. Recorded(run[r].from)
  <2>1. CASE v # run[r].from
    BY <1>1, <2>1 DEF IInv, Claims
  <2>2. CASE v = run[r].from /\ run[r].from = 0
    <3>1. run[r].to > 0
      BY <1>1, <2>2, RunFacts
    <3>2. QED
      BY <1>8, <2>2, <3>1 DEF Recorded
  <2>3. CASE v = run[r].from /\ run[r].from # 0
    <3>1. run[r].from \in versions
      BY <1>1, <2>3 DEF VersionStands
    <3>2. QED
      BY <2>3, <3>1 DEF IInv, SchemaInv, Recorded
  <2>4. QED
    BY <2>1, <2>2, <2>3
<1>10. Claims(r)'
  BY <1>1, <1>4, <1>8, <1>9 DEF Claims, Recorded, Running
<1>11. QED
  BY <1>1, <1>3, <1>4, <1>6, <1>7, <1>10, Unblocked, OneRunSteps DEF SameWork

\* A commit either changes nothing or finds the revision it has claimed.
LEMMA CommitSteps == ASSUME IInv, NEW r \in Runs, Commit(r) PROVE IInv'
<1> DEFINE stage == IF run[r].byHand THEN "answered" ELSE "committed"
           from == run[r].from
           to == run[r].to
<1>1. Running(r) /\ run[r].rev = to /\ Progress(r) /\ Claims(r) /\ run[r].step = 1
  BY DEF Commit, IInv, Progress
<1>2. run[r] \in RunRecords /\ from \in 0..Newest /\ to \in 0..Newest /\ Newest = 11
  BY RunFacts
<1>3. /\ run' \in [Runs -> RunRecords]
      /\ \A q \in Runs \ {r} : SameWork(q)
      /\ run'[r].stage = stage
      /\ Untouched(r)' /\ run'[r].locks = {}
  <2>1. stage \in Stages \ {"running"} /\ run[r].byHand \in BOOLEAN
        /\ run[r].before \in 0..Newest /\ run[r].met \in BOOLEAN
    BY <1>2 DEF RunRecords, Stages
  <2>2. QED
    BY <2>1, EndSteps DEF Commit
<1>4. Progress(r)' /\ Claims(r)'
  BY <1>3 DEF Progress, Claims, Running, Untouched
<1>5. \A q \in Runs : Progress(q)'
  BY <1>3, <1>4, ProgressStays DEF IInv
<1>6. Exclusive'
  BY <1>3 DEF IInv, Exclusive, SameWork
<1>7. schema' = (schema \ run[r].dropped) \cup run[r].added
  BY DEF Commit, View
<1>8. schema' \subseteq Names
  BY <1>7, RunFacts DEF IInv, SchemaInv
<1>9. CASE from = to
  <2>1. UNCHANGED <<schema, versions>>
    BY <1>1, <1>7, <1>9 DEF Progress, Untouched, Commit
  <2>2. SchemaInv' /\ \A q \in Runs : Claims(q)'
    BY <1>3, <1>4, <2>1, ClaimsStay DEF IInv, SchemaInv, Recorded
  <2>3. QED
    BY <1>3, <1>5, <1>6, <2>2 DEF IInv
<1>10. CASE from # to
  <2>1. "version row" \in run[r].locks /\ Recorded(from)
    BY <1>1, <1>10 DEF Claims
  <2>2. versions' = {to} \ {0}
    BY <1>1, <1>10, <2>1 DEF Commit, Recorded
  <2>3. schema \ Lasting = SchemaAt[from] \ Lasting
    <3>1. PICK v \in 0..Newest :
              Recorded(v) /\ schema \ Lasting = SchemaAt[v] \ Lasting
      BY DEF IInv, SchemaInv
    <3>2. {v} \ {0} = {from} \ {0}
      BY <2>1, <3>1 DEF Recorded
    <3>3. v = from
      BY <3>2
    <3>4. QED
      BY <3>1, <3>3
  <2>4. 1..(1 - 1) = {}
    OBVIOUS
  <2>5. schema' \ Lasting = SchemaAt[to] \ Lasting
    <3>1. CASE from <= to
      <4>1. Upwards(r)
        BY <1>1, <3>1 DEF Progress
      <4>2. First(UpgradeFrom[to], 1 - 1) = {}
        BY <2>4 DEF First
      <4>3. (SchemaAt[from] \cup run[r].added) \ Lasting = SchemaAt[to] \ Lasting
        BY <1>1, <4>1, <4>2 DEF Upwards
      <4>4. QED
        BY <1>7, <2>3, <4>1, <4>3 DEF Upwards
    <3>2. CASE ~(from <= to)
      <4>1. Downwards(r)
        BY <1>1, <3>2 DEF Progress
      <4>2. Gone(DowngradeFrom[to], 1 - 1) = {}
        BY <2>4 DEF Gone
      <4>3. (SchemaAt[from] \ run[r].dropped) \ Lasting = SchemaAt[to] \ Lasting
        BY <1>1, <4>1, <4>2 DEF Downwards
      <4>4. QED
        BY <1>7, <2>3, <4>1, <4>3 DEF Downwards
    <3>3. QED
      BY <3>1, <3>2
  <2>6. SchemaInv'
    BY <1>2, <1>8, <2>2, <2>5 DEF SchemaInv, Recorded
  <2>7. ASSUME NEW q \in Runs \ {r}, Running(q)
        PROVE  /\ run[q].rev = run[q].from
               /\ ~(/\ run[q].from = 0 /\ run[q].to > 0
                    /\ run[q].rev > 0 \/ run[q].step > 3)
    <3>1. Claims(q) /\ run[r].locks \cap run[q].locks = {}
      BY DEF IInv, Exclusive
    <3>2. run[q].rev = run[q].from
      BY <2>1, <2>7, <3>1 DEF Claims
    <3>3. ASSUME run[q].from = 0, run[q].to > 0, run[q].rev > 0 \/ run[q].step > 3
          PROVE  FALSE
      <4>1. "properties" \in run[q].locks /\ versions = {}
        BY <2>7, <3>1, <3>3 DEF Claims
      <4>2. from = 0 /\ to > 0
        <5>1. {from} \ {0} = {}
          BY <2>1, <4>1 DEF Recorded
        <5>2. from = 0
          BY <5>1
        <5>3. QED
          BY <1>2, <1>10, <5>2
      <4>3. "properties" \in run[r].locks
        BY <1>1, <4>2 DEF Claims
      <4>4. QED
        BY <3>1, <4>1, <4>3
    <3>4. QED
      BY <3>2, <3>3
  <2>8. \A q \in Runs \ {r} : Claims(q)'
    BY <1>3, <2>7 DEF Claims, SameWork, Running
  <2>9. QED
    BY <1>3, <1>4, <1>5, <1>6, <2>6, <2>8 DEF IInv
<1>11. QED
  BY <1>9, <1>10

-----------------------------------------------------------------------------
(* What makes a run fail                                                   *)

LEMMA SchemaRecorded ==
    ASSUME IInv, NEW v \in 0..Newest, Recorded(v)
    PROVE  /\ schema \ Lasting = SchemaAt[v] \ Lasting
           /\ \A w \in 0..Newest : ReadRevision(w) \/ Recorded(w) => w = v
<1>1. PICK u \in 0..Newest : Recorded(u) /\ schema \ Lasting = SchemaAt[u] \ Lasting
  BY DEF IInv, SchemaInv
<1>2. \A w \in 0..Newest : ReadRevision(w) \/ Recorded(w) => w = v
  BY DEF Recorded, ReadRevision
<1>3. QED
  BY <1>1, <1>2

LEMMA FoundIsRecorded ==
    ASSUME IInv, NEW v \in 0..Newest, ReadRevision(v)
    PROVE  Recorded(v)
BY DEF IInv, SchemaInv, Recorded, ReadRevision

\* While the revision it has found stands, everything a run does is possible.
LEMMA NothingInTheWay ==
    ASSUME IInv, NEW r \in Runs, Running(r), Recorded(run[r].from)
    PROVE  VersionStands(r) /\ (AtStatement(r) => Possible(r))
<1>1. VersionStands(r)
  BY RunFacts DEF VersionStands, Recorded
<1>2. schema \ Lasting = SchemaAt[run[r].from] \ Lasting
  BY RunFacts, SchemaRecorded
<1>3. ASSUME AtStatement(r) PROVE Possible(r)
  <2> DEFINE k == run[r].step
             v == run[r].rev
  <2>1. AtRevision(r) /\ k \in 1..Len(Script(r))
    <3>1. AtRevision(r) /\ k <= Len(Script(r))
      BY <1>3 DEF AtStatement
    <3>2. QED
      BY <3>1, RunFacts, Directions
  <2>2. CASE Upward(r)
    <3>1. Upwards(r) /\ v \in 0..(Newest - 1) /\ Script(r) = UpgradeFrom[v]
      BY <2>1, <2>2, Directions
    <3>2. View(r) \ Lasting
             = (SchemaAt[v] \cup First(UpgradeFrom[v], k - 1)) \ Lasting
      BY <1>2, <3>1 DEF Upwards, View
    <3>3. CanAdd(View(r), UpgradeFrom[v][k])
      BY <2>1, <3>1, <3>2, AddsPossible
    <3>4. QED
      BY <2>2, <3>1, <3>3 DEF Possible, Statement
  <2>3. CASE ~Upward(r)
    <3>1. Downwards(r) /\ v \in 1..Newest /\ Script(r) = DowngradeFrom[v]
      BY <2>1, <2>3, Directions
    <3>2. View(r) \ Lasting
             = (SchemaAt[v] \ Gone(DowngradeFrom[v], k - 1)) \ Lasting
      BY <1>2, <3>1 DEF Downwards, View
    <3>3. CanDrop(View(r), DowngradeFrom[v][k])
      BY <2>1, <3>1, <3>2, DropsPossible
    <3>4. QED
      BY <2>3, <3>1, <3>3 DEF Possible, Statement
  <2>4. QED
    BY <2>2, <2>3
<1>4. QED
  BY <1>1, <1>3

Kept(q) ==
    /\ run'[q].stage = run[q].stage /\ run'[q].byHand = run[q].byHand
    /\ run'[q].to = run[q].to /\ run'[q].from = run[q].from
    /\ run'[q].after = run[q].after

\* What the steps of a run do to what the properties speak of.
Starts(r) ==
    /\ UNCHANGED versions
    /\ \A q \in Runs \ {r} : Kept(q) /\ (run'[q].met <=> run[q].met \/ Active(q))
    /\ run'[r].met <=> run[r].met \/ \E x \in Runs \ {r} : Active(x)
    /\ \/ /\ run[r].stage = "idle" /\ run'[r].stage = "connecting"
          /\ run'[r].byHand = run[r].byHand
       \/ /\ run[r].stage = "connecting" /\ run'[r].stage = "running"
          /\ ~run'[r].byHand /\ run'[r].to = Newest
          /\ Recorded(run'[r].from)
       \/ /\ run[r].stage = "idle" /\ run'[r].stage = "running"
          /\ run'[r].byHand
          /\ Recorded(run'[r].from)

Works == UNCHANGED versions /\ \A q \in Runs : Kept(q) /\ run'[q].met = run[q].met

Ends(r) ==
    /\ \A q \in Runs \ {r} : run'[q] = run[q]
    /\ run'[r].byHand = run[r].byHand /\ run'[r].met = run[r].met

LEMMA MetFacts ==
    ASSUME IInv, NEW r \in Runs, NEW update \in RunRecords, Meets(r, update)
    PROVE  /\ \A q \in Runs \ {r} : Kept(q) /\ (run'[q].met <=> run[q].met \/ Active(q))
           /\ run'[r].met <=> update.met \/ \E x \in Runs \ {r} : Active(x)
           /\ run'[r].stage = update.stage /\ run'[r].byHand = update.byHand
           /\ run'[r].to = update.to /\ run'[r].from = update.from
<1>1. \A q \in Runs : run[q] \in RunRecords
  BY RunFacts
<1>2. ASSUME NEW q \in Runs \ {r}
      PROVE  Kept(q) /\ (run'[q].met <=> run[q].met \/ Active(q))
  <2>1. run[q] \in RunRecords
    BY <1>1
  <2>2. CASE Active(q)
    <3>1. run'[q] = [run[q] EXCEPT !.met = TRUE]
      BY <2>2 DEF Meets
    <3>2. QED
      BY <2>1, <2>2, <3>1 DEF Kept, RunRecords
  <2>3. CASE ~Active(q)
    <3>1. run'[q] = run[q]
      BY <2>3 DEF Meets
    <3>2. QED
      BY <2>3, <3>1 DEF Kept
  <2>4. QED
    BY <2>2, <2>3
<1>3. run'[r] = [update EXCEPT !.met = @ \/ \E x \in Runs \ {r} : Active(x)]
  BY DEF Meets
<1> DEFINE others == \E x \in Runs \ {r} : Active(x)
<1>4. run'[r] = [update EXCEPT !.met = update.met \/ others]
  BY <1>3
<1> HIDE DEF others
<1>5. /\ run'[r].met = (update.met \/ others)
      /\ run'[r].stage = update.stage /\ run'[r].byHand = update.byHand
      /\ run'[r].to = update.to /\ run'[r].from = update.from
  BY <1>4 DEF RunRecords
<1>6. QED
  BY <1>2, <1>5 DEF others

LEMMA StartFacts ==
    ASSUME IInv, NEW r \in Runs, ReadBefore(r) \/ ByHand(r) \/ Upgrade(r)
    PROVE  Starts(r)
<1>0. run[r] \in RunRecords
  BY RunFacts
<1>1. CASE ReadBefore(r)
  <2>1. PICK v \in 0..Newest :
            Meets(r, [run[r] EXCEPT !.stage = "connecting", !.before = v])
    BY <1>1 DEF ReadBefore
  <2> DEFINE update == [run[r] EXCEPT !.stage = "connecting", !.before = v]
  <2>2. /\ update \in RunRecords /\ update.stage = "connecting"
        /\ update.byHand = run[r].byHand /\ update.met = run[r].met
    BY <1>0 DEF RunRecords, Stages
  <2>3. Meets(r, update)
    BY <2>1
  <2> HIDE DEF update
  <2>4. run[r].stage = "idle" /\ UNCHANGED versions
    BY <1>1 DEF ReadBefore
  <2>5. QED
    BY <2>2, <2>3, <2>4, MetFacts DEF Starts
<1>2. ASSUME NEW to \in 0..Newest, NEW byHand \in BOOLEAN, Begins(r, to, byHand)
      PROVE  /\ UNCHANGED versions
             /\ \A q \in Runs \ {r} : Kept(q) /\ (run'[q].met <=> run[q].met \/ Active(q))
             /\ run'[r].met <=> run[r].met \/ \E x \in Runs \ {r} : Active(x)
             /\ run'[r].stage = "running" /\ run'[r].byHand = byHand /\ run'[r].to = to
             /\ Recorded(run'[r].from)
  <2>1. PICK v \in 0..Newest :
            /\ ReadRevision(v)
            /\ Meets(r, [run[r] EXCEPT !.stage = "running", !.byHand = byHand, !.to = to,
                                       !.from = v, !.rev = v])
    BY <1>2 DEF Begins
  <2> DEFINE update == [run[r] EXCEPT !.stage = "running", !.byHand = byHand,
                                      !.to = to, !.from = v, !.rev = v]
  <2>2. /\ update \in RunRecords /\ update.stage = "running" /\ update.byHand = byHand
        /\ update.to = to /\ update.from = v /\ update.met = run[r].met
    BY <1>0 DEF RunRecords, Stages
  <2>3. Meets(r, update)
    BY <2>1
  <2> HIDE DEF update
  <2>4. Recorded(v) /\ UNCHANGED versions
    BY <1>2, <2>1, FoundIsRecorded DEF Begins
  <2>5. QED
    BY <2>2, <2>3, <2>4, MetFacts
<1>3. CASE Upgrade(r)
  <2>1. run[r].stage = "connecting" /\ Begins(r, Newest, FALSE)
    BY <1>3 DEF Upgrade
  <2>2. Newest \in 0..Newest
    BY ManyRevisions
  <2>3. QED
    BY <1>2, <2>1, <2>2 DEF Starts
<1>4. CASE ByHand(r)
  <2>1. run[r].stage = "idle" /\ \E to \in 0..Newest : Begins(r, to, TRUE)
    BY <1>4 DEF ByHand
  <2>2. QED
    BY <1>2, <2>1 DEF Starts
<1>5. QED
  BY <1>1, <1>3, <1>4

LEMMA WorkFacts ==
    ASSUME IInv, NEW r \in Runs, Execute(r) \/ MarkVersion(r)
    PROVE  Works
<1>1. run \in [Runs -> RunRecords] /\ run[r] \in RunRecords
  BY RunFacts DEF IInv
<1>2. CASE Execute(r)
  <2> DEFINE added == IF Upward(r) THEN run[r].added \cup {Statement(r)} ELSE run[r].added
             dropped == IF Upward(r) THEN run[r].dropped
                        ELSE run[r].dropped \cup Parts[Statement(r)]
             step == run[r].step + 1
             locks == run[r].locks \cup Locks(r)
  <2>1. run' = [run EXCEPT ![r] = [run[r] EXCEPT !.step = step, !.locks = locks,
                                                 !.added = added, !.dropped = dropped]]
        /\ UNCHANGED versions
    BY <1>1, <1>2 DEF Execute
  <2> HIDE DEF added, dropped, step, locks
  <2>2. run'[r] = [run[r] EXCEPT !.step = step, !.locks = locks, !.added = added,
                                 !.dropped = dropped]
        /\ \A q \in Runs \ {r} : run'[q] = run[q]
    BY <1>1, <2>1
  <2>3. Kept(r) /\ run'[r].met = run[r].met
    BY <1>1, <2>2 DEF Kept, RunRecords
  <2>4. QED
    BY <2>1, <2>2, <2>3 DEF Works, Kept
<1>3. CASE MarkVersion(r)
  <2> DEFINE rev == IF Upward(r) THEN run[r].rev + 1 ELSE run[r].rev - 1
             locks == run[r].locks \cup {"version row"}
  <2>1. run' = [run EXCEPT ![r] = [run[r] EXCEPT !.rev = rev, !.step = 1,
                                                 !.locks = locks]]
        /\ UNCHANGED versions
    BY <1>1, <1>3 DEF MarkVersion
  <2> HIDE DEF rev, locks
  <2>2. run'[r] = [run[r] EXCEPT !.rev = rev, !.step = 1, !.locks = locks]
        /\ \A q \in Runs \ {r} : run'[q] = run[q]
    BY <1>1, <2>1
  <2>3. Kept(r) /\ run'[r].met = run[r].met
    BY <1>1, <2>2 DEF Kept, RunRecords
  <2>4. QED
    BY <2>1, <2>2, <2>3 DEF Works, Kept
<1>4. QED
  BY <1>2, <1>3

LEMMA StopFacts ==
    ASSUME IInv, NEW r \in Runs, NEW stage \in {"failed", "cut off"},
           RolledBack(r, stage)
    PROVE  UNCHANGED versions /\ Ends(r) /\ run'[r].stage = stage
<1>1. run \in [Runs -> RunRecords] /\ UNCHANGED versions
  BY DEF IInv, RolledBack
<1>2. run'[r] = [NewRun EXCEPT !.stage = stage, !.byHand = run[r].byHand,
                               !.before = run[r].before, !.met = run[r].met]
      /\ \A q \in Runs \ {r} : run'[q] = run[q]
  BY <1>1 DEF RolledBack
<1>3. /\ run'[r].stage = stage /\ run'[r].byHand = run[r].byHand
      /\ run'[r].met = run[r].met
  BY <1>2, NewRunType DEF RunRecords
<1>4. QED
  BY <1>1, <1>2, <1>3 DEF Ends

\* A commit of an event's run leaves the head recorded.
LEMMA CommitFacts ==
    ASSUME IInv, NEW r \in Runs, Commit(r)
    PROVE  /\ Ends(r) /\ Running(r)
           /\ run'[r].stage = IF run[r].byHand THEN "answered" ELSE "committed"
           /\ run[r].to = Newest /\ (Recorded(run[r].from) \/ Recorded(Newest))
                 => Recorded(Newest)'
<1> DEFINE stage == IF run[r].byHand THEN "answered" ELSE "committed"
<1>1. run \in [Runs -> RunRecords] /\ Running(r) /\ run[r].rev = run[r].to
  BY DEF IInv, Commit
<1>2. run'[r] = [NewRun EXCEPT !.stage = stage, !.byHand = run[r].byHand,
                               !.before = run[r].before, !.met = run[r].met]
      /\ \A q \in Runs \ {r} : run'[q] = run[q]
  BY <1>1 DEF Commit
<1> HIDE DEF stage
<1>3. /\ run'[r].stage = stage /\ run'[r].byHand = run[r].byHand
      /\ run'[r].met = run[r].met
  BY <1>2, NewRunType DEF RunRecords
<1>4. ASSUME run[r].to = Newest, Recorded(run[r].from) \/ Recorded(Newest)
      PROVE  Recorded(Newest)'
  <2>1. CASE run[r].rev = run[r].from
    BY <1>1, <1>4, <2>1 DEF Commit, Recorded
  <2>2. CASE run[r].rev # run[r].from
    <3>1. Recorded(run[r].from)
      BY <1>1, <2>2 DEF IInv, Claims
    <3>2. versions' = {Newest} \ {0}
      BY <1>1, <1>4, <2>2, <3>1 DEF Commit, Recorded
    <3>3. QED
      BY <3>2 DEF Recorded
  <2>3. QED
    BY <2>1, <2>2
<1>5. QED
  BY <1>1, <1>2, <1>3, <1>4 DEF Ends, stage

LEMMA ReadAfterFacts ==
    ASSUME IInv, NEW r \in Runs, ReadAfter(r)
    PROVE  /\ UNCHANGED versions /\ Ends(r) /\ run[r].stage = "committed"
           /\ \E v \in 0..Newest :
                 /\ ReadRevision(v)
                 /\ run'[r].stage = IF v = 0 THEN "failed" ELSE "answered"
                 /\ run'[r].after = v
<1>1. PICK v \in 0..Newest :
          /\ ReadRevision(v)
          /\ run' = [run EXCEPT ![r].stage = IF v = 0 THEN "failed" ELSE "answered",
                                ![r].after = v]
  BY DEF ReadAfter
<1> DEFINE stage == IF v = 0 THEN "failed" ELSE "answered"
<1>2. run \in [Runs -> RunRecords] /\ run[r] \in RunRecords
      /\ run[r].stage = "committed" /\ UNCHANGED versions
  BY RunFacts DEF IInv, ReadAfter
<1>3. run' = [run EXCEPT ![r] = [run[r] EXCEPT !.stage = stage, !.after = v]]
  BY <1>1, <1>2
<1>4. run'[r] = [run[r] EXCEPT !.stage = stage, !.after = v]
      /\ \A q \in Runs \ {r} : run'[q] = run[q]
  BY <1>2, <1>3
<1> HIDE DEF stage
<1>5. /\ run'[r].stage = stage /\ run'[r].after = v
      /\ run'[r].byHand = run[r].byHand /\ run'[r].met = run[r].met
  BY <1>2, <1>4 DEF RunRecords
<1>6. QED
  BY <1>1, <1>2, <1>4, <1>5 DEF Ends, stage

-----------------------------------------------------------------------------
(* Who fails                                                               *)

\* The runs of events upgrade to the head.
EventsUpgrade ==
    \A r \in Runs :
        /\ run[r].stage \in {"idle", "connecting", "committed"} => ~run[r].byHand
        /\ Running(r) /\ ~run[r].byHand => run[r].to = Newest

\* A run that has met no other is the only one, and what it has found stands.
Alone ==
    \A r \in Runs :
        /\ run[r].stage = "failed" => run[r].met
        /\ Active(r) /\ ~run[r].met =>
              /\ \A q \in Runs \ {r} : ~Active(q)
              /\ Running(r) => Recorded(run[r].from)
              /\ run[r].stage = "committed" => Recorded(Newest)

OnlyEvents == \A r \in Runs : run[r].stage # "cut off" /\ ~run[r].byHand

Landed ==
    \E r \in Runs : \/ run[r].stage = "committed"
                    \/ run[r].stage = "answered" /\ run[r].after = Newest

\* Until an event's run has committed, what the others have found stands; so none
\* has failed but for one that is still active.  Then the head is recorded for good.
Heads ==
    OnlyEvents =>
        /\ IF Landed THEN Recorded(Newest)
           ELSE \A r \in Runs : Running(r) => Recorded(run[r].from)
        /\ \A r \in Runs :
              /\ run[r].stage = "answered" => run[r].after = Newest
              /\ run[r].stage = "failed" => Landed \/ \E q \in Runs : Active(q)

WhoFails == IInv /\ EventsUpgrade /\ Alone /\ Heads

LEMMA EventsUpgradeSteps ==
    ASSUME IInv, EventsUpgrade, NEW r \in Runs,
           \/ Starts(r)
           \/ Works
           \/ Ends(r) /\ run'[r].stage \in {"failed", "cut off", "answered"}
           \/ Ends(r) /\ run'[r].stage = "committed" /\ ~run[r].byHand
    PROVE  EventsUpgrade'
<1> SUFFICES ASSUME NEW q \in Runs
             PROVE  /\ run'[q].stage \in {"idle", "connecting", "committed"}
                          => ~run'[q].byHand
                    /\ Running(q)' /\ ~run'[q].byHand => run'[q].to = Newest
  BY DEF EventsUpgrade
<1>1. CASE Starts(r)
  <2>1. CASE q = r
    BY <1>1, <2>1 DEF Starts, EventsUpgrade, Running
  <2>2. CASE q # r
    BY <1>1, <2>2 DEF Starts, Kept, EventsUpgrade, Running
  <2>3. QED
    BY <2>1, <2>2
<1>2. CASE Works
  BY <1>2 DEF Works, Kept, EventsUpgrade, Running
<1>3. CASE /\ Ends(r)
           /\ \/ run'[r].stage \in {"failed", "cut off", "answered"}
              \/ run'[r].stage = "committed" /\ ~run[r].byHand
  <2>1. CASE q = r
    BY <1>3, <2>1 DEF Ends, Running
  <2>2. CASE q # r
    BY <1>3, <2>2 DEF Ends, EventsUpgrade, Running
  <2>3. QED
    BY <2>1, <2>2
<1>4. QED
  BY <1>1, <1>2, <1>3

LEMMA AloneStarts == ASSUME Alone, NEW r \in Runs, Starts(r) PROVE Alone'
<1>1. \A q \in Runs \ {r} : Active(q)' <=> Active(q)
  BY DEF Starts, Kept, Active, Over
<1>2. ASSUME NEW q \in Runs, q # r
      PROVE  /\ run'[q].stage = "failed" => run'[q].met
             /\ Active(q)' => run'[q].met
  BY <1>1, <1>2 DEF Starts, Kept, Alone
<1>3. run'[r].stage # "failed" /\ run'[r].stage # "committed"
      /\ (Running(r)' => Recorded(run[r].from)')
  BY DEF Starts, Recorded, Running
<1>4. ~run'[r].met => \A q \in Runs \ {r} : ~Active(q)'
  BY <1>1 DEF Starts
<1>5. QED
  BY <1>2, <1>3, <1>4 DEF Alone

LEMMA AloneWorks == ASSUME Alone, Works PROVE Alone'
<1>1. \A q \in Runs : (Active(q)' <=> Active(q)) /\ (Running(q)' <=> Running(q))
  BY DEF Works, Kept, Active, Over, Running
<1>2. \A q \in Runs : Recorded(run[q].from)' <=> Recorded(run[q].from)
  BY DEF Works, Kept, Recorded
<1>3. Recorded(Newest)' <=> Recorded(Newest)
  BY DEF Works, Recorded
<1>4. QED
  BY <1>1, <1>2, <1>3 DEF Alone, Works, Kept

\* When a run that is active ends, every other that is has met it.
LEMMA AloneEnds ==
    ASSUME Alone, NEW r \in Runs, Active(r), Ends(r),
           run'[r].stage \in {"failed", "cut off", "answered", "committed"},
           run'[r].stage = "failed" => run[r].met,
           run'[r].stage = "committed" /\ ~run[r].met => Recorded(Newest)'
    PROVE  Alone'
<1>1. \A q \in Runs \ {r} : run'[q] = run[q] /\ (Active(q)' <=> Active(q))
  BY DEF Ends, Active, Over
<1>2. ASSUME NEW q \in Runs, q # r
      PROVE  /\ run'[q].stage = "failed" => run'[q].met
             /\ Active(q)' => run'[q].met
  BY <1>1, <1>2 DEF Alone
<1>3. ~Running(r)' /\ (run'[r].met <=> run[r].met)
  BY DEF Ends, Running
<1>4. ASSUME Active(r)', ~run'[r].met
      PROVE  /\ \A q \in Runs \ {r} : ~Active(q)'
             /\ run'[r].stage = "committed" => Recorded(Newest)'
  BY <1>1, <1>3, <1>4 DEF Alone
<1>5. QED
  BY <1>2, <1>3, <1>4 DEF Alone

LEMMA HeadsStart ==
    ASSUME EventsUpgrade, Heads, NEW r \in Runs, Starts(r)
    PROVE  Heads'
<1> SUFFICES ASSUME OnlyEvents'
             PROVE  (/\ IF Landed THEN Recorded(Newest)
                        ELSE \A q \in Runs : Running(q) => Recorded(run[q].from)
                     /\ \A q \in Runs :
                           /\ run[q].stage = "answered" => run[q].after = Newest
                           /\ run[q].stage = "failed"
                                 => Landed \/ \E x \in Runs : Active(x))'
  BY DEF Heads
<1>1. OnlyEvents
  <2>1. run[r].stage \in {"idle", "connecting"} /\ ~run[r].byHand
    BY DEF Starts, EventsUpgrade
  <2>2. QED
    BY <2>1 DEF Starts, Kept, OnlyEvents
<1>2. run'[r].stage \in {"connecting", "running"} /\ Active(r)'
  BY DEF Starts, Active, Over
<1>3. Landed' <=> Landed
  <2>1. run[r].stage \in {"idle", "connecting"}
    BY DEF Starts
  <2>2. QED
    BY <1>2, <2>1 DEF Starts, Kept, Landed
<1>4. Landed => Recorded(Newest)'
  BY <1>1 DEF Heads, Starts, Recorded
<1>5. ASSUME ~Landed, NEW q \in Runs, Running(q)' PROVE Recorded(run[q].from)'
  <2>1. CASE q = r
    BY <1>5, <2>1 DEF Starts, Recorded, Running
  <2>2. CASE q # r
    BY <1>1, <1>5, <2>2 DEF Starts, Kept, Heads, Recorded, Running
  <2>3. QED
    BY <2>1, <2>2
<1>6. ASSUME NEW q \in Runs, run'[q].stage = "answered" PROVE run'[q].after = Newest
  BY <1>1, <1>2, <1>6 DEF Starts, Kept, Heads
<1>7. QED
  BY <1>2, <1>3, <1>4, <1>5, <1>6

LEMMA HeadsWork == ASSUME Heads, Works PROVE Heads'
<1>1. /\ OnlyEvents' <=> OnlyEvents
      /\ Landed' <=> Landed
      /\ Recorded(Newest)' <=> Recorded(Newest)
  BY DEF Works, Kept, OnlyEvents, Landed, Recorded
<1>2. \A q \in Runs : /\ Active(q)' <=> Active(q)
                      /\ Running(q)' <=> Running(q)
                      /\ Recorded(run[q].from)' <=> Recorded(run[q].from)
  BY DEF Works, Kept, Active, Over, Running, Recorded
<1>3. QED
  BY <1>1, <1>2 DEF Heads, Works, Kept

\* A run of an event fails only if another has got there or is still active.
LEMMA HeadsStop ==
    ASSUME Heads, NEW r \in Runs, Running(r), Ends(r), run'[r].stage = "failed",
           UNCHANGED versions,
           \/ ~Recorded(run[r].from)
           \/ \E q \in Runs : q # r /\ Running(q)
    PROVE  Heads'
<1> SUFFICES ASSUME OnlyEvents'
             PROVE  (/\ IF Landed THEN Recorded(Newest)
                        ELSE \A q \in Runs : Running(q) => Recorded(run[q].from)
                     /\ \A q \in Runs :
                           /\ run[q].stage = "answered" => run[q].after = Newest
                           /\ run[q].stage = "failed"
                                 => Landed \/ \E x \in Runs : Active(x))'
  BY DEF Heads
<1>1. OnlyEvents /\ run[r].stage = "running"
  BY DEF Ends, OnlyEvents, Running
<1>2. Landed' <=> Landed
  BY <1>1 DEF Ends, Landed
<1>3. Landed \/ \E q \in Runs : q # r /\ Running(q)
  BY <1>1 DEF Heads
<1>4. (\E q \in Runs : q # r /\ Running(q)) => \E q \in Runs : Active(q)'
  BY DEF Ends, Running, Active, Over
<1>5. Landed => Recorded(Newest)'
  BY <1>1 DEF Heads, Recorded
<1>6. ASSUME ~Landed, NEW q \in Runs, Running(q)' PROVE Recorded(run[q].from)'
  <2>1. q # r /\ run'[q] = run[q]
    BY <1>6 DEF Ends, Running
  <2>2. QED
    BY <1>1, <1>6, <2>1 DEF Heads, Running, Recorded
<1>7. ASSUME NEW q \in Runs, run'[q].stage = "answered" PROVE run'[q].after = Newest
  BY <1>1, <1>7 DEF Ends, Heads
<1>8. QED
  BY <1>2, <1>3, <1>4, <1>5, <1>6, <1>7

\* A run of an event that commits, or that reads what it has committed.
LEMMA HeadsLand ==
    ASSUME Heads, NEW r \in Runs, Ends(r),
           OnlyEvents' => /\ OnlyEvents /\ Recorded(Newest)'
                          /\ \/ run'[r].stage = "committed"
                             \/ run'[r].stage = "answered" /\ run'[r].after = Newest
    PROVE  Heads'
<1> SUFFICES ASSUME OnlyEvents'
             PROVE  (/\ IF Landed THEN Recorded(Newest)
                        ELSE \A q \in Runs : Running(q) => Recorded(run[q].from)
                     /\ \A q \in Runs :
                           /\ run[q].stage = "answered" => run[q].after = Newest
                           /\ run[q].stage = "failed"
                                 => Landed \/ \E x \in Runs : Active(x))'
  BY DEF Heads
<1>1. Landed' /\ Recorded(Newest)'
  BY DEF Landed
<1>2. ASSUME NEW q \in Runs, run'[q].stage = "answered" PROVE run'[q].after = Newest
  <2>1. CASE q = r
    BY <1>2, <2>1
  <2>2. CASE q # r
    BY <1>2, <2>2 DEF Ends, Heads
  <2>3. QED
    BY <2>1, <2>2
<1>3. QED
  BY <1>1, <1>2

LEMMA FailSteps ==
    ASSUME WhoFails, NEW r \in Runs, Fail(r) \/ Deadlocked(r)
    PROVE  (EventsUpgrade /\ Alone /\ Heads)'
<1>1. IInv /\ EventsUpgrade /\ Alone /\ Heads
  BY DEF WhoFails
<1>2. Running(r) /\ RolledBack(r, "failed")
  BY DEF Fail, Deadlocked, AtStatement, AtVersion, AtRevision, Waits
<1>3. ~Recorded(run[r].from) \/ \E q \in Runs : q # r /\ Running(q)
  <2>1. CASE Fail(r)
    <3>1. \/ AtStatement(r) /\ ~Possible(r)
          \/ ~VersionStands(r)
      BY <2>1 DEF Fail
    <3>2. QED
      BY <1>1, <1>2, <3>1, NothingInTheWay
  <2>2. CASE Deadlocked(r)
    BY <2>2 DEF Deadlocked, Waits
  <2>3. QED
    BY <2>1, <2>2
<1>4. UNCHANGED versions /\ Ends(r) /\ run'[r].stage = "failed"
  BY <1>1, <1>2, StopFacts
<1>5. Active(r) /\ \A q \in Runs : Running(q) => Active(q)
  BY <1>2 DEF Running, Active, Over
<1>6. run[r].met
  BY <1>1, <1>2, <1>3, <1>5 DEF Alone
<1>7. EventsUpgrade'
  BY <1>1, <1>4, EventsUpgradeSteps
<1>8. Alone'
  BY <1>1, <1>4, <1>5, <1>6, AloneEnds
<1>9. Heads'
  BY <1>1, <1>2, <1>3, <1>4, HeadsStop
<1>10. QED
  BY <1>7, <1>8, <1>9

LEMMA CutOffSteps ==
    ASSUME WhoFails, NEW r \in Runs, CutOff(r)
    PROVE  (EventsUpgrade /\ Alone /\ Heads)'
<1>1. IInv /\ EventsUpgrade /\ Alone /\ Heads
  BY DEF WhoFails
<1>2. Active(r) /\ Ends(r) /\ run'[r].stage = "cut off"
  BY <1>1, StopFacts DEF CutOff
<1>3. EventsUpgrade'
  BY <1>1, <1>2, EventsUpgradeSteps
<1>4. Alone'
  BY <1>1, <1>2, AloneEnds
<1>5. Heads'
  BY <1>2 DEF Heads, OnlyEvents
<1>6. QED
  BY <1>3, <1>4, <1>5

LEMMA LandSteps ==
    ASSUME WhoFails, NEW r \in Runs, Commit(r) \/ ReadAfter(r)
    PROVE  (EventsUpgrade /\ Alone /\ Heads)'
<1>1. IInv /\ EventsUpgrade /\ Alone /\ Heads
  BY DEF WhoFails
<1>2. CASE Commit(r)
  <2>1. /\ Ends(r) /\ Running(r) /\ Active(r)
        /\ run'[r].stage = IF run[r].byHand THEN "answered" ELSE "committed"
        /\ run[r].to = Newest /\ (Recorded(run[r].from) \/ Recorded(Newest))
              => Recorded(Newest)'
    BY <1>1, <1>2, CommitFacts DEF Running, Active, Over
  <2>2. ~run[r].byHand => run[r].to = Newest
    BY <1>1, <2>1 DEF EventsUpgrade
  <2>3. EventsUpgrade'
    BY <1>1, <2>1, EventsUpgradeSteps
  <2>4. ~run[r].met => Recorded(run[r].from)
    BY <1>1, <2>1 DEF Alone
  <2>5. Alone'
    BY <1>1, <2>1, <2>2, <2>4, AloneEnds
  <2>6. ASSUME OnlyEvents'
        PROVE  OnlyEvents /\ Recorded(Newest)' /\ run'[r].stage = "committed"
    <3>1. OnlyEvents /\ ~run[r].byHand
      BY <2>1, <2>6 DEF OnlyEvents, Ends, Running
    <3>2. Recorded(run[r].from) \/ Recorded(Newest)
      BY <1>1, <2>1, <3>1 DEF Heads
    <3>3. QED
      BY <2>1, <2>2, <3>1, <3>2
  <2>7. Heads'
    BY <1>1, <2>1, <2>6, HeadsLand
  <2>8. QED
    BY <2>3, <2>5, <2>7
<1>3. CASE ReadAfter(r)
  <2>1. UNCHANGED versions /\ Ends(r) /\ run[r].stage = "committed" /\ Active(r)
    BY <1>1, <1>3, ReadAfterFacts DEF Active, Over
  <2>2. PICK v \in 0..Newest : /\ ReadRevision(v)
                               /\ run'[r].stage = IF v = 0 THEN "failed" ELSE "answered"
                               /\ run'[r].after = v
    BY <1>1, <1>3, ReadAfterFacts
  <2>3. ASSUME Recorded(Newest)
        PROVE  run'[r].stage = "answered" /\ run'[r].after = Newest
    <3>1. v = Newest /\ v # 0
      BY <1>1, <2>2, <2>3, SchemaRecorded, ManyRevisions
    <3>2. QED
      BY <2>2, <3>1
  <2>4. EventsUpgrade'
    BY <1>1, <2>1, <2>2, EventsUpgradeSteps
  <2>5. ~run[r].met => Recorded(Newest)
    BY <1>1, <2>1 DEF Alone
  <2>6. Alone'
    BY <1>1, <2>1, <2>2, <2>3, <2>5, AloneEnds
  <2>7. ASSUME OnlyEvents' PROVE OnlyEvents /\ Recorded(Newest)
    <3>1. OnlyEvents
      BY <2>1, <2>7 DEF OnlyEvents, Ends
    <3>2. QED
      BY <1>1, <2>1, <3>1 DEF Heads, Landed
  <2>8. Heads'
    BY <1>1, <2>1, <2>3, <2>7, HeadsLand DEF Recorded
  <2>9. QED
    BY <2>4, <2>6, <2>8
<1>4. QED
  BY <1>2, <1>3

-----------------------------------------------------------------------------
(* Theorems                                                                *)

LEMMA InvInit == Init => IInv
<1> SUFFICES ASSUME Init PROVE IInv
  OBVIOUS
<1>1. PICK v \in 0..Newest :
          /\ versions = {v} \ {0}
          /\ schema = SchemaAt[v] \cup (IF v = 0 THEN {} ELSE {"alembic_version"})
  BY DEF Init
<1>2. SchemaInv
  BY <1>1, NamesOfAll DEF SchemaInv, Recorded, Lasting
<1>4. NewRun.stage = "idle" /\ NewRun.added = {} /\ NewRun.dropped = {}
      /\ NewRun.step = 1 /\ NewRun.locks = {}
  BY DEF NewRun
<1>5. run \in [Runs -> RunRecords] /\ \A r \in Runs : run[r] = NewRun
  BY NewRunType DEF Init
<1>6. \A r \in Runs : Progress(r) /\ Claims(r)
  BY <1>4, <1>5 DEF Progress, Claims, Running, Untouched
<1>7. Exclusive
  BY <1>4, <1>5 DEF Exclusive
<1>8. QED
  BY <1>2, <1>5, <1>6, <1>7 DEF IInv

LEMMA InvStep == IInv /\ [Next]_vars => IInv'
<1> SUFFICES ASSUME IInv, [Next]_vars PROVE IInv'
  OBVIOUS
<1>1. CASE UNCHANGED vars
  <2>1. \A r \in Runs : SameWork(r)
    BY <1>1 DEF vars, SameWork
  <2>2. \A r \in Runs : Progress(r)' /\ Claims(r)'
    BY <1>1, <2>1, ProgressStays, ClaimsStay DEF IInv, vars
  <2>3. QED
    BY <1>1, <2>2 DEF IInv, vars, Exclusive, SchemaInv, Recorded
<1>2. ASSUME NEW r \in Runs, ReadBefore(r) PROVE IInv'
  BY <1>2, ReadBeforeSteps
<1>3. ASSUME NEW r \in Runs, ByHand(r) PROVE IInv'
  BY <1>3, BeginsSteps DEF ByHand
<1>4. ASSUME NEW r \in Runs, Upgrade(r) PROVE IInv'
  <2>1. Newest \in 0..Newest /\ FALSE \in BOOLEAN
    BY ManyRevisions
  <2>2. QED
    BY <1>4, <2>1, BeginsSteps DEF Upgrade
<1>5. ASSUME NEW r \in Runs, Execute(r) PROVE IInv'
  BY <1>5, ExecuteSteps
<1>6. ASSUME NEW r \in Runs, MarkVersion(r) PROVE IInv'
  BY <1>6, MarkVersionSteps
<1>7. ASSUME NEW r \in Runs, Fail(r) \/ Deadlocked(r) \/ CutOff(r) PROVE IInv'
  BY <1>7, RolledBackSteps DEF Fail, Deadlocked, CutOff
<1>8. ASSUME NEW r \in Runs, Commit(r) PROVE IInv'
  BY <1>8, CommitSteps
<1>9. ASSUME NEW r \in Runs, ReadAfter(r) PROVE IInv'
  BY <1>9, ReadAfterSteps
<1>10. QED
  BY <1>1, <1>2, <1>3, <1>4, <1>5, <1>6, <1>7, <1>8, <1>9 DEF Next, Step

LEMMA Invariant == Spec => []IInv
BY InvInit, InvStep, PTL DEF Spec

LEMMA WhoFailsInit == Init => WhoFails
<1> SUFFICES ASSUME Init PROVE WhoFails
  OBVIOUS
<1>1. IInv
  BY InvInit
<1>2. \A r \in Runs : run[r].stage = "idle" /\ ~run[r].byHand
  BY DEF Init, NewRun
<1>3. QED
  BY <1>1, <1>2 DEF WhoFails, EventsUpgrade, Alone, Heads, Active, Over, Running, Landed

LEMMA WhoFailsStep == WhoFails /\ [Next]_vars => WhoFails'
<1> SUFFICES ASSUME WhoFails, [Next]_vars PROVE WhoFails'
  OBVIOUS
<1>1. IInv /\ EventsUpgrade /\ Alone /\ Heads
  BY DEF WhoFails
<1>2. IInv'
  BY <1>1, InvStep
<1>3. ASSUME NEW r \in Runs, ReadBefore(r) \/ ByHand(r) \/ Upgrade(r) PROVE WhoFails'
  BY <1>1, <1>2, <1>3, StartFacts, EventsUpgradeSteps, AloneStarts, HeadsStart
     DEF WhoFails
<1>4. ASSUME NEW r \in Runs, Execute(r) \/ MarkVersion(r) PROVE WhoFails'
  BY <1>1, <1>2, <1>4, WorkFacts, EventsUpgradeSteps, AloneWorks, HeadsWork DEF WhoFails
<1>5. ASSUME NEW r \in Runs, Fail(r) \/ Deadlocked(r) PROVE WhoFails'
  BY <1>2, <1>5, FailSteps DEF WhoFails
<1>6. ASSUME NEW r \in Runs, CutOff(r) PROVE WhoFails'
  BY <1>2, <1>6, CutOffSteps DEF WhoFails
<1>7. ASSUME NEW r \in Runs, Commit(r) \/ ReadAfter(r) PROVE WhoFails'
  BY <1>2, <1>7, LandSteps DEF WhoFails
<1>8. CASE UNCHANGED vars
  BY <1>1, <1>2, <1>8 DEF vars, WhoFails, EventsUpgrade, Alone, Heads, OnlyEvents, Landed,
                          Active, Over, Running, Recorded
<1>9. QED
  BY <1>3, <1>4, <1>5, <1>6, <1>7, <1>8 DEF Next, Step

LEMMA WhoFailsAlways == Spec => []WhoFails
BY WhoFailsInit, WhoFailsStep, PTL DEF Spec

\* The rows, the schema and the progress of every run are of their types, for any
\* number of runs.
THEOREM TypeCorrect == Spec => []TypeOK
<1>1. ASSUME IInv PROVE TypeOK
  <2>1. versions \subseteq 1..Newest /\ schema \subseteq Names
    BY <1>1, ManyRevisions DEF IInv, SchemaInv, Recorded
  <2>2. ASSUME NEW r \in Runs
        PROVE  /\ run[r].stage \in Stages
               /\ {run[r].before, run[r].after, run[r].to, run[r].from, run[r].rev}
                     \subseteq 0..Newest
               /\ run[r].added \subseteq Names
               /\ ~Running(r) => run[r].locks = {}
    BY <1>1 DEF IInv, RunRecords, Progress
  <2>3. ASSUME NEW r \in Runs, AtRevision(r)
        PROVE  run[r].step \in 1..(Len(Script(r)) + 1)
    BY <1>1, <2>3, Directions, RunFacts
  <2>4. QED
    BY <2>1, <2>2, <2>3 DEF TypeOK, Stages
<1>2. QED
  BY <1>1, Invariant, PTL

\* Whatever runs overlap, upgrade, downgrade, wait for each other or are cut off,
\* alembic_version names one revision and the schema is that revision's.
THEOREM SchemaAsRecorded == Spec => []SchemaFollowsVersion
<1>1. ASSUME IInv PROVE SchemaFollowsVersion
  <2>1. PICK v \in 0..Newest :
            Recorded(v) /\ schema \ Lasting = SchemaAt[v] \ Lasting
    BY <1>1 DEF IInv, SchemaInv
  <2>2. Cardinality(versions) <= 1
    <3>1. versions = {} \/ versions = {v}
      BY <2>1 DEF Recorded
    <3>2. QED
      <4>1. Cardinality({}) = 0 /\ Cardinality({v}) = 1
        BY FS_EmptySet, FS_Singleton
      <4>2. QED
        BY <3>1, <4>1
  <2>3. ASSUME NEW w \in 0..Newest, ReadRevision(w)
        PROVE  w = v
    BY <2>1, <2>3, ManyRevisions DEF ReadRevision, Recorded
  <2>4. SchemaAt[v] \ Lasting = SchemaAt[v] \ {"pgcrypto"}
    BY NamesOfAll DEF Lasting
  <2>5. QED
    BY <2>1, <2>2, <2>3, <2>4 DEF SchemaFollowsVersion, Lasting
<1>2. QED
  BY <1>1, Invariant, PTL

\* From any revision to any other there is nothing in the way: a run fails only if
\* another was active while it was.
THEOREM FailuresExplained == Spec => []FailsOnlyByOverlap
<1>1. WhoFails => FailsOnlyByOverlap
  BY DEF WhoFails, Alone, FailsOnlyByOverlap
<1>2. QED
  BY <1>1, WhoFailsAlways, PTL

\* When every run is over, all by events and none cut off, one has answered with the
\* head and the schema is there, though others may have failed.
THEOREM HeadReached ==
    ASSUME Runs # {}
    PROVE  Spec => []SomebodyReachesHead
<1>0. Newest # 0
  BY ManyRevisions
<1>1. ASSUME WhoFails PROVE SomebodyReachesHead
  <2> SUFFICES ASSUME \A r \in Runs :
                         Over(r) /\ run[r].stage # "cut off" /\ ~run[r].byHand
               PROVE  /\ versions = {Newest}
                      /\ \E r \in Runs :
                            run[r].stage = "answered" /\ run[r].after = Newest
    BY DEF SomebodyReachesHead
  <2>1. /\ OnlyEvents
        /\ \A r \in Runs : ~Active(r) /\ run[r].stage \in {"answered", "failed"}
    BY DEF OnlyEvents, Over, Active
  <2>2. PICK r \in Runs : TRUE
    OBVIOUS
  <2>3. Landed
    BY <1>1, <2>1, <2>2 DEF WhoFails, Heads, Landed
  <2>4. Recorded(Newest)
    BY <1>1, <2>1, <2>3 DEF WhoFails, Heads
  <2>5. versions = {Newest}
    BY <1>0, <2>4 DEF Recorded
  <2>6. QED
    BY <2>1, <2>3, <2>5 DEF Landed
<1>2. QED
  BY <1>1, WhoFailsAlways, PTL

=============================================================================
