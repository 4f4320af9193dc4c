-------------------------------- MODULE Schema --------------------------------
(***************************************************************************)
(* The revisions of the database schema (backend/migrations/versions).  An *)
(* object is a table, or a column, constraint, index, default or policy    *)
(* that belongs to one.  Each revision lists what its upgrade adds, in     *)
(* order, and what its downgrade drops.  Column types are left out, and so *)
(* is what cannot fail or is dropped only with its table.                  *)
(***************************************************************************)
EXTENDS Naturals, Sequences, SequencesExt

\* of: dropped with any of these; refs: the unique constraints its foreign keys
\* refer to, which stay while it does.
Object(name, of, refs) == [name |-> name, of |-> of, refs |-> refs]

Table(t)          == Object(t, {}, {})
Referring(t, cs)  == Object(t, {}, cs)
On(t, part)       == Object(part, {t}, {})

\* Written IF NOT EXISTS, checked first, or a switch that may be set again.
IfNotExists == {"alembic_version", "pgcrypto", "audit_logs_rls", "audit_logs_forced_rls"}
IfExists    == {"audit_logs_tenant_isolation", "audit_logs_rls", "audit_logs_forced_rls"}

-----------------------------------------------------------------------------

InitialTables ==
    [up |-> << Table("pgcrypto"),
               Table("properties"),
               On("properties", "ix_properties_tenant_id"),
               On("properties", "ix_properties_tenant_created_at"),
               Table("audit_logs"),
               On("audit_logs", "ix_audit_logs_tenant_created_at"),
               On("audit_logs", "ix_audit_logs_tenant_entity") >>,
     down |-> << "ix_audit_logs_tenant_entity", "ix_audit_logs_tenant_created_at",
                 "audit_logs",
                 "ix_properties_tenant_created_at", "ix_properties_tenant_id",
                 "properties" >>]

AddLeases ==
    [up |-> << On("properties", "uq_properties_tenant_property"),
               Referring("leases", {"uq_properties_tenant_property"}),
               On("leases", "ix_leases_tenant_created_at"),
               On("leases", "ix_leases_tenant_property") >>,
     down |-> << "ix_leases_tenant_property", "ix_leases_tenant_created_at",
                 "leases", "uq_properties_tenant_property" >>]

AddLeaseDueDay ==
    [up |-> << On("leases", "rent_due_day_of_month"),
               Object("ck_leases_rent_due_day_of_month",
                      {"leases", "rent_due_day_of_month"}, {}) >>,
     down |-> << "ck_leases_rent_due_day_of_month", "rent_due_day_of_month" >>]

\* Fault: the constraint is dropped before the table whose key refers to it.
AddNotificationsDroppedInOrder ==
    [up |-> << On("leases", "uq_leases_tenant_lease"),
               Referring("notifications", {"uq_leases_tenant_lease"}),
               On("notifications", "ix_notifications_tenant_created_at"),
               On("notifications", "ix_notifications_tenant_type_due_date") >>,
     down |-> << "ix_notifications_tenant_type_due_date",
                 "ix_notifications_tenant_created_at",
                 "uq_leases_tenant_lease", "notifications" >>]

AddNotifications ==
    [up |-> << On("leases", "uq_leases_tenant_lease"),
               Referring("notifications", {"uq_leases_tenant_lease"}),
               On("notifications", "ix_notifications_tenant_created_at"),
               On("notifications", "ix_notifications_tenant_type_due_date") >>,
     down |-> << "ix_notifications_tenant_type_due_date",
                 "ix_notifications_tenant_created_at",
                 "notifications", "uq_leases_tenant_lease" >>]

AddNotificationDedupe ==
    [up |-> << On("notifications", "uq_notifications_tenant_lease_type_due_date") >>,
     down |-> << "uq_notifications_tenant_lease_type_due_date" >>]

AddNotificationReadAt ==
    [up |-> << On("notifications", "read_at") >>,
     down |-> << "read_at" >>]

AddNotificationContacts ==
    [up |-> << Table("notification_contacts"),
               On("notification_contacts", "uq_notification_contacts_tenant_email_lower"),
               On("notification_contacts", "ix_notification_contacts_tenant_enabled") >>,
     down |-> << "ix_notification_contacts_tenant_enabled",
                 "uq_notification_contacts_tenant_email_lower",
                 "notification_contacts" >>]

-----------------------------------------------------------------------------
(* Deliveries                                                              *)

DeliveriesUp ==
    << On("notifications", "uq_notifications_tenant_notification"),
       On("notification_contacts", "uq_notification_contacts_tenant_contact"),
       Referring("notification_email_deliveries",
                 {"uq_notifications_tenant_notification",
                  "uq_notification_contacts_tenant_contact"}),
       On("notification_email_deliveries",
          "ix_notification_email_deliveries_tenant_status_attempts"),
       On("notification_email_deliveries",
          "ix_notification_email_deliveries_tenant_notification"),
       On("notification_email_deliveries",
          "ix_notification_email_deliveries_tenant_contact") >>

\* Fault: the constraint added to notifications is left there.
AddEmailDeliveriesLeavesConstraint ==
    [up |-> DeliveriesUp,
     down |-> [i \in 1..3 |-> DeliveriesUp[7 - i].name]
              \o << "notification_email_deliveries",
                    "uq_notification_contacts_tenant_contact" >>]

\* The downgrade drops what the upgrade adds, last things first.
AddEmailDeliveries ==
    [up |-> DeliveriesUp,
     down |-> [i \in 1..6 |-> DeliveriesUp[7 - i].name]]

\* The rows get their tokens before the column becomes NOT NULL.
AddEmailCorrelation ==
    LET token == "event_correlation_token"
        OnToken(part) == Object(part, {"notification_email_deliveries", token}, {})
    IN [up |-> << On("notification_email_deliveries", token),
                  OnToken("event_correlation_token_not_null"),
                  OnToken("uq_notification_email_deliveries_event_correlation_token") >>,
        down |-> << "uq_notification_email_deliveries_event_correlation_token", token >>]

AddContactSuppressions ==
    [up |-> << Referring("notification_contact_suppressions",
                         {"uq_notification_contacts_tenant_contact"}),
               On("notification_contact_suppressions",
                  "ix_notification_contact_suppressions_tenant_contact"),
               On("notification_contact_suppressions",
                  "ix_notification_contact_suppressions_tenant_reason") >>,
     down |-> << "ix_notification_contact_suppressions_tenant_reason",
                 "ix_notification_contact_suppressions_tenant_contact",
                 "notification_contact_suppressions" >>]

AddAuditLogsRLS ==
    [up |-> << On("audit_logs", "audit_logs_rls"),
               On("audit_logs", "audit_logs_forced_rls"),
               On("audit_logs", "audit_logs_tenant_isolation") >>,
     down |-> << "audit_logs_tenant_isolation", "audit_logs_forced_rls",
                 "audit_logs_rls" >>]

\* revision and down_revision put them in this order; Newest is Alembic's head.
Revisions ==
    << InitialTables, AddLeases, AddLeaseDueDay, AddNotifications,
       AddNotificationDedupe, AddNotificationReadAt, AddNotificationContacts,
       AddEmailDeliveries, AddEmailCorrelation, AddContactSuppressions,
       AddAuditLogsRLS >>

Newest == Len(Revisions)

-----------------------------------------------------------------------------
(* Statements.  A schema is a set of names of objects.                     *)

VersionTable == Table("alembic_version")

Catalog == {VersionTable} \cup UNION {ToSet(Revisions[i].up) : i \in DOMAIN Revisions}
Names   == {o.name : o \in Catalog}
Of      == [n \in Names |-> (CHOOSE o \in Catalog : o.name = n).of]
Refs    == [n \in Names |-> (CHOOSE o \in Catalog : o.name = n).refs]

\* What goes with a name that is dropped, and what refers to that.
Parts     == [n \in Names |-> {m \in Names : m = n \/ n \in Of[m]}]
Referrers == [n \in Names |-> {m \in Names : Refs[m] \cap Parts[n] # {}} \ Parts[n]]

\* The tables on the other side of the foreign keys of a table.
Targets == [n \in Names |-> UNION {Of[c] : c \in Refs[n]}]

CanAdd(s, n) ==
    /\ n \in s => n \in IfNotExists
    /\ Of[n] \cup Refs[n] \subseteq s

CanDrop(s, n) ==
    /\ n \in s \cup IfExists
    /\ Referrers[n] \cap s = {}

\* The upgrade from a revision; the first makes the version table.
UpgradeFrom ==
    [v \in 0..(Newest - 1) |->
        (IF v = 0 THEN <<"alembic_version">> ELSE << >>)
        \o [i \in DOMAIN Revisions[v + 1].up |-> Revisions[v + 1].up[i].name]]

DowngradeFrom == [v \in 1..Newest |-> Revisions[v].down]

\* The objects the upgrades to a revision add up to.
SchemaAt ==
    [v \in 0..Newest |-> UNION {{o.name : o \in ToSet(Revisions[i].up)} : i \in 1..v}]

=============================================================================
