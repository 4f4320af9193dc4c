------------------------------- MODULE Records -------------------------------
(***************************************************************************)
(* The requests about properties and leases: create, edit and list, from   *)
(* the handler to the tables and back.                                     *)
(*                                                                         *)
(* An edit gives some of the fields.  Its transaction reads the row FOR    *)
(* UPDATE, checks and compares what it has read, and writes what differs.  *)
(* The database has no constraint on the dates of a lease; that its end    *)
(* is not before its start depends on that lock.                           *)
(***************************************************************************)
EXTENDS Naturals, FiniteSets

CONSTANTS
    Tenants,
    PropertyIds,  \* property_id
    LeaseIds,     \* lease_id
    Requests,     \* requests that may be under way at a time
    Texts,        \* values of the fields that are not dates
    LastDate,     \* dates are 0..LastDate
    Inputs        \* what well-formed requests ask for, among Operations

PropertyFields == {"name", "address"}
LeaseFields    == {"resident_name", "rent_due_day_of_month",
                   "start_date", "end_date"}
Dates          == {"start_date", "end_date"}

Ids       == PropertyIds \cup LeaseIds
Fields(k) == IF k \in PropertyIds THEN PropertyFields ELSE LeaseFields

\* Values for the fields F.
Values(F) ==
    {v \in [F -> Texts \cup (0..LastDate)] :
        \A f \in F : v[f] \in IF f \in Dates THEN 0..LastDate ELSE Texts}

Ordered(v) == Dates \subseteq DOMAIN v => v["start_date"] <= v["end_date"]

\* Requests that pass the checks made before a transaction is begun.
Operations ==
    [kind : {"create"}, tenant : Tenants, under : {"none"},
     fields : Values(PropertyFields)]
    \cup [kind : {"create"}, tenant : Tenants, under : PropertyIds,
          fields : {v \in Values(LeaseFields) : Ordered(v)}]
    \cup (UNION {[kind : {"edit"}, tenant : Tenants, id : {k},
                  fields : {v \in UNION {Values(F) : F \in
                                             (SUBSET Fields(k)) \ {{}}} :
                               Ordered(v)}] : k \in Ids})
    \cup [kind : {"list"}, tenant : Tenants, of : {PropertyIds, LeaseIds}]

ASSUME RecordsAssumption ==
    /\ PropertyIds \cap LeaseIds = {}
    /\ "none" \notin Tenants \cup PropertyIds
    /\ "free" \notin Requests
    /\ LastDate \in Nat
    /\ Inputs \subseteq Operations

VARIABLES
    row,    \* the rows of properties and leases, NoRow: no row
    lock,   \* the request that has locked the row, "free": none
    pc,     \* where a request is
    op,     \* what it asks for
    got,    \* the row it has read for an edit
    audit,  \* the rows the last step has added to audit_logs
    answer  \* what the last step answered to which request, if it did

vars == <<row, lock, pc, op, got, audit, answer>>

NoRow    == [tenant |-> "none"]
NoOp     == [kind |-> "none"]
NoAnswer == [to |-> NoOp, status |-> 0, rows |-> {}]

Rows(k) == [tenant : Tenants, under : PropertyIds \cup {"none"},
            fields : Values(Fields(k))]

OwnRows(t) == {k \in Ids : row[k].tenant = t}

Init ==
    /\ row = [k \in Ids |-> NoRow]
    /\ lock = [k \in Ids |-> "free"]
    /\ pc = [r \in Requests |-> "idle"]
    /\ op = [r \in Requests |-> NoOp]
    /\ got = [r \in Requests |-> NoRow]
    /\ audit = {}
    /\ answer = NoAnswer

-----------------------------------------------------------------------------
(* From the event to the transaction                                       *)

\* The answers to requests that reach no table: no claims; an identifier that
\* is no UUID; fields missing, unknown, empty, out of range or out of order; a
\* body that is not JSON; an unknown path; a POST body that is not an object.
RefusalOf == [claims |-> 400, identifier |-> 400, fields |-> 400,
              json |-> 400, path |-> 404, list_posted |-> 500]

RefuseInput(flaw) ==
    /\ audit' = {}
    /\ answer' = [to |-> NoOp, status |-> RefusalOf[flaw], rows |-> {}]
    /\ UNCHANGED <<row, lock, pc, op, got>>

\* The identifiers a request to create may be given.  (Bound: such a request
\* comes in only while there is one for it.)
NewIds(o) == IF o.under = "none" THEN PropertyIds ELSE LeaseIds
Room(o) ==
    o.kind = "create" =>
        Cardinality({r \in Requests : op[r].kind = "create"})
            < Cardinality({k \in NewIds(o) : row[k] = NoRow})

Start(r, o) ==
    /\ pc[r] = "idle"
    /\ Room(o)
    /\ pc' = [pc EXCEPT ![r] = o.kind]
    /\ op' = [op EXCEPT ![r] = o]
    /\ audit' = {}
    /\ answer' = NoAnswer
    /\ UNCHANGED <<row, lock, got>>

\* Fault: the locks of a request that fails are not released.
FinishUnlessError(r, status, rows) ==
    /\ pc' = [pc EXCEPT ![r] = "idle"]
    /\ op' = [op EXCEPT ![r] = NoOp]
    /\ got' = [got EXCEPT ![r] = NoRow]
    /\ lock' = [k \in Ids |-> IF lock[k] = r /\ status < 400 THEN "free"
                                                             ELSE lock[k]]
    /\ answer' = [to |-> op[r], status |-> status, rows |-> rows]

\* The transaction ends, the connection is closed, and the request is answered.
Finish(r, status, rows) ==
    /\ pc' = [pc EXCEPT ![r] = "idle"]
    /\ op' = [op EXCEPT ![r] = NoOp]
    /\ got' = [got EXCEPT ![r] = NoRow]
    /\ lock' = [k \in Ids |-> IF lock[k] = r THEN "free" ELSE lock[k]]
    /\ answer' = [to |-> op[r], status |-> status, rows |-> rows]

\* A commit may succeed and its confirmation be lost: psycopg raises, and the
\* request is answered 500.
Committed(r, status, rows) ==
    \/ Finish(r, status, rows)
    \/ Finish(r, 500, {})

-----------------------------------------------------------------------------
(* Create and list                                                         *)

\* Fault: the property may be anybody's.
HasParentAnywhere(r) ==
    op[r].under # "none" => row[op[r].under] # NoRow

\* The INSERT of a lease selects the property it belongs to among the tenant's.
HasParent(r) == op[r].under # "none" => op[r].under \in OwnRows(op[r].tenant)

\* The foreign key of a new lease waits for an edit of its property to end.
Create(r) ==
    /\ pc[r] = "create"
    /\ HasParent(r)
    /\ op[r].under # "none" => lock[op[r].under] = "free"
    /\ \E k \in NewIds(op[r]) :
          /\ row[k] = NoRow
          /\ row' = [row EXCEPT ![k] = [tenant |-> op[r].tenant,
                                        under  |-> op[r].under,
                                        fields |-> op[r].fields]]
          /\ audit' = {[action |-> "create", id |-> k, tenant |-> op[r].tenant,
                        changed |-> {}]}
          /\ Committed(r, 201, {<<k, row'[k]>>})

NoSuchProperty(r) ==
    /\ pc[r] = "create"
    /\ ~HasParent(r)
    /\ Finish(r, 400, {})
    /\ audit' = {}
    /\ UNCHANGED row

List(r) ==
    /\ pc[r] = "list"
    /\ Finish(r, 200, {<<k, row[k]>> : k \in op[r].of \cap OwnRows(op[r].tenant)})
    /\ audit' = {}
    /\ UNCHANGED row

-----------------------------------------------------------------------------
(* Edit                                                                    *)

Target(r) == op[r].id

NotFound(r) ==
    /\ pc[r] = "edit"
    /\ Target(r) \notin OwnRows(op[r].tenant)
    /\ Finish(r, 404, {})
    /\ audit' = {}
    /\ UNCHANGED row

\* Fault: the SELECT is not FOR UPDATE.
ReadRow(r) ==
    /\ pc[r] = "edit"
    /\ Target(r) \in OwnRows(op[r].tenant)
    /\ got' = [got EXCEPT ![r] = row[Target(r)]]
    /\ pc' = [pc EXCEPT ![r] = "compare"]
    /\ audit' = {}
    /\ answer' = NoAnswer
    /\ UNCHANGED <<row, lock, op>>

\* SELECT ... FOR UPDATE waits until nobody else has locked the row.
LockRow(r) ==
    /\ pc[r] = "edit"
    /\ Target(r) \in OwnRows(op[r].tenant)
    /\ lock[Target(r)] = "free"
    /\ lock' = [lock EXCEPT ![Target(r)] = r]
    /\ got' = [got EXCEPT ![r] = row[Target(r)]]
    /\ pc' = [pc EXCEPT ![r] = "compare"]
    /\ audit' = {}
    /\ answer' = NoAnswer
    /\ UNCHANGED <<row, op>>

\* Fault: the fields that are not given are lost.
MergeOnly(v, u, F) == [f \in F |-> u[f]]

\* v with the values of the fields F taken from u.
Merge(v, u, F) == [f \in DOMAIN v |-> IF f \in F THEN u[f] ELSE v[f]]

\* Fault: every field given counts as changed.
GivenFields(r) == DOMAIN op[r].fields

ChangedFields(r) ==
    {f \in DOMAIN op[r].fields : op[r].fields[f] # got[r].fields[f]}

\* The dates a lease would have; the fields given and the fields read together.
Acceptable(r) ==
    Ordered(Merge(got[r].fields, op[r].fields, DOMAIN op[r].fields))

RefuseEdit(r) ==
    /\ pc[r] = "compare"
    /\ ~Acceptable(r)
    /\ Finish(r, 400, {})
    /\ audit' = {}
    /\ UNCHANGED row

KeepRow(r) ==
    /\ pc[r] = "compare"
    /\ Acceptable(r)
    /\ ChangedFields(r) = {}
    /\ Finish(r, 200, {<<Target(r), got[r]>>})
    /\ audit' = {}
    /\ UNCHANGED row

UpdateRow(r) ==
    /\ pc[r] = "compare"
    /\ Acceptable(r)
    /\ ChangedFields(r) # {}
    /\ row' = [row EXCEPT ![Target(r)].fields =
                              Merge(@, op[r].fields, ChangedFields(r))]
    /\ audit' = {[action |-> "update", id |-> Target(r),
                  tenant |-> op[r].tenant, changed |-> ChangedFields(r)]}
    /\ Committed(r, 200, {<<Target(r), row'[Target(r)]>>})

\* An error, a timeout or a lost connection: the transaction is rolled back.
Abandon(r) ==
    /\ pc[r] # "idle"
    /\ Finish(r, 500, {})
    /\ audit' = {}
    /\ UNCHANGED row

-----------------------------------------------------------------------------

RequestStep(r) ==
    \/ Create(r) \/ NoSuchProperty(r) \/ List(r)
    \/ NotFound(r) \/ LockRow(r)
    \/ RefuseEdit(r) \/ KeepRow(r) \/ UpdateRow(r)

Next ==
    \/ \E flaw \in DOMAIN RefusalOf : RefuseInput(flaw)
    \/ \E r \in Requests : \/ \E o \in Inputs : Start(r, o)
                           \/ RequestStep(r)
                           \/ Abandon(r)

Spec == Init /\ [][Next]_vars

\* Requests go on, and PostgreSQL serves those that wait for a row in turn.
Fairness ==
    \A r \in Requests : /\ WF_vars(RequestStep(r))
                        /\ SF_vars(LockRow(r))
                        /\ SF_vars(Create(r))

FairSpec == Spec /\ Fairness

-----------------------------------------------------------------------------
(* Properties                                                              *)

\* Every variable keeps the values its column, lock or local can hold.
TypeOK ==
    /\ \A k \in Ids : row[k] \in Rows(k) \cup {NoRow}
    /\ lock \in [Ids -> Requests \cup {"free"}]
    /\ pc \in [Requests -> {"idle", "create", "list", "edit", "compare"}]
    /\ op \in [Requests -> Inputs \cup {NoOp}]
    /\ \A r \in Requests : got[r] = NoRow \/ got[r] \in Rows(Target(r))
    /\ audit \subseteq [action : {"create", "update"}, id : Ids,
                        tenant : Tenants, changed : (SUBSET LeaseFields)
                                                    \cup (SUBSET PropertyFields)]
    /\ answer.to \in Inputs \cup {NoOp}
    /\ answer.status \in {0, 200, 201, 400, 404, 500}

\* No lease ends before it starts, though each of two edits under way at a time
\* may be right about the row it has read.
LeaseDatesOrdered ==
    \A k \in LeaseIds : row[k] # NoRow => Ordered(row[k].fields)

\* An edit that is answered with success has not been overtaken: the row it
\* shows is the row as it is, with every value that was asked for, also when
\* the edit found some of them there already and did not write them.
EditAnsweredAsMade ==
    (answer.to.kind = "edit" /\ answer.status = 200) =>
        /\ answer.rows = {<<answer.to.id, row[answer.to.id]>>}
        /\ \A f \in DOMAIN answer.to.fields :
              row[answer.to.id].fields[f] = answer.to.fields[f]

\* Leases belong to a property of their tenant, and no answer shows a row of
\* another tenant than the one who asked.
TenantsApart ==
    /\ \A k \in LeaseIds : row[k] # NoRow => row[k].under \in OwnRows(row[k].tenant)
    /\ \A x \in answer.rows : x[2].tenant = answer.to.tenant

\* The audit log can be trusted: it has a row for every change that is
\* committed, also if the request is answered 500, and the row names the fields
\* that have really changed and no others.
AuditNamesChanges ==
    [][\A k \in Ids :
          LET entries == {e \in audit' : e.id = k}
          IN  IF row'[k] = row[k] THEN entries = {}
              ELSE \E e \in entries :
                      /\ entries = {e}
                      /\ e.tenant = row'[k].tenant
                      /\ IF row[k] = NoRow THEN e.action = "create"
                         ELSE /\ e.action = "update"
                              /\ e.changed = {f \in Fields(k) :
                                                 row'[k].fields[f] # row[k].fields[f]}]_vars

\* Every request is answered: none waits for ever for a lock another one has
\* left behind.
RequestsAnswered ==
    \A r \in Requests : pc[r] # "idle" ~> pc[r] = "idle"

=============================================================================
