---------------------------- MODULE RecordsProofs ----------------------------
(***************************************************************************)
(* Theorems about Records, for every set of tenants, identifiers, requests *)
(* and texts, and every range of dates.                                    *)
(***************************************************************************)
EXTENDS Records, TLAPS

-----------------------------------------------------------------------------
(* Values, operations and rows                                             *)

LEMMA ValuesFacts ==
    ASSUME NEW F, NEW v \in Values(F)
    PROVE  /\ DOMAIN v = F
           /\ v = [f \in F |-> v[f]]
           /\ v \in Values(DOMAIN v)
           /\ \A f \in F : v[f] \in IF f \in Dates THEN 0..LastDate ELSE Texts
<1>1. v \in [F -> Texts \cup (0..LastDate)]
  BY DEF Values
<1>2. DOMAIN v = F /\ v = [f \in F |-> v[f]]
  BY <1>1
<1>3. QED
  BY <1>2 DEF Values

\* A merge of two sets of values has the fields of the first.
LEMMA MergeFacts ==
    ASSUME NEW G, NEW D, D \subseteq G, NEW F, F \subseteq D,
           NEW v \in Values(G), NEW u \in Values(D)
    PROVE  /\ Merge(v, u, F) \in Values(G)
           /\ \A f \in G : Merge(v, u, F)[f] = IF f \in F THEN u[f] ELSE v[f]
<1>1. Merge(v, u, F) = [f \in G |-> IF f \in F THEN u[f] ELSE v[f]]
  BY ValuesFacts DEF Merge
<1>2. \A f \in G : /\ v[f] \in IF f \in Dates THEN 0..LastDate ELSE Texts
                   /\ f \in F => u[f] \in IF f \in Dates THEN 0..LastDate ELSE Texts
  BY ValuesFacts
<1>3. QED
  BY <1>1, <1>2 DEF Values

LEMMA CreateFacts ==
    ASSUME NEW o \in Operations, o.kind = "create"
    PROVE  /\ o.tenant \in Tenants
           /\ o.under \in PropertyIds \cup {"none"}
           /\ o.fields \in Values(IF o.under = "none" THEN PropertyFields
                                                      ELSE LeaseFields)
           /\ Ordered(o.fields)
<1>1. CASE o \in [kind : {"create"}, tenant : Tenants, under : {"none"},
                  fields : Values(PropertyFields)]
  <2>1. DOMAIN o.fields = PropertyFields
    BY <1>1, ValuesFacts
  <2>2. Ordered(o.fields)
    BY <2>1 DEF Ordered, Dates, PropertyFields
  <2>3. QED
    BY <1>1, <2>2
<1>2. CASE o \in [kind : {"create"}, tenant : Tenants, under : PropertyIds,
                  fields : {v \in Values(LeaseFields) : Ordered(v)}]
  BY <1>2, RecordsAssumption
<1>3. QED
  BY <1>1, <1>2 DEF Operations

LEMMA EditFacts ==
    ASSUME NEW o \in Operations, o.kind = "edit"
    PROVE  /\ o.tenant \in Tenants
           /\ o.id \in Ids
           /\ DOMAIN o.fields \subseteq Fields(o.id)
           /\ o.fields \in Values(DOMAIN o.fields)
<1>1. PICK k \in Ids :
        o \in [kind : {"edit"}, tenant : Tenants, id : {k},
               fields : {v \in UNION {Values(F) : F \in
                                          (SUBSET Fields(k)) \ {{}}} :
                            Ordered(v)}]
  BY DEF Operations
<1>2. PICK F \in SUBSET Fields(k) : o.fields \in Values(F)
  BY <1>1
<1>3. QED
  BY <1>1, <1>2, ValuesFacts

LEMMA ListFacts ==
    ASSUME NEW o \in Operations, o.kind = "list"
    PROVE  o.tenant \in Tenants /\ o.of \subseteq Ids
BY DEF Operations, Ids

LEMMA KindFacts ==
    ASSUME NEW o \in Operations
    PROVE  o.kind \in {"create", "edit", "list"}
BY DEF Operations

-----------------------------------------------------------------------------
(* The inductive invariant                                                 *)

\* The tables of rows and of what requests have read are functions.
TablesInv ==
    /\ row = [k \in Ids |-> row[k]]
    /\ got = [r \in Requests |-> got[r]]

\* A request that has locked its row is about to compare it; it belongs to the
\* tenant, and it still is as the request has read it.
RequestInv ==
    \A r \in Requests :
        /\ pc[r] # "idle" => op[r] \in Inputs
        /\ pc[r] \in {"create", "edit", "list"} => op[r].kind = pc[r]
        /\ pc[r] = "compare" => /\ op[r].kind = "edit"
                                /\ lock[Target(r)] = r
                                /\ got[r] = row[Target(r)]
                                /\ Target(r) \in OwnRows(op[r].tenant)
        /\ pc[r] # "compare" => got[r] = NoRow

IInv == TypeOK /\ TablesInv /\ RequestInv /\ LeaseDatesOrdered

\* A row is not the mark for no row, and its tenant tells it from that.
LEMMA RowFacts ==
    ASSUME NEW k \in Ids, NEW v \in Rows(k)
    PROVE  /\ v # NoRow
           /\ v.tenant \in Tenants
           /\ v.tenant # NoRow.tenant
           /\ v.under \in PropertyIds \cup {"none"}
           /\ v.fields \in Values(Fields(k))
BY RecordsAssumption DEF Rows, NoRow

LEMMA InvInit == Init => IInv
<1> SUFFICES ASSUME Init PROVE IInv
  OBVIOUS
<1>1. TypeOK
  BY DEF Init, TypeOK, NoAnswer
<1>2. TablesInv /\ RequestInv /\ LeaseDatesOrdered
  BY DEF Init, TablesInv, RequestInv, LeaseDatesOrdered, Ids
<1>3. QED
  BY <1>1, <1>2 DEF IInv

\* What a request under way asks for.
LEMMA UnderWay ==
    ASSUME IInv, NEW r \in Requests, pc[r] # "idle"
    PROVE  /\ op[r] \in Inputs /\ op[r] \in Operations
           /\ pc[r] = "create" => op[r].kind = "create"
           /\ pc[r] = "list" => op[r].kind = "list"
           /\ pc[r] \in {"edit", "compare"} => op[r].kind = "edit"
BY RecordsAssumption DEF IInv, RequestInv

\* The row an edit is about to change, and what it would be.
LEMMA EditedRow ==
    ASSUME IInv, NEW r \in Requests, pc[r] = "compare"
    PROVE  /\ Target(r) \in Ids
           /\ op[r].tenant \in Tenants
           /\ row[Target(r)] \in Rows(Target(r))
           /\ row[Target(r)].tenant = op[r].tenant
           /\ got[r] = row[Target(r)]
           /\ op[r].fields \in Values(DOMAIN op[r].fields)
           /\ DOMAIN op[r].fields \subseteq Fields(Target(r))
           /\ ChangedFields(r) \subseteq DOMAIN op[r].fields
           /\ Merge(got[r].fields, op[r].fields, ChangedFields(r))
                  \in Values(Fields(Target(r)))
           /\ Merge(got[r].fields, op[r].fields, ChangedFields(r))
                  = Merge(got[r].fields, op[r].fields, DOMAIN op[r].fields)
<1>1. op[r] \in Operations /\ op[r].kind = "edit"
  BY UnderWay
<1>2. /\ Target(r) \in Ids /\ op[r].tenant \in Tenants
      /\ DOMAIN op[r].fields \subseteq Fields(Target(r))
      /\ op[r].fields \in Values(DOMAIN op[r].fields)
  BY <1>1, EditFacts DEF Target
<1>3. got[r] = row[Target(r)] /\ row[Target(r)].tenant = op[r].tenant
  BY DEF IInv, RequestInv, OwnRows
<1>4. row[Target(r)] \in Rows(Target(r))
  BY <1>2, <1>3, RecordsAssumption DEF IInv, TypeOK, NoRow
<1>5. got[r].fields \in Values(Fields(Target(r)))
  BY <1>2, <1>3, <1>4, RowFacts
<1>6. ChangedFields(r) \subseteq DOMAIN op[r].fields
  BY DEF ChangedFields
<1>7. Merge(got[r].fields, op[r].fields, ChangedFields(r))
          \in Values(Fields(Target(r)))
  <2> DEFINE G == Fields(Target(r))
             D == DOMAIN op[r].fields
             F == ChangedFields(r)
             v == got[r].fields
             u == op[r].fields
  <2>1. /\ D \subseteq G /\ F \subseteq D
        /\ v \in Values(G) /\ u \in Values(D)
    BY <1>2, <1>5, <1>6
  <2> HIDE DEF G, D, F, v, u
  <2>2. Merge(v, u, F) \in Values(G)
    BY <2>1, MergeFacts
  <2>3. QED
    BY <2>2 DEF G, F, v, u
<1>8. Merge(got[r].fields, op[r].fields, ChangedFields(r))
          = Merge(got[r].fields, op[r].fields, DOMAIN op[r].fields)
  BY DEF Merge, ChangedFields
<1>9. QED
  BY <1>2, <1>3, <1>4, <1>6, <1>7, <1>8

-----------------------------------------------------------------------------
(* Steps                                                                   *)

AuditRows == [action : {"create", "update"}, id : Ids, tenant : Tenants,
              changed : (SUBSET LeaseFields) \cup (SUBSET PropertyFields)]

\* A request that ends leaves the others as they are, provided it has not
\* changed a row one of them has locked.
LEMMA FinishInv ==
    ASSUME IInv, NEW r \in Requests, pc[r] # "idle",
           NEW status \in {200, 201, 400, 404, 500}, NEW rows,
           Finish(r, status, rows),
           row' = [k \in Ids |-> row'[k]],
           \A k \in Ids : row'[k] \in Rows(k) \cup {NoRow},
           \A q \in Requests : q # r /\ pc[q] = "compare"
               => row'[Target(q)] = row[Target(q)],
           LeaseDatesOrdered', audit' \subseteq AuditRows
    PROVE  IInv'
<1>1. /\ pc' \in [Requests -> {"idle", "create", "list", "edit", "compare"}]
      /\ op' \in [Requests -> Inputs \cup {NoOp}]
      /\ got' = [q \in Requests |-> IF q = r THEN NoRow ELSE got[q]]
      /\ lock' \in [Ids -> Requests \cup {"free"}]
  BY DEF Finish, IInv, TypeOK, TablesInv
<1>2. /\ pc'[r] = "idle" /\ got'[r] = NoRow
      /\ \A q \in Requests \ {r} : /\ pc'[q] = pc[q] /\ op'[q] = op[q]
                                   /\ got'[q] = got[q]
                                   /\ Target(q)' = Target(q)
                                   /\ \A k \in Ids : lock[k] = q => lock'[k] = q
  BY <1>1 DEF Finish, IInv, TypeOK, TablesInv, Target
<1>3. answer'.to \in Inputs \cup {NoOp} /\ answer'.status \in {0, 200, 201, 400, 404, 500}
  BY UnderWay DEF Finish
<1>4. \A q \in Requests : got'[q] = NoRow \/ got'[q] \in Rows(Target(q))'
  BY <1>2 DEF IInv, TypeOK, Rows
<1>5. TypeOK'
  BY <1>1, <1>3, <1>4 DEF TypeOK, AuditRows, Rows
<1>6. TablesInv'
  BY <1>1 DEF TablesInv
<1>7. RequestInv'
  <2>1. ASSUME NEW q \in Requests, q # r, pc[q] = "compare"
        PROVE  /\ lock'[Target(q)] = q
               /\ got'[q] = row'[Target(q)]
               /\ Target(q) \in OwnRows(op[q].tenant)'
    BY <1>2, <2>1, EditedRow DEF IInv, RequestInv, OwnRows
  <2>2. QED
    BY <1>2, <2>1 DEF IInv, RequestInv
<1>8. QED
  BY <1>5, <1>6, <1>7 DEF IInv

\* Requests that end without a change.
LEMMA QuietStep ==
    ASSUME IInv, NEW r \in Requests,
           \/ NoSuchProperty(r) \/ List(r) \/ NotFound(r)
           \/ RefuseEdit(r) \/ KeepRow(r) \/ Abandon(r)
    PROVE  IInv'
<1>1. /\ pc[r] # "idle" /\ UNCHANGED row /\ audit' = {}
      /\ \E status \in {200, 201, 400, 404, 500}, rows \in {answer'.rows} :
            Finish(r, status, rows)
  BY DEF NoSuchProperty, List, NotFound, RefuseEdit, KeepRow, Abandon, Finish
<1>2. LeaseDatesOrdered'
  BY <1>1 DEF IInv, LeaseDatesOrdered
<1>3. QED
  BY <1>1, <1>2, FinishInv DEF IInv, TypeOK, TablesInv

LEMMA CreateStep ==
    ASSUME IInv, NEW r \in Requests, Create(r)
    PROVE  IInv'
<1>1. PICK k \in NewIds(op[r]) :
          /\ row[k] = NoRow
          /\ row' = [row EXCEPT ![k] = [tenant |-> op[r].tenant,
                                        under  |-> op[r].under,
                                        fields |-> op[r].fields]]
          /\ audit' = {[action |-> "create", id |-> k, tenant |-> op[r].tenant,
                        changed |-> {}]}
          /\ Committed(r, 201, {<<k, row'[k]>>})
  BY DEF Create
<1> DEFINE new == [tenant |-> op[r].tenant, under |-> op[r].under,
                   fields |-> op[r].fields]
<1>2. pc[r] = "create" /\ op[r] \in Operations /\ op[r].kind = "create"
  BY UnderWay DEF Create
<1>3. /\ op[r].tenant \in Tenants /\ op[r].under \in PropertyIds \cup {"none"}
      /\ op[r].fields \in Values(IF op[r].under = "none" THEN PropertyFields
                                                         ELSE LeaseFields)
      /\ Ordered(op[r].fields)
  BY <1>2, CreateFacts
<1>4. k \in Ids /\ (op[r].under = "none" <=> k \in PropertyIds)
  BY <1>3, RecordsAssumption DEF NewIds, Ids
<1>5. new \in Rows(k)
  BY <1>3, <1>4 DEF Rows, Fields
<1>6. row' = [j \in Ids |-> IF j = k THEN new ELSE row[j]]
  BY <1>1, <1>4 DEF IInv, TablesInv
<1>7. /\ row' = [j \in Ids |-> row'[j]]
      /\ \A j \in Ids : row'[j] \in Rows(j) \cup {NoRow}
  BY <1>5, <1>6 DEF IInv, TypeOK
<1>8. LeaseDatesOrdered'
  BY <1>3, <1>6 DEF IInv, LeaseDatesOrdered, Ids
<1>9. \A q \in Requests : q # r /\ pc[q] = "compare"
         => row'[Target(q)] = row[Target(q)]
  BY <1>1, <1>6, EditedRow, RowFacts
<1>10. audit' \subseteq AuditRows
  BY <1>1, <1>3, <1>4 DEF AuditRows
<1>11. PICK status \in {201, 500}, rows \in {{}, {<<k, row'[k]>>}} :
          Finish(r, status, rows)
  BY <1>1 DEF Committed
<1>12. QED
  BY <1>2, <1>7, <1>8, <1>9, <1>10, <1>11, FinishInv

LEMMA UpdateStep ==
    ASSUME IInv, NEW r \in Requests, UpdateRow(r)
    PROVE  /\ IInv'
           /\ row' = [k \in Ids |->
                 IF k = Target(r)
                 THEN [row[k] EXCEPT !.fields =
                          Merge(got[r].fields, op[r].fields, ChangedFields(r))]
                 ELSE row[k]]
<1> DEFINE k == Target(r)
           merged == Merge(got[r].fields, op[r].fields, ChangedFields(r))
<1>1. pc[r] = "compare" /\ Acceptable(r)
  BY DEF UpdateRow
<1>2. /\ k \in Ids /\ op[r].tenant \in Tenants
      /\ row[k] \in Rows(k) /\ got[r] = row[k]
      /\ merged \in Values(Fields(k))
      /\ merged = Merge(got[r].fields, op[r].fields, DOMAIN op[r].fields)
      /\ ChangedFields(r) \subseteq Fields(k)
  BY <1>1, EditedRow
<1>3. row' = [j \in Ids |-> IF j = k THEN [row[j] EXCEPT !.fields = merged]
                                     ELSE row[j]]
  BY <1>2 DEF UpdateRow, IInv, TablesInv
<1> HIDE DEF merged, k
<1>4. [row[k] EXCEPT !.fields = merged] \in Rows(k)
  BY <1>2 DEF Rows
<1>5. /\ row' = [j \in Ids |-> row'[j]]
      /\ \A j \in Ids : row'[j] \in Rows(j) \cup {NoRow}
  BY <1>3, <1>4 DEF IInv, TypeOK
<1>6. [row[k] EXCEPT !.fields = merged].fields = merged
  BY <1>2 DEF Rows
<1>7. Ordered(merged)
  BY <1>1, <1>2 DEF Acceptable
<1>8. LeaseDatesOrdered'
  BY <1>3, <1>6, <1>7 DEF IInv, LeaseDatesOrdered, Ids
<1>9. ASSUME NEW q \in Requests, q # r, pc[q] = "compare"
      PROVE  row'[Target(q)] = row[Target(q)]
  <2>1. lock[Target(q)] = q /\ lock[k] = r
    BY <1>1, <1>9 DEF IInv, RequestInv, k
  <2>2. Target(q) \in Ids
    BY <1>9, EditedRow
  <2>3. QED
    BY <1>3, <1>9, <2>1, <2>2
<1>10. audit' \subseteq AuditRows
  <2>1. ChangedFields(r) \in (SUBSET LeaseFields) \cup (SUBSET PropertyFields)
    BY <1>2 DEF Fields
  <2>2. QED
    BY <1>2, <2>1 DEF UpdateRow, AuditRows, k
<1>11. PICK status \in {200, 500}, rows \in {{}, {<<Target(r), row'[Target(r)]>>}} :
          Finish(r, status, rows)
  BY DEF UpdateRow, Committed
<1>12. IInv'
  BY <1>1, <1>5, <1>8, <1>9, <1>10, <1>11, FinishInv
<1>13. QED
  BY <1>3, <1>12 DEF k, merged

LEMMA LockStep ==
    ASSUME IInv, NEW r \in Requests, LockRow(r)
    PROVE  IInv'
<1>1. op[r] \in Inputs /\ op[r] \in Operations /\ op[r].kind = "edit"
  BY UnderWay DEF LockRow
<1>2. Target(r) \in Ids /\ op[r].tenant \in Tenants
  BY <1>1, EditFacts DEF Target
<1>3. row[Target(r)] \in Rows(Target(r))
  BY <1>2, RecordsAssumption DEF LockRow, OwnRows, IInv, TypeOK, NoRow
<1>4. /\ pc' \in [Requests -> {"idle", "create", "list", "edit", "compare"}]
      /\ lock' \in [Ids -> Requests \cup {"free"}]
      /\ got' = [q \in Requests |-> IF q = r THEN row[Target(r)] ELSE got[q]]
  BY <1>2 DEF LockRow, IInv, TypeOK, TablesInv
<1>5. TypeOK'
  <2>1. \A q \in Requests : got'[q] = NoRow \/ got'[q] \in Rows(Target(q))'
    BY <1>3, <1>4 DEF LockRow, IInv, TypeOK, Target, Rows
  <2>2. QED
    BY <1>4, <2>1 DEF LockRow, IInv, TypeOK, NoAnswer, Rows
<1>6. TablesInv' /\ LeaseDatesOrdered'
  BY <1>4 DEF LockRow, IInv, TablesInv, LeaseDatesOrdered
<1>7. RequestInv'
  <2>1. ASSUME NEW q \in Requests, q # r
        PROVE  /\ pc'[q] = pc[q] /\ got'[q] = got[q]
               /\ pc[q] = "compare" => lock'[Target(q)] = q
    BY <1>4, <2>1, RecordsAssumption DEF LockRow, IInv, TypeOK, RequestInv
  <2>2. pc'[r] = "compare" /\ got'[r] = row[Target(r)] /\ lock'[Target(r)] = r
    BY <1>2, <1>4 DEF LockRow, IInv, TypeOK
  <2>3. QED
    BY <1>1, <2>1, <2>2 DEF LockRow, IInv, RequestInv, Target, OwnRows
<1>8. QED
  BY <1>5, <1>6, <1>7 DEF IInv

LEMMA StartStep ==
    ASSUME IInv, NEW r \in Requests, NEW o \in Inputs, Start(r, o)
    PROVE  IInv'
<1>1. o.kind \in {"create", "edit", "list"}
  BY RecordsAssumption, KindFacts
<1>2. /\ pc' \in [Requests -> {"idle", "create", "list", "edit", "compare"}]
      /\ op' \in [Requests -> Inputs \cup {NoOp}]
  BY <1>1 DEF Start, IInv, TypeOK
<1>3. /\ pc'[r] = o.kind /\ op'[r] = o /\ got'[r] = NoRow
      /\ \A q \in Requests \ {r} : pc'[q] = pc[q] /\ op'[q] = op[q]
      /\ UNCHANGED <<row, lock, got>>
  BY DEF Start, IInv, TypeOK, RequestInv
<1>4. TypeOK'
  <2>1. \A q \in Requests : got'[q] = NoRow \/ got'[q] \in Rows(Target(q))'
    BY <1>3 DEF IInv, TypeOK, Target, Rows
  <2>2. QED
    BY <1>2, <1>3, <2>1 DEF Start, IInv, TypeOK, NoAnswer, Rows
<1>5. TablesInv' /\ LeaseDatesOrdered'
  BY <1>3 DEF IInv, TablesInv, LeaseDatesOrdered
<1>6. RequestInv'
  BY <1>1, <1>3 DEF IInv, RequestInv, Target, OwnRows
<1>7. QED
  BY <1>4, <1>5, <1>6 DEF IInv

LEMMA RefuseInputStep ==
    ASSUME IInv, NEW flaw \in DOMAIN RefusalOf, RefuseInput(flaw)
    PROVE  IInv'
<1>1. RefusalOf[flaw] \in {400, 404, 500}
  BY DEF RefusalOf
<1>2. TypeOK'
  BY <1>1 DEF RefuseInput, IInv, TypeOK, Rows, Target
<1>3. QED
  BY <1>2 DEF RefuseInput, IInv, TablesInv, RequestInv, LeaseDatesOrdered,
              Target, OwnRows

LEMMA InvStep == IInv /\ [Next]_vars => IInv'
<1> SUFFICES ASSUME IInv, [Next]_vars PROVE IInv'
  OBVIOUS
<1>1. CASE UNCHANGED vars
  <2>1. TypeOK'
    BY <1>1 DEF vars, IInv, TypeOK, Rows, Target
  <2>2. TablesInv' /\ RequestInv' /\ LeaseDatesOrdered'
    BY <1>1 DEF vars, IInv, TablesInv, RequestInv, LeaseDatesOrdered, Target,
                OwnRows
  <2>3. QED
    BY <2>1, <2>2 DEF IInv
<1>2. QED
  BY <1>1, QuietStep, CreateStep, UpdateStep, LockStep, StartStep,
     RefuseInputStep DEF Next, RequestStep

\* Rows, locks, requests and answers keep their types.
THEOREM TypeCorrect == Spec => []TypeOK
<1>1. IInv => TypeOK
  BY DEF IInv
<1>2. QED
  BY <1>1, InvInit, InvStep, PTL DEF Spec

\* No two edits, each right about the row it has read, leave a lease that ends
\* before it starts.
THEOREM DatesOrdered == Spec => []LeaseDatesOrdered
<1>1. IInv => LeaseDatesOrdered
  BY DEF IInv
<1>2. QED
  BY <1>1, InvInit, InvStep, PTL DEF Spec

-----------------------------------------------------------------------------
(* What is answered and what is logged                                     *)

\* A step that answers an edit with success has left in the table, or found
\* there, what was asked for.
LEMMA EditStep ==
    ASSUME IInv, EditAnsweredAsMade, [Next]_vars
    PROVE  EditAnsweredAsMade'
<1> SUFFICES ASSUME answer'.to.kind = "edit", answer'.status = 200
             PROVE  /\ answer'.rows = {<<answer'.to.id, row'[answer'.to.id]>>}
                    /\ \A f \in DOMAIN answer'.to.fields :
                          row'[answer'.to.id].fields[f] = answer'.to.fields[f]
  BY DEF EditAnsweredAsMade
<1>1. ASSUME NEW r \in Requests, KeepRow(r)
      PROVE  /\ answer'.rows = {<<answer'.to.id, row'[answer'.to.id]>>}
             /\ \A f \in DOMAIN answer'.to.fields :
                   row'[answer'.to.id].fields[f] = answer'.to.fields[f]
  <2>1. /\ answer'.to = op[r] /\ answer'.rows = {<<Target(r), got[r]>>}
        /\ row' = row /\ got[r] = row[Target(r)]
    BY <1>1, EditedRow DEF KeepRow, Finish
  <2>2. \A f \in DOMAIN op[r].fields : op[r].fields[f] = got[r].fields[f]
    BY <1>1 DEF KeepRow, ChangedFields
  <2>3. QED
    BY <2>1, <2>2 DEF Target
<1>2. ASSUME NEW r \in Requests, UpdateRow(r)
      PROVE  /\ answer'.rows = {<<answer'.to.id, row'[answer'.to.id]>>}
             /\ \A f \in DOMAIN answer'.to.fields :
                   row'[answer'.to.id].fields[f] = answer'.to.fields[f]
  <2>1. /\ answer'.to = op[r]
        /\ answer'.rows = {<<Target(r), row'[Target(r)]>>}
    BY <1>2 DEF UpdateRow, Committed, Finish
  <2>2. /\ Target(r) \in Ids /\ row[Target(r)] \in Rows(Target(r))
        /\ got[r] = row[Target(r)]
        /\ DOMAIN op[r].fields \subseteq Fields(Target(r))
        /\ op[r].fields \in Values(DOMAIN op[r].fields)
        /\ got[r].fields \in Values(Fields(Target(r)))
        /\ ChangedFields(r) \subseteq DOMAIN op[r].fields
    BY <1>2, EditedRow, RowFacts DEF UpdateRow
  <2>3. row'[Target(r)].fields
            = Merge(got[r].fields, op[r].fields, ChangedFields(r))
    BY <1>2, <2>2, UpdateStep DEF Rows
  <2>4. \A f \in DOMAIN op[r].fields :
            Merge(got[r].fields, op[r].fields, ChangedFields(r))[f]
                = op[r].fields[f]
    BY <2>2, MergeFacts DEF ChangedFields
  <2>5. QED
    BY <2>1, <2>3, <2>4 DEF Target
<1>3. CASE UNCHANGED vars
  BY <1>3 DEF EditAnsweredAsMade, vars
<1>4. ASSUME NEW r \in Requests, NoSuchProperty(r) \/ NotFound(r) \/ RefuseEdit(r)
                                 \/ Abandon(r)
      PROVE  FALSE
  BY <1>4 DEF NoSuchProperty, NotFound, RefuseEdit, Abandon, Finish
<1>5. ASSUME NEW r \in Requests, Create(r) \/ List(r)
      PROVE  FALSE
  <2>1. answer'.to = op[r]
    BY <1>5 DEF Create, List, Committed, Finish
  <2>2. op[r].kind \in {"create", "list"}
    BY <1>5, UnderWay DEF Create, List
  <2>3. QED
    BY <2>1, <2>2
<1>6. ASSUME \/ \E flaw \in DOMAIN RefusalOf : RefuseInput(flaw)
             \/ \E r \in Requests : \/ \E o \in Inputs : Start(r, o)
                                    \/ LockRow(r)
      PROVE  FALSE
  BY <1>6 DEF RefuseInput, Start, LockRow, NoAnswer, NoOp
<1>7. QED
  BY <1>1, <1>2, <1>3, <1>4, <1>5, <1>6 DEF Next, RequestStep

\* An edit that is answered with success has not been overtaken and has lost
\* nothing: the row is as the answer shows it, with every value asked for.
THEOREM EditsAnswered == Spec => []EditAnsweredAsMade
<1>1. Init => EditAnsweredAsMade
  BY DEF Init, EditAnsweredAsMade, NoAnswer, NoOp
<1>2. QED
  BY <1>1, InvInit, InvStep, EditStep, PTL DEF Spec

\* What a request that creates or edits does to one row.
RowCreated(r, k) ==
    /\ row[k] = NoRow
    /\ row' = [j \in Ids |-> IF j = k THEN [tenant |-> op[r].tenant,
                                            under  |-> op[r].under,
                                            fields |-> op[r].fields]
                             ELSE row[j]]
    /\ k \in NewIds(op[r]) /\ k \in Ids
    /\ op[r].tenant \in Tenants
    /\ HasParent(r)
    /\ audit' = {[action |-> "create", id |-> k, tenant |-> op[r].tenant,
                  changed |-> {}]}
    /\ answer'.rows \subseteq {<<k, row'[k]>>}
    /\ answer'.to = op[r]

RowUpdated(r, k) ==
    /\ k = Target(r) /\ k \in Ids
    /\ row[k] \in Rows(k) /\ row'[k] \in Rows(k)
    /\ row[k].tenant = op[r].tenant
    /\ row' = [j \in Ids |-> IF j = k
                             THEN [row[j] EXCEPT !.fields =
                                      Merge(got[r].fields, op[r].fields,
                                            ChangedFields(r))]
                             ELSE row[j]]
    /\ ChangedFields(r) # {}
    /\ ChangedFields(r) = {f \in Fields(k) :
                              row'[k].fields[f] # row[k].fields[f]}
    /\ audit' = {[action |-> "update", id |-> k, tenant |-> op[r].tenant,
                  changed |-> ChangedFields(r)]}
    /\ answer'.rows \subseteq {<<k, row'[k]>>}
    /\ answer'.to = op[r]

LEMMA CreateRow ==
    ASSUME IInv, NEW r \in Requests, Create(r)
    PROVE  \E k \in Ids : RowCreated(r, k)
<1>1. pc[r] = "create" /\ op[r] \in Operations /\ op[r].kind = "create"
      /\ HasParent(r)
  BY UnderWay DEF Create
<1>2. PICK k \in NewIds(op[r]) :
          /\ row[k] = NoRow
          /\ row' = [row EXCEPT ![k] = [tenant |-> op[r].tenant,
                                        under  |-> op[r].under,
                                        fields |-> op[r].fields]]
          /\ audit' = {[action |-> "create", id |-> k, tenant |-> op[r].tenant,
                        changed |-> {}]}
          /\ Committed(r, 201, {<<k, row'[k]>>})
  BY DEF Create
<1>3. op[r].tenant \in Tenants /\ k \in Ids
  BY <1>1, CreateFacts DEF NewIds, Ids
<1>4. answer'.rows \subseteq {<<k, row'[k]>>} /\ answer'.to = op[r]
  BY <1>2 DEF Committed, Finish
<1>5. row' = [j \in Ids |-> IF j = k THEN [tenant |-> op[r].tenant,
                                           under  |-> op[r].under,
                                           fields |-> op[r].fields]
                            ELSE row[j]]
  BY <1>2, <1>3 DEF IInv, TablesInv
<1>6. QED
  BY <1>1, <1>2, <1>3, <1>4, <1>5 DEF RowCreated

LEMMA UpdatedRow ==
    ASSUME IInv, NEW r \in Requests, UpdateRow(r)
    PROVE  RowUpdated(r, Target(r))
<1> DEFINE k == Target(r)
           merged == Merge(got[r].fields, op[r].fields, ChangedFields(r))
<1>1. /\ k \in Ids /\ row[k] \in Rows(k) /\ row[k].tenant = op[r].tenant
      /\ got[r] = row[k] /\ row[k].fields \in Values(Fields(k))
      /\ DOMAIN op[r].fields \subseteq Fields(k)
      /\ op[r].fields \in Values(DOMAIN op[r].fields)
      /\ ChangedFields(r) \subseteq DOMAIN op[r].fields
      /\ merged \in Values(Fields(k))
  BY EditedRow, RowFacts DEF UpdateRow
<1>2. row' = [j \in Ids |-> IF j = k THEN [row[j] EXCEPT !.fields = merged]
                                     ELSE row[j]]
  BY UpdateStep
<1>3. \A f \in Fields(k) : merged[f] = IF f \in ChangedFields(r)
                                       THEN op[r].fields[f] ELSE row[k].fields[f]
  BY <1>1, MergeFacts
<1>4. ChangedFields(r) = {f \in Fields(k) : merged[f] # row[k].fields[f]}
  BY <1>1, <1>3 DEF ChangedFields
<1> HIDE DEF merged
<1>5. row'[k] \in Rows(k) /\ row'[k].fields = merged
  BY <1>1, <1>2 DEF Rows
<1>6. answer'.rows \subseteq {<<k, row'[k]>>} /\ answer'.to = op[r]
  BY DEF UpdateRow, Committed, Finish
<1>7. QED
  BY <1>1, <1>2, <1>4, <1>5, <1>6 DEF RowUpdated, UpdateRow, merged

\* Every other step leaves the rows alone and logs nothing.
LEMMA OtherStep ==
    ASSUME Next, ~ \E r \in Requests : Create(r) \/ UpdateRow(r)
    PROVE  row' = row /\ audit' = {}
BY DEF Next, RequestStep, RefuseInput, Start, NoSuchProperty, List, NotFound,
       LockRow, RefuseEdit, KeepRow, Abandon

\* The audit log has one row for each change, and it names what has changed.
LEMMA AuditStep ==
    ASSUME IInv, Next, NEW k \in Ids
    PROVE  LET entries == {e \in audit' : e.id = k}
           IN  IF row'[k] = row[k] THEN entries = {}
               ELSE \E e \in entries :
                       /\ entries = {e}
                       /\ e.tenant = row'[k].tenant
                       /\ IF row[k] = NoRow THEN e.action = "create"
                          ELSE /\ e.action = "update"
                               /\ e.changed = {f \in Fields(k) :
                                                  row'[k].fields[f] # row[k].fields[f]}
<1> DEFINE entries == {e \in audit' : e.id = k}
<1>1. ASSUME NEW r \in Requests, NEW j \in Ids, RowCreated(r, j)
      PROVE  IF k = j THEN /\ entries = audit' /\ row[k] = NoRow
                           /\ row'[k] # row[k]
                           /\ row'[k].tenant = op[r].tenant
             ELSE entries = {} /\ row'[k] = row[k]
  BY <1>1 DEF RowCreated, NoRow
<1>2. ASSUME NEW r \in Requests, NEW j \in Ids, RowUpdated(r, j)
      PROVE  IF k = j THEN /\ entries = audit' /\ row[k] # NoRow
                           /\ row'[k] # row[k]
                           /\ row'[k].tenant = op[r].tenant
             ELSE entries = {} /\ row'[k] = row[k]
  <2>1. row[j] # NoRow
    BY <1>2, RowFacts DEF RowUpdated
  <2>2. row'[j] # row[j]
    BY <1>2 DEF RowUpdated
  <2>3. row'[j].tenant = row[j].tenant
    BY <1>2 DEF RowUpdated, Rows
  <2>4. \A e \in audit' : e.id = j
    BY <1>2 DEF RowUpdated
  <2>5. k # j => row'[k] = row[k]
    BY <1>2 DEF RowUpdated
  <2>6. QED
    BY <1>2, <2>1, <2>2, <2>3, <2>4, <2>5 DEF RowUpdated
<1>3. CASE \E r \in Requests, j \in Ids : RowCreated(r, j)
  <2>1. PICK r \in Requests, j \in Ids : RowCreated(r, j)
    BY <1>3
  <2>2. CASE k = j
    <3> DEFINE e == [action |-> "create", id |-> k, tenant |-> op[r].tenant,
                     changed |-> {}]
    <3>1. entries = {e}
      BY <1>1, <2>1, <2>2 DEF RowCreated
    <3>2. row[k] = NoRow /\ row'[k] # row[k] /\ row'[k].tenant = op[r].tenant
      BY <1>1, <2>1, <2>2
    <3>3. e.tenant = op[r].tenant /\ e.action = "create"
      OBVIOUS
    <3> HIDE DEF e, entries
    <3>4. QED
      BY <3>1, <3>2, <3>3 DEF entries
  <2>3. CASE k # j
    BY <1>1, <2>1, <2>3
  <2>4. QED
    BY <2>2, <2>3
<1>4. CASE \E r \in Requests, j \in Ids : RowUpdated(r, j)
  <2>1. PICK r \in Requests, j \in Ids : RowUpdated(r, j)
    BY <1>4
  <2>2. CASE k = j
    <3> DEFINE e == [action |-> "update", id |-> k, tenant |-> op[r].tenant,
                     changed |-> ChangedFields(r)]
    <3>1. entries = {e}
      BY <1>2, <2>1, <2>2 DEF RowUpdated
    <3>2. row[k] # NoRow /\ row'[k] # row[k] /\ row'[k].tenant = op[r].tenant
      BY <1>2, <2>1, <2>2
    <3>3. ChangedFields(r) = {f \in Fields(k) :
                                  row'[k].fields[f] # row[k].fields[f]}
      BY <2>1, <2>2 DEF RowUpdated
    <3>4. e.tenant = op[r].tenant /\ e.action = "update"
          /\ e.changed = ChangedFields(r)
      OBVIOUS
    <3> HIDE DEF e, entries
    <3>5. QED
      BY <3>1, <3>2, <3>3, <3>4 DEF entries
  <2>3. CASE k # j
    BY <1>2, <2>1, <2>3
  <2>4. QED
    BY <2>2, <2>3
<1>5. CASE row' = row /\ audit' = {}
  BY <1>5
<1>6. QED
  BY <1>3, <1>4, <1>5, CreateRow, UpdatedRow, OtherStep DEF RowUpdated

\* The audit log can be trusted: every change that is committed is in it, with
\* the fields that have changed and no others.
THEOREM AuditComplete == Spec => AuditNamesChanges
<1>1. IInv /\ [Next]_vars =>
        [\A k \in Ids :
            LET entries == {e \in audit' : e.id = k}
            IN  IF row'[k] = row[k] THEN entries = {}
                ELSE \E e \in entries :
                        /\ entries = {e}
                        /\ e.tenant = row'[k].tenant
                        /\ IF row[k] = NoRow THEN e.action = "create"
                           ELSE /\ e.action = "update"
                                /\ e.changed = {f \in Fields(k) :
                                                   row'[k].fields[f] # row[k].fields[f]}]_vars
  BY AuditStep
<1>2. QED
  BY <1>1, InvInit, InvStep, PTL DEF Spec, AuditNamesChanges

\* A lease is put under a property of its tenant, and stays there; an answer
\* shows rows of the tenant who asked.
LEMMA ApartStep == IInv /\ TenantsApart /\ [Next]_vars => TenantsApart'
<1> SUFFICES ASSUME IInv, TenantsApart, [Next]_vars PROVE TenantsApart'
  OBVIOUS
<1> DEFINE Owned(t) == {k \in Ids : row'[k].tenant = t}
           Shown == \A x \in answer'.rows : x[2].tenant = answer'.to.tenant
<1>a. ASSUME Shown,
             \A k \in LeaseIds : row'[k] # NoRow =>
                                    row'[k].under \in Owned(row'[k].tenant)
      PROVE  TenantsApart'
  BY <1>a DEF TenantsApart, OwnRows
<1>1. ASSUME NEW r \in Requests, NEW j \in Ids, RowCreated(r, j)
      PROVE  TenantsApart'
  <2>1. \A k \in Ids : row[k] # NoRow => row'[k] = row[k]
    BY <1>1 DEF RowCreated
  <2>2. \A t \in Tenants : OwnRows(t) \subseteq Owned(t)
    BY <2>1, RecordsAssumption DEF OwnRows, NoRow
  <2>3. ASSUME j \in LeaseIds
        PROVE  row'[j].under \in Owned(row'[j].tenant)
    <3>1. op[r].under # "none"
      BY <1>1, <2>3, RecordsAssumption DEF RowCreated, NewIds
    <3>2. op[r].under \in Owned(op[r].tenant)
      BY <1>1, <2>2, <3>1 DEF RowCreated, HasParent
    <3>3. QED
      BY <1>1, <3>2 DEF RowCreated
  <2>4. ASSUME NEW k \in LeaseIds, k # j, row'[k] # NoRow
        PROVE  row'[k].under \in Owned(row'[k].tenant)
    <3>1. k \in Ids /\ row'[k] = row[k]
      BY <1>1, <2>4 DEF RowCreated, Ids
    <3>2. row[k].tenant \in Tenants
      BY <2>4, <3>1, RowFacts DEF IInv, TypeOK
    <3>3. QED
      BY <2>2, <2>4, <3>1, <3>2 DEF TenantsApart
  <2>5. Shown
    BY <1>1 DEF RowCreated
  <2>6. QED
    BY <1>a, <2>3, <2>4, <2>5
<1>2. ASSUME NEW r \in Requests, NEW j \in Ids, RowUpdated(r, j)
      PROVE  TenantsApart'
  <2>1. \A k \in Ids : /\ row'[k] # NoRow <=> row[k] # NoRow
                       /\ row[k] # NoRow => /\ row'[k].tenant = row[k].tenant
                                            /\ row'[k].under = row[k].under
    <3>1. row'[j] # NoRow /\ row[j] # NoRow
      BY <1>2, RowFacts DEF RowUpdated
    <3>2. row'[j].tenant = row[j].tenant /\ row'[j].under = row[j].under
      BY <1>2 DEF RowUpdated, Rows
    <3>3. \A k \in Ids : k # j => row'[k] = row[k]
      BY <1>2 DEF RowUpdated
    <3>4. QED
      BY <3>1, <3>2, <3>3
  <2>2. \A t : OwnRows(t) = Owned(t)
    <3>1. \A k \in Ids : row'[k].tenant = row[k].tenant
      BY <2>1
    <3>2. QED
      BY <3>1 DEF OwnRows
  <2>3. Shown
    <3>1. row'[j].tenant = op[r].tenant
      BY <1>2, <2>1, RowFacts DEF RowUpdated
    <3>2. answer'.rows \subseteq {<<j, row'[j]>>} /\ answer'.to = op[r]
      BY <1>2 DEF RowUpdated
    <3>3. QED
      BY <3>1, <3>2
  <2>4. QED
    BY <1>a, <2>1, <2>2, <2>3 DEF TenantsApart, Ids
<1>3. ASSUME row' = row, Shown
      PROVE  TenantsApart'
  BY <1>a, <1>3 DEF TenantsApart, OwnRows
<1>4. CASE UNCHANGED vars
  BY <1>3, <1>4 DEF TenantsApart, vars
<1>5. CASE /\ Next
           /\ ~ \E r \in Requests : Create(r) \/ UpdateRow(r)
  <2>1. row' = row
    BY <1>5, OtherStep
  <2>2. ASSUME NEW r \in Requests, KeepRow(r)
        PROVE  Shown
    BY <2>2, EditedRow DEF KeepRow, Finish
  <2>3. ASSUME NEW r \in Requests, List(r)
        PROVE  Shown
    BY <2>3 DEF List, Finish, OwnRows
  <2>4. ASSUME \/ \E flaw \in DOMAIN RefusalOf : RefuseInput(flaw)
               \/ \E r \in Requests : \/ \E o \in Inputs : Start(r, o)
                                      \/ NoSuchProperty(r) \/ NotFound(r)
                                      \/ LockRow(r) \/ RefuseEdit(r)
                                      \/ Abandon(r)
        PROVE  answer'.rows = {}
    BY <2>4 DEF RefuseInput, Start, NoSuchProperty, NotFound, LockRow, RefuseEdit,
                Abandon, Finish, NoAnswer
  <2>5. QED
    BY <1>3, <1>5, <2>1, <2>2, <2>3, <2>4 DEF Next, RequestStep
<1>6. QED
  BY <1>1, <1>2, <1>4, <1>5, CreateRow, UpdatedRow DEF RowUpdated

\* No tenant is shown a row of another, and no lease belongs to the property of
\* another.
THEOREM NoTenantMixed == Spec => []TenantsApart
<1>1. Init => TenantsApart
  BY DEF Init, TenantsApart, NoAnswer, Ids
<1>2. QED
  BY <1>1, InvInit, InvStep, ApartStep, PTL DEF Spec

=============================================================================
