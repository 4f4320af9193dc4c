---------------------- MODULE NotificationContactsProofs ----------------------
(***************************************************************************)
(* Theorems about NotificationContacts and its history, for every set of   *)
(* tenants, contacts, spellings and requests.                              *)
(***************************************************************************)
EXTENDS NotificationContactsHistory, TLAPS

-----------------------------------------------------------------------------
(* What requests ask for, and rows                                         *)

LEMMA OperationFacts ==
    ASSUME NEW o \in Inputs
    PROVE  /\ o # NoOp
           /\ o.tenant \in Tenants
           /\ o.kind \in {"create", "configure", "update", "remove", "list"}
           /\ o.kind \in {"create", "configure"} => o.email \in Spellings
           /\ o.kind = "update" => o.contact \in ContactIds /\ o.enabled \in BOOLEAN
           /\ o.kind = "remove" => o.contact \in ContactIds /\ o.reason \in Reasons
BY InputsAssumption DEF Operations, NoOp

\* A row is not the mark for no row, and its tenant tells it from that.
LEMMA RowFacts ==
    ASSUME TypeOK, NEW c \in ContactIds
    PROVE  /\ contact[c] # NoRow <=> contact[c] \in Rows
           /\ contact[c] # NoRow => /\ contact[c].tenant \in Tenants
                                    /\ contact[c].email \in Spellings
                                    /\ contact[c].enabled \in BOOLEAN
           /\ contact[c].tenant \in Tenants => contact[c] # NoRow
BY ContactsAssumption DEF TypeOK, Rows, NoRow

\* A request that is under way asks for one of the inputs.
LEMMA UnderWay ==
    ASSUME TypeOK, NEW r \in Requests, pc[r] # "idle"
    PROVE  op[r] \in Inputs
BY DEF TypeOK

-----------------------------------------------------------------------------
(* The inductive invariant                                                 *)

\* What is stored is in lower case, and only contacts are suppressed.
TablesInv ==
    /\ \A c \in ContactsNow : NormalOf[contact[c].email] = contact[c].email
    /\ \A s \in suppressions : s.contact \in ContactsNow

IsCreate(o) == o.kind \in {"create", "configure"}

\* What a request has read of its contact is of its own tenant and address, and
\* a suppression it has found is the one it is to remove, if it is still there.
RequestInv(r) ==
    /\ shown[r] \subseteq [contact : ContactsNow, enabled : BOOLEAN]
    /\ pc[r] \in {"insert", "look"} => IsCreate(op[r])
    /\ pc[r] = "enable" /\ op[r].kind # "update" =>
          /\ IsCreate(op[r])
          /\ \E c \in WithAddress(op[r].tenant, NormalOf[op[r].email]) :
                {x.contact : x \in shown[r]} = {c}
    /\ pc[r] \in {"find", "delete"} => op[r].kind = "remove"
    /\ pc[r] = "delete" =>
          /\ op[r].contact \in ContactsOf(op[r].tenant)
          /\ found[r] \in 1..used
          /\ \A s \in suppressions : s.id = found[r] => s \in Selected(r)
    /\ pc[r] = "read" => op[r].kind \in {"list", "remove"}

\* What requests ask for and have read are functions.
LocalsInv ==
    /\ op = [r \in Requests |-> op[r]]
    /\ shown = [r \in Requests |-> shown[r]]
    /\ found = [r \in Requests |-> found[r]]

IInv ==
    /\ TypeOK
    /\ LocalsInv
    /\ TablesInv
    /\ OneContactPerAddress
    /\ \A r \in Requests : RequestInv(r)

LEMMA InvInit == Init => IInv
BY ContactsAssumption DEF Init, IInv, TypeOK, LocalsInv, TablesInv, OneContactPerAddress,
   RequestInv, ContactsNow, NoOp, NoRow

-----------------------------------------------------------------------------
(* The requests whose step it is not                                       *)

\* A row keeps its tenant and its address.
RowsKept ==
    /\ contact' \in [ContactIds -> Rows \cup {NoRow}]
    /\ \A c \in ContactsNow : /\ c \in ContactsNow'
                              /\ contact'[c].tenant = contact[c].tenant
                              /\ contact'[c].email = contact[c].email

\* Suppressions come with fresh identifiers.
FreshOnly ==
    /\ used' \in Nat /\ used <= used'
    /\ \A s \in suppressions' \ suppressions : s.id > used

SameRequest(r) ==
    pc'[r] = pc[r] /\ op'[r] = op[r] /\ shown'[r] = shown[r] /\ found'[r] = found[r]

\* A step of others disturbs no request.
LEMMA OthersKept ==
    ASSUME TypeOK, NEW r \in Requests, RequestInv(r),
           RowsKept, FreshOnly, SameRequest(r)
    PROVE  RequestInv(r)'
<1>1. pc[r] # "idle" => op[r].tenant \in Tenants
  BY UnderWay, OperationFacts
<1>2. \A t \in Tenants : ContactsOf(t) \subseteq ContactsNow
  BY RowFacts DEF ContactsOf, ContactsNow
<1>3. shown'[r] \subseteq [contact : ContactsNow', enabled : BOOLEAN]
  BY DEF SameRequest, RequestInv, RowsKept
<1>4. ASSUME pc[r] = "enable", op[r].kind # "update"
      PROVE  \E c \in WithAddress(op[r].tenant, NormalOf[op[r].email])' :
                {x.contact : x \in shown'[r]} = {c}
  <2>1. PICK c \in WithAddress(op[r].tenant, NormalOf[op[r].email]) :
                {x.contact : x \in shown[r]} = {c}
    BY <1>4 DEF RequestInv
  <2>2. c \in ContactsNow
    BY <1>1, <1>2, <1>4, <2>1 DEF WithAddress
  <2>3. c \in WithAddress(op[r].tenant, NormalOf[op[r].email])'
    BY <2>1, <2>2 DEF WithAddress, ContactsOf, RowsKept, SameRequest, ContactsNow
  <2>4. QED
    BY <2>1, <2>3 DEF SameRequest
<1>5. ASSUME pc[r] = "delete"
      PROVE  /\ op[r].contact \in ContactsOf(op[r].tenant)'
             /\ found[r] \in 1..used'
             /\ \A s \in suppressions' : s.id = found[r] => s \in Selected(r)'
  <2>1. op[r].contact \in ContactsNow
    BY <1>1, <1>2, <1>5 DEF RequestInv
  <2>2. op[r].contact \in ContactsOf(op[r].tenant)'
    BY <1>5, <2>1 DEF RequestInv, ContactsOf, RowsKept, SameRequest, ContactsNow
  <2>3. found[r] \in 1..used /\ used \in Nat
    BY <1>5 DEF RequestInv, TypeOK
  <2>4. ASSUME NEW s \in suppressions', s.id = found[r]
        PROVE  s \in Selected(r)'
    <3>1. s \in suppressions
      BY <2>3, <2>4 DEF FreshOnly
    <3>2. QED
      BY <1>5, <2>4, <3>1 DEF RequestInv, Selected, SameRequest
  <2>5. QED
    BY <2>2, <2>3, <2>4 DEF FreshOnly
<1>6. QED
  BY <1>3, <1>4, <1>5 DEF RequestInv, SameRequest, IsCreate

-----------------------------------------------------------------------------
(* One step of a request                                                   *)

Steps == {"idle", "insert", "look", "enable", "find", "delete", "read", "reasons"}

\* What the invariant says of the tables alone.
TablesOK ==
    /\ contact \in [ContactIds -> Rows \cup {NoRow}]
    /\ suppressions \subseteq [id : 1..used, contact : ContactIds,
                               reason : Reasons]
    /\ \A s, z \in suppressions :
          s.id = z.id \/ (s.contact = z.contact /\ s.reason = z.reason) => s = z
    /\ used \in 0..MaxSuppressions
    /\ removed \subseteq 1..used
    /\ TablesInv
    /\ OneContactPerAddress

\* A step of request r: it goes to another place, and the others stay.
StepOf(r) ==
    /\ pc' \in [Requests -> Steps] /\ LocalsInv'
    /\ \A q \in Requests \ {r} : SameRequest(q)
    /\ op'[r] \in Inputs \cup {NoOp}
    /\ pc'[r] = "idle" <=> op'[r] = NoOp
    /\ found'[r] \in 0..used'
    /\ RequestInv(r)'

LEMMA InvFrom ==
    ASSUME IInv, NEW r \in Requests, StepOf(r), RowsKept, FreshOnly, TablesOK'
    PROVE  IInv'
<1>1. TypeOK /\ used \in Nat /\ used' \in Nat
  BY DEF IInv, TypeOK, FreshOnly
<1>2. \A q \in Requests : RequestInv(q)'
  BY <1>1, OthersKept DEF IInv, StepOf
<1>3. \A q \in Requests : shown'[q] \subseteq [contact : ContactIds, enabled : BOOLEAN]
  BY <1>2 DEF RequestInv, ContactsNow
<1>4. \A q \in Requests : /\ op'[q] \in Inputs \cup {NoOp}
                          /\ pc'[q] = "idle" <=> op'[q] = NoOp
                          /\ found'[q] \in 0..used'
  BY <1>1 DEF StepOf, SameRequest, TypeOK, FreshOnly
<1>5. TypeOK'
  BY <1>3, <1>4 DEF TypeOK, TablesOK, StepOf, Steps
<1>6. QED
  BY <1>2, <1>5 DEF IInv, TablesOK, StepOf

LEMMA SameTables ==
    ASSUME IInv, UNCHANGED tables
    PROVE  /\ RowsKept /\ FreshOnly /\ TablesOK'
           /\ \A t : ContactsOf(t)' = ContactsOf(t)
           /\ \A t, x : WithAddress(t, x)' = WithAddress(t, x)
           /\ ContactsNow' = ContactsNow
BY DEF IInv, TypeOK, tables, RowsKept, FreshOnly, TablesOK, TablesInv, ContactsNow,
       OneContactPerAddress, ContactsOf, WithAddress

\* What a request that has ended still holds: nothing.
LEMMA FinishStep ==
    ASSUME IInv, NEW r \in Requests, NEW status, NEW items, Finish(r, status, items),
           used' \in Nat
    PROVE  StepOf(r)
<1>1. /\ pc' = [pc EXCEPT ![r] = "idle"] /\ op' = [op EXCEPT ![r] = NoOp]
      /\ shown' = [shown EXCEPT ![r] = {}] /\ found' = [found EXCEPT ![r] = 0]
  BY DEF Finish
<1>2. pc'[r] = "idle" /\ op'[r] = NoOp /\ shown'[r] = {} /\ found'[r] = 0
  BY <1>1 DEF IInv, TypeOK, LocalsInv
<1>3. RequestInv(r)'
  BY <1>2 DEF RequestInv
<1>4. pc' \in [Requests -> Steps] /\ LocalsInv'
  BY <1>1 DEF IInv, TypeOK, LocalsInv, Steps
<1>5. \A q \in Requests \ {r} : SameRequest(q)
  BY <1>1 DEF IInv, TypeOK, LocalsInv, SameRequest
<1>6. QED
  BY <1>2, <1>3, <1>4, <1>5 DEF StepOf

LEMMA StartStep ==
    ASSUME IInv, NEW r \in Requests, NEW o \in Inputs, Start(r, o)
    PROVE  IInv'
<1>1. RowsKept /\ FreshOnly /\ TablesOK'
  BY SameTables DEF Start
<1>2. /\ pc[r] = "idle" /\ pc' = [pc EXCEPT ![r] = FirstStep[o.kind]]
      /\ op' = [op EXCEPT ![r] = o] /\ UNCHANGED <<shown, found, tables>>
  BY DEF Start
<1>3. pc'[r] = FirstStep[o.kind] /\ op'[r] = o /\ shown'[r] = shown[r]
  BY <1>2 DEF IInv, TypeOK, LocalsInv
<1>4. /\ FirstStep[o.kind] \in {"insert", "enable", "find", "read"}
      /\ FirstStep[o.kind] = "insert" => IsCreate(o)
      /\ FirstStep[o.kind] = "enable" => o.kind = "update"
      /\ FirstStep[o.kind] = "find" => o.kind = "remove"
      /\ FirstStep[o.kind] = "read" => o.kind = "list"
  BY OperationFacts DEF FirstStep, IsCreate
<1>5. RequestInv(r)'
  <2>1. shown[r] \subseteq [contact : ContactsNow', enabled : BOOLEAN]
    BY <1>2, SameTables DEF IInv, RequestInv
  <2>2. QED
    BY <1>3, <1>4, <2>1 DEF RequestInv, IsCreate
<1>6. pc' \in [Requests -> Steps] /\ LocalsInv'
  BY <1>2, <1>4 DEF IInv, TypeOK, LocalsInv, Steps
<1>7. \A q \in Requests \ {r} : SameRequest(q)
  BY <1>2 DEF IInv, TypeOK, LocalsInv, SameRequest
<1>8. found'[r] \in 0..used'
  BY <1>2 DEF IInv, TypeOK, tables
<1>9. StepOf(r)
  BY <1>3, <1>4, <1>5, <1>6, <1>7, <1>8, OperationFacts DEF StepOf
<1>10. QED
  BY <1>1, <1>9, InvFrom

\* A request that goes on changes only what it has read.
LEMMA GoOnStep ==
    ASSUME IInv, NEW r \in Requests, pc[r] # "idle", NEW step \in Steps \ {"idle"},
           GoOn(r, step), RequestInv(r)', found'[r] \in 0..used',
           \A q \in Requests \ {r} : shown'[q] = shown[q] /\ found'[q] = found[q],
           shown' = [q \in Requests |-> shown'[q]],
           found' = [q \in Requests |-> found'[q]]
    PROVE  StepOf(r)
BY UnderWay DEF IInv, TypeOK, LocalsInv, GoOn, Steps, StepOf, SameRequest

LEMMA LookStep ==
    ASSUME IInv, NEW r \in Requests, InsertRefused(r) \/ LookUp(r)
    PROVE  IInv'
<1>1. RowsKept /\ FreshOnly /\ TablesOK' /\ used' = used /\ used \in Nat
  BY SameTables DEF InsertRefused, LookUp, tables, IInv, TypeOK
<1>2. /\ IsCreate(op[r]) /\ op[r] \in Inputs /\ op[r].tenant \in Tenants
      /\ shown[r] \subseteq [contact : ContactsNow, enabled : BOOLEAN]
      /\ found[r] \in 0..used
  BY UnderWay, OperationFacts DEF InsertRefused, LookUp, IInv, RequestInv, TypeOK
<1>3. ASSUME InsertRefused(r)
      PROVE  StepOf(r)
  <2>1. pc'[r] = "look" /\ op' = op /\ shown' = shown /\ found' = found
    BY <1>3 DEF InsertRefused, GoOn, IInv, TypeOK
  <2>2. RequestInv(r)'
    BY <1>2, <1>3, <2>1, SameTables DEF InsertRefused, RequestInv, IsCreate
  <2>3. QED
    BY <1>1, <1>2, <1>3, <2>1, <2>2, GoOnStep
       DEF InsertRefused, Steps, IInv, LocalsInv
<1>4. ASSUME NEW c \in WithAddress(op[r].tenant, NormalOf[op[r].email]),
             GoOn(r, "enable"), LookUp(r),
             shown' = [shown EXCEPT ![r] = Shown({c})], found' = found
      PROVE  StepOf(r)
  <2>1. c \in ContactsNow
    BY <1>2, RowFacts DEF WithAddress, ContactsOf, ContactsNow, IInv
  <2>2. shown'[r] = {[contact |-> c, enabled |-> contact[c].enabled]}
    BY <1>4 DEF Shown, IInv, LocalsInv
  <2>3. pc'[r] = "enable" /\ op' = op
    BY <1>4 DEF GoOn, IInv, TypeOK
  <2>4. contact[c].enabled \in BOOLEAN
    BY <2>1, RowFacts DEF ContactsNow, IInv
  <2>5. {x.contact : x \in shown'[r]} = {c}
    BY <2>2
  <2>6. RequestInv(r)'
    <3>1. shown'[r] \subseteq [contact : ContactsNow', enabled : BOOLEAN]
      <4>1. ContactsNow' = ContactsNow
        BY <1>4, SameTables DEF LookUp
      <4>2. QED
        BY <2>1, <2>2, <2>4, <4>1
    <3>2. c \in WithAddress(op[r].tenant, NormalOf[op[r].email])'
      BY <1>4, <2>3, SameTables DEF LookUp
    <3>3. \E e \in WithAddress(op[r].tenant, NormalOf[op[r].email])' :
              {x.contact : x \in shown'[r]} = {e}
      BY <2>5, <3>2
    <3>4. QED
      BY <1>2, <2>3, <3>1, <3>3 DEF RequestInv, IsCreate
  <2>7. QED
    BY <1>1, <1>2, <1>4, <2>6, GoOnStep DEF LookUp, Steps, IInv, LocalsInv
<1>5. ASSUME NEW status, Finish(r, status, {})
      PROVE  StepOf(r)
  BY <1>1, <1>5, FinishStep
<1>6. QED
  BY <1>1, <1>3, <1>4, <1>5, InvFrom DEF LookUp

LEMMA FindStep ==
    ASSUME IInv, NEW r \in Requests, FindSuppression(r)
    PROVE  IInv'
<1>1. RowsKept /\ FreshOnly /\ TablesOK' /\ used' = used /\ used \in Nat
  BY SameTables DEF FindSuppression, tables, IInv, TypeOK
<1>2. PICK s \in suppressions : /\ s.contact = op[r].contact
                                /\ s.reason = op[r].reason
                                /\ found' = [found EXCEPT ![r] = s.id]
  BY DEF FindSuppression
<1>3. /\ pc[r] = "find" /\ pc'[r] = "delete" /\ op' = op /\ shown' = shown
      /\ UNCHANGED tables
      /\ op[r].contact \in ContactsOf(op[r].tenant) /\ op[r].kind = "remove"
  BY DEF FindSuppression, GoOn, IInv, TypeOK, RequestInv
<1>4. found'[r] = s.id /\ s.id \in 1..used
  BY <1>2 DEF IInv, TypeOK, LocalsInv
<1>5. RequestInv(r)'
  <2>1. shown'[r] \subseteq [contact : ContactsNow', enabled : BOOLEAN]
    BY <1>3, SameTables DEF IInv, RequestInv
  <2>2. op[r].contact \in ContactsOf(op[r].tenant)'
    BY <1>3, SameTables
  <2>3. \A z \in suppressions' : z.id = found'[r] => z \in Selected(r)'
    BY <1>2, <1>3, <1>4 DEF Selected, tables, IInv, TypeOK
  <2>4. QED
    BY <1>1, <1>3, <1>4, <2>1, <2>2, <2>3 DEF RequestInv
<1>6. StepOf(r)
  BY <1>1, <1>2, <1>3, <1>4, <1>5, GoOnStep
     DEF FindSuppression, Steps, IInv, LocalsInv
<1>7. QED
  BY <1>1, <1>6, InvFrom

LEMMA ReadStep ==
    ASSUME IInv, NEW r \in Requests, ReadContacts(r)
    PROVE  IInv'
<1>1. RowsKept /\ FreshOnly /\ TablesOK' /\ used' = used /\ used \in Nat
  BY SameTables DEF ReadContacts, tables, IInv, TypeOK
<1>2. PICK C \in SUBSET ContactsOf(op[r].tenant) :
          shown' = [shown EXCEPT ![r] = Shown(C)]
  BY DEF ReadContacts
<1>3. /\ pc[r] = "read" /\ pc'[r] = "reasons" /\ op' = op /\ found' = found
      /\ UNCHANGED tables /\ op[r].tenant \in Tenants
  BY UnderWay, OperationFacts DEF ReadContacts, GoOn, IInv, TypeOK
<1>4. shown'[r] = Shown(C)
  BY <1>2 DEF IInv, LocalsInv
<1>5. Shown(C) \subseteq [contact : ContactsNow, enabled : BOOLEAN]
  BY <1>2, <1>3, RowFacts DEF Shown, ContactsOf, ContactsNow, IInv
<1>6. RequestInv(r)'
  BY <1>3, <1>4, <1>5, SameTables DEF RequestInv
<1>7. found'[r] \in 0..used'
  BY <1>1, <1>3 DEF IInv, TypeOK
<1>8. StepOf(r)
  BY <1>2, <1>3, <1>6, <1>7, GoOnStep DEF ReadContacts, Steps, IInv, LocalsInv
<1>9. QED
  BY <1>1, <1>8, InvFrom

LEMMA InsertStep ==
    ASSUME IInv, NEW r \in Requests, Insert(r)
    PROVE  IInv' /\ RowsKept
<1>1. /\ op[r] \in Inputs /\ op[r].tenant \in Tenants /\ IsCreate(op[r])
      /\ op[r].email \in Spellings
  BY UnderWay, OperationFacts DEF Insert, IInv, RequestInv, IsCreate
<1> DEFINE x == NormalOf[op[r].email]
           new == [tenant |-> op[r].tenant, email |-> x, enabled |-> TRUE]
<1>2. x \in Spellings /\ NormalOf[x] = x /\ new \in Rows /\ new # NoRow
  BY <1>1, ContactsAssumption DEF Rows, NoRow
<1>3. PICK c \in ContactIds :
          /\ contact[c] = NoRow
          /\ contact' = [contact EXCEPT ![c] = new]
          /\ Finish(r, "ok", {[contact |-> c, enabled |-> TRUE, reasons |-> {}]})
  BY DEF Insert
<1>4. /\ UNCHANGED <<suppressions, used, removed>>
      /\ WithAddress(op[r].tenant, x) = {}
      /\ used \in Nat
  BY DEF Insert, IInv, TypeOK
<1> HIDE DEF new
<1>5. /\ contact' \in [ContactIds -> Rows \cup {NoRow}]
      /\ contact'[c] = new
      /\ \A e \in ContactIds \ {c} : contact'[e] = contact[e]
  BY <1>2, <1>3 DEF IInv, TypeOK
<1>6. RowsKept /\ FreshOnly
  BY <1>3, <1>4, <1>5 DEF RowsKept, FreshOnly, ContactsNow
<1>7. TablesInv'
  BY <1>2, <1>4, <1>5, <1>6 DEF IInv, TablesInv, ContactsNow, RowsKept, new
<1>8. OneContactPerAddress'
  <2>1. \A e \in ContactIds \ {c} :
            contact[e] # NoRow /\ contact[e].tenant = op[r].tenant
                => NormalOf[contact[e].email] # x
    BY <1>4 DEF WithAddress, ContactsOf, IInv, TablesInv, ContactsNow
  <2>2. \A e \in ContactIds \ {c} :
            contact'[e] # NoRow /\ contact'[e].tenant = contact'[c].tenant
                => NormalOf[contact'[e].email] # NormalOf[contact'[c].email]
    BY <1>2, <1>5, <2>1 DEF new
  <2>3. QED
    BY <1>5, <2>2 DEF OneContactPerAddress, IInv
<1>9. TablesOK'
  BY <1>4, <1>5, <1>7, <1>8 DEF TablesOK, IInv, TypeOK
<1>10. QED
  BY <1>3, <1>4, <1>6, <1>9, FinishStep, InvFrom

\* The contact an update or a request to create is about to enable is one of its
\* tenant's, if the request goes on.
LEMMA TargetFacts ==
    ASSUME IInv, NEW r \in Requests, pc[r] = "enable"
    PROVE  /\ Target(r).contact \in ContactIds /\ Target(r).enabled \in BOOLEAN
           /\ op[r] \in Inputs /\ op[r].tenant \in Tenants
           /\ op[r].kind # "update" =>
                 /\ IsCreate(op[r])
                 /\ Target(r).contact
                        \in WithAddress(op[r].tenant, NormalOf[op[r].email])
                 /\ Target(r).enabled
<1>1. op[r] \in Inputs /\ op[r].tenant \in Tenants
  BY UnderWay, OperationFacts DEF IInv
<1>2. CASE op[r].kind = "update"
  BY <1>1, <1>2, OperationFacts DEF Target
<1>3. CASE op[r].kind # "update"
  <2>1. PICK c \in WithAddress(op[r].tenant, NormalOf[op[r].email]) :
            {x.contact : x \in shown[r]} = {c}
    BY <1>3 DEF IInv, RequestInv
  <2>2. Target(r) = [contact |-> c, enabled |-> TRUE]
    BY <1>3, <2>1 DEF Target
  <2>3. QED
    BY <1>1, <1>3, <2>1, <2>2 DEF IInv, RequestInv, WithAddress, ContactsOf
<1>4. QED
  BY <1>2, <1>3

LEMMA SetEnabledStep ==
    ASSUME IInv, NEW r \in Requests, SetEnabled(r)
    PROVE  IInv' /\ RowsKept /\ contact'[Target(r).contact].enabled = Target(r).enabled
<1> DEFINE c == Target(r).contact
           b == Target(r).enabled
<1>1. /\ c \in ContactIds /\ b \in BOOLEAN
      /\ op[r].tenant \in Tenants /\ op[r] \in Inputs
      /\ contact[c].tenant = op[r].tenant
  BY TargetFacts DEF SetEnabled, Updatable, ContactsOf
<1>2. contact[c] \in Rows /\ contact[c] # NoRow
  BY <1>1, RowFacts DEF IInv
<1>3. contact' = [contact EXCEPT ![c].enabled = b]
      /\ UNCHANGED <<suppressions, used, removed>> /\ used \in Nat
  BY DEF SetEnabled, IInv, TypeOK
<1>4. /\ contact' = [contact EXCEPT ![c] = [contact[c] EXCEPT !.enabled = b]]
      /\ [contact[c] EXCEPT !.enabled = b] \in Rows
      /\ [contact[c] EXCEPT !.enabled = b] # NoRow
  BY <1>1, <1>2, <1>3, ContactsAssumption DEF Rows, NoRow
<1>5. /\ contact' \in [ContactIds -> Rows \cup {NoRow}]
      /\ contact'[c] # NoRow
      /\ contact'[c].tenant = contact[c].tenant
      /\ contact'[c].email = contact[c].email
      /\ contact'[c].enabled = b
      /\ \A e \in ContactIds \ {c} : contact'[e] = contact[e]
  BY <1>1, <1>2, <1>4 DEF IInv, TypeOK, Rows
<1> HIDE DEF c, b
<1>6. RowsKept /\ FreshOnly /\ ContactsNow' = ContactsNow
  BY <1>2, <1>3, <1>5 DEF RowsKept, FreshOnly, ContactsNow
<1>7. TablesOK'
  <2>1. TablesInv'
    BY <1>3, <1>5, <1>6 DEF IInv, TablesInv, RowsKept
  <2>2. OneContactPerAddress'
    BY <1>2, <1>5 DEF IInv, OneContactPerAddress
  <2>3. QED
    BY <1>3, <1>5, <2>1, <2>2 DEF TablesOK, IInv, TypeOK
<1>8. StepOf(r)
  <2>1. CASE Finish(r, "ok", {})
    BY <1>3, <2>1, FinishStep
  <2>2. CASE /\ GoOn(r, "reasons")
             /\ shown' = [shown EXCEPT ![r] = {Target(r)}]
             /\ UNCHANGED found
    <3>1. pc[r] = "enable" /\ pc'[r] = "reasons" /\ shown'[r] = {Target(r)}
      BY <2>2 DEF SetEnabled, GoOn, IInv, TypeOK, LocalsInv
    <3>2. Target(r) = [contact |-> c, enabled |-> b] /\ c \in ContactsNow'
      BY <1>1, <1>5 DEF Target, ContactsNow, c, b
    <3>3. RequestInv(r)'
      BY <1>1, <3>1, <3>2 DEF RequestInv, b
    <3>4. QED
      BY <1>3, <2>2, <3>1, <3>3, GoOnStep DEF Steps, IInv, TypeOK, LocalsInv
  <2>3. QED
    BY <2>1, <2>2 DEF SetEnabled
<1>9. QED
  BY <1>5, <1>6, <1>7, <1>8, InvFrom DEF c, b

LEMMA DeleteStep ==
    ASSUME IInv, NEW r \in Requests, DeleteSuppression(r)
    PROVE  IInv' /\ UNCHANGED contact
<1>1. /\ pc[r] = "delete" /\ UNCHANGED <<contact, used, shown, found>>
      /\ suppressions' = suppressions \ Selected(r)
      /\ removed' = removed \cup {found[r]} /\ found[r] \in 1..used
      /\ used \in Nat /\ op[r].kind = "remove"
  BY DEF DeleteSuppression, IInv, RequestInv, TypeOK
<1>2. suppressions' \subseteq suppressions
  BY <1>1
<1>3. RowsKept /\ FreshOnly /\ ContactsNow' = ContactsNow
  BY <1>1, <1>2 DEF RowsKept, FreshOnly, ContactsNow, IInv, TypeOK
<1>4. TablesOK'
  BY <1>1, <1>2, <1>3 DEF TablesOK, TablesInv, OneContactPerAddress, IInv, TypeOK
<1>5. pc'[r] = "read" /\ op' = op
  BY DEF DeleteSuppression, GoOn, IInv, TypeOK
<1>6. RequestInv(r)'
  BY <1>1, <1>3, <1>5 DEF RequestInv, IInv
<1>7. StepOf(r)
  BY <1>1, <1>6, GoOnStep DEF DeleteSuppression, Steps, IInv, TypeOK, LocalsInv
<1>8. QED
  BY <1>1, <1>3, <1>4, <1>7, InvFrom

LEMMA SuppressStep ==
    ASSUME IInv, NEW c \in ContactIds, NEW reason \in Reasons, Suppress(c, reason)
    PROVE  IInv' /\ UNCHANGED contact /\ suppressions \subseteq suppressions'
<1> DEFINE new == [id |-> used + 1, contact |-> c, reason |-> reason]
<1>1. /\ UNCHANGED <<contact, removed, pc, op, shown, found>>
      /\ used' = used + 1 /\ suppressions' = suppressions \cup {new}
      /\ c \in ContactsNow /\ reason \notin ReasonsOf(c)
      /\ used \in Nat /\ used' \in 0..MaxSuppressions
  BY ContactsAssumption
     DEF Suppress, locals, ContactsNow, IInv, TypeOK
<1>2. RowsKept /\ FreshOnly /\ ContactsNow' = ContactsNow
  BY <1>1 DEF RowsKept, FreshOnly, ContactsNow, IInv, TypeOK
<1>3. \A s \in suppressions :
          s # new /\ s.id # new.id /\ ~(s.contact = c /\ s.reason = reason)
  BY <1>1 DEF ReasonsOf, IInv, TypeOK
<1>4. new \in [id : 1..used', contact : ContactIds, reason : Reasons]
  BY <1>1
<1>5. TablesOK'
  <2>1. /\ suppressions' \subseteq [id : 1..used', contact : ContactIds,
                                    reason : Reasons]
        /\ removed' \subseteq 1..used'
    BY <1>1, <1>4 DEF IInv, TypeOK
  <2>2. \A s, z \in suppressions' :
            s.id = z.id \/ (s.contact = z.contact /\ s.reason = z.reason) => s = z
    BY <1>1, <1>3 DEF IInv, TypeOK
  <2>3. TablesInv' /\ OneContactPerAddress'
    BY <1>1, <1>2 DEF TablesInv, OneContactPerAddress, IInv
  <2>4. QED
    BY <1>1, <2>1, <2>2, <2>3 DEF TablesOK, IInv, TypeOK
<1>6. \A r \in Requests : RequestInv(r)'
  BY <1>1, <1>2, OthersKept DEF IInv, SameRequest
<1>7. TypeOK' /\ LocalsInv'
  BY <1>1, <1>5 DEF IInv, TypeOK, TablesOK, LocalsInv
<1>8. QED
  BY <1>1, <1>5, <1>6, <1>7 DEF IInv, TablesOK

\* The answers that change no table.
LEMMA AnswerStep ==
    ASSUME IInv, NEW r \in Requests, NotFound(r) \/ ReadReasons(r) \/ Abandon(r)
    PROVE  IInv' /\ UNCHANGED tables
<1>1. UNCHANGED tables
  BY DEF NotFound, ReadReasons, Abandon
<1>2. PICK status, items : Finish(r, status, items)
  BY DEF NotFound, ReadReasons, Abandon
<1>3. used' \in Nat
  BY <1>1 DEF tables, IInv, TypeOK
<1>4. QED
  BY <1>1, <1>2, <1>3, FinishStep, SameTables, InvFrom

LEMMA InvStep == IInv /\ [Next]_vars => IInv'
<1> SUFFICES ASSUME IInv, [Next]_vars PROVE IInv'
  OBVIOUS
<1>1. CASE UNCHANGED vars
  <2>1. UNCHANGED tables /\ UNCHANGED locals
    BY <1>1 DEF vars
  <2>2. RowsKept /\ FreshOnly /\ TablesOK'
    BY <2>1, SameTables
  <2>3. \A r \in Requests : SameRequest(r)
    BY <2>1 DEF locals, SameRequest
  <2>4. \A r \in Requests : RequestInv(r)'
    BY <2>2, <2>3, OthersKept DEF IInv
  <2>5. TypeOK' /\ LocalsInv'
    BY <2>1 DEF tables, locals, IInv, TypeOK, LocalsInv
  <2>6. QED
    BY <2>2, <2>4, <2>5 DEF IInv, TablesOK
<1>2. CASE Next
  BY <1>2, StartStep, LookStep, FindStep, ReadStep, InsertStep, SetEnabledStep,
     DeleteStep, SuppressStep, AnswerStep DEF Next, RequestStep
<1>3. QED
  BY <1>1, <1>2

LEMMA Invariant == Spec => []IInv
BY InvInit, InvStep, PTL DEF Spec

\* Every variable keeps its type, a contact has at most one suppression for a
\* reason, and no identifier is given out twice.
THEOREM TypeCorrect == Spec => []TypeOK
<1>1. IInv => TypeOK
  BY DEF IInv
<1>2. QED
  BY <1>1, Invariant, PTL

\* However requests race, and however they spell it, an address belongs to at
\* most one contact of a tenant.
THEOREM AddressesApart == Spec => []OneContactPerAddress
<1>1. IInv => OneContactPerAddress
  BY DEF IInv
<1>2. QED
  BY <1>1, Invariant, PTL

-----------------------------------------------------------------------------
(* What a step may change                                                  *)

\* The steps that change a contact or take a suppression away.
LEMMA ChangeStep ==
    ASSUME IInv, Next
    PROVE  \/ contact' = contact /\ suppressions \subseteq suppressions'
           \/ \E r \in Requests : Insert(r) \/ SetEnabled(r) \/ DeleteSuppression(r)
BY SuppressStep
   DEF Next, RequestStep, Start, InsertRefused, LookUp, NotFound, FindSuppression,
       ReadContacts, ReadReasons, Abandon, tables

\* A request changes or takes away only what belongs to its own tenant, and no
\* contact ever changes hands.
THEOREM NoTenantMixed == Spec => TenantsApart
<1> DEFINE Apart(c) ==
              contact[c] # NoRow =>
                  /\ contact'[c].tenant = contact[c].tenant
                  /\ \/ contact'[c] # contact[c]
                     \/ \E s \in suppressions \ suppressions' : s.contact = c
                     => \E r \in Requests : /\ pc'[r] # pc[r]
                                            /\ op[r].tenant = contact[c].tenant
<1>1. ASSUME IInv, Next, NEW c \in ContactIds, contact[c] # NoRow
      PROVE  Apart(c)
  <2>1. ASSUME NEW r \in Requests, Insert(r)
        PROVE  Apart(c)
    BY <1>1, <2>1 DEF Insert, IInv, TypeOK
  <2>2. ASSUME NEW r \in Requests, SetEnabled(r)
        PROVE  Apart(c)
    <3>1. contact'[c].tenant = contact[c].tenant
      BY <1>1, <2>2, SetEnabledStep DEF RowsKept, ContactsNow
    <3>2. pc'[r] # pc[r]
      BY <1>1, <2>2 DEF SetEnabled, Finish, GoOn, IInv, TypeOK
    <3>3. contact'[c] # contact[c] => c = Target(r).contact
      BY <1>1, <2>2 DEF SetEnabled, IInv, TypeOK
    <3>4. contact[Target(r).contact].tenant = op[r].tenant
      BY <2>2 DEF SetEnabled, Updatable, ContactsOf
    <3>5. suppressions' = suppressions
      BY <2>2 DEF SetEnabled
    <3>6. QED
      BY <3>1, <3>2, <3>3, <3>4, <3>5
  <2>3. ASSUME NEW r \in Requests, DeleteSuppression(r)
        PROVE  Apart(c)
    <3>1. contact' = contact /\ suppressions' = suppressions \ Selected(r)
      BY <2>3 DEF DeleteSuppression
    <3>2. \A s \in suppressions \ suppressions' : s.contact = op[r].contact
      BY <3>1 DEF Selected
    <3>3. contact[op[r].contact].tenant = op[r].tenant
      BY <1>1, <2>3 DEF DeleteSuppression, IInv, RequestInv, ContactsOf
    <3>4. pc'[r] # pc[r]
      BY <1>1, <2>3 DEF DeleteSuppression, GoOn, IInv, TypeOK
    <3>5. QED
      BY <3>1, <3>2, <3>3, <3>4
  <2>4. QED
    BY <1>1, <2>1, <2>2, <2>3, ChangeStep
<1>2. IInv /\ [Next]_vars => [\A c \in ContactIds : Apart(c)]_vars
  BY <1>1
<1>3. QED
  BY <1>2, Invariant, PTL DEF Spec, TenantsApart

\* A request to remove a suppression takes away the row it has found, or, when
\* that one is gone, the one that has come in its place; nothing else ends one.
THEOREM RemovalsMeant == Spec => RemovesWhatItFound
<1>1. ASSUME IInv, Next, NEW s \in suppressions \ suppressions'
      PROVE  \E r \in Requests : /\ pc[r] = "delete" /\ pc'[r] # pc[r]
                                 /\ \/ found[r] = s.id
                                    \/ \A z \in suppressions : z.id # found[r]
  <2>1. PICK r \in Requests : DeleteSuppression(r)
    BY <1>1, ChangeStep DEF Insert, SetEnabled
  <2>2. /\ pc[r] = "delete" /\ pc'[r] # pc[r]
        /\ s.contact = op[r].contact /\ s.reason = op[r].reason
    BY <1>1, <2>1 DEF DeleteSuppression, Selected, GoOn, IInv, TypeOK
  <2>3. ASSUME NEW z \in suppressions, z.id = found[r]
        PROVE  z = s
    <3>1. z \in Selected(r)
      BY <1>1, <2>2, <2>3 DEF IInv, RequestInv
    <3>2. QED
      BY <1>1, <2>2, <3>1 DEF Selected, IInv, TypeOK
  <2>4. QED
    BY <2>2, <2>3
<1>2. IInv /\ [Next]_vars =>
        [\A s \in suppressions \ suppressions' :
            \E r \in Requests : /\ pc[r] = "delete" /\ pc'[r] # pc[r]
                                /\ \/ found[r] = s.id
                                   \/ \A z \in suppressions : z.id # found[r]]_vars
  BY <1>1
<1>3. QED
  BY <1>2, Invariant, PTL DEF Spec, RemovesWhatItFound

-----------------------------------------------------------------------------
(* The states the contacts have been in                                    *)

\* What a request is about to answer has been true while it ran.
SeenInv(r) ==
    pc[r] = "reasons" =>
        /\ \A x \in shown[r] : <<x.contact, x.enabled>> \in seen[r].enabled
        /\ IsCreate(op[r]) =>
              \E c \in WithAddress(op[r].tenant, NormalOf[op[r].email]) :
                  <<c, TRUE>> \in seen[r].enabled

HInv ==
    /\ IInv
    /\ \A r \in Requests : SeenInv(r)
    /\ AnswerPartsTrue
    /\ CreateEndsEnabled

\* A step of a request is its own.
LEMMA OneActs ==
    ASSUME IInv, NEW r \in Requests,
           RequestStep(r) \/ Abandon(r) \/ \E o \in Inputs : Start(r, o)
    PROVE  /\ \A q \in Requests \ {r} : SameRequest(q)
           /\ pc[r] # "idle" \/ pc'[r] # "idle"
<1>1. /\ \E step : pc' = [pc EXCEPT ![r] = step]
      /\ \E o : op' = [op EXCEPT ![r] = o] \/ op' = op
      /\ \E x : shown' = [shown EXCEPT ![r] = x] \/ shown' = shown
      /\ \E f : found' = [found EXCEPT ![r] = f] \/ found' = found
  BY DEF RequestStep, Insert, InsertRefused, LookUp, SetEnabled, NotFound,
         FindSuppression, DeleteSuppression, ReadContacts, ReadReasons, Abandon,
         Start, GoOn, Finish
<1>2. pc[r] # "idle" \/ pc'[r] # "idle"
  <2>1. ASSUME NEW o \in Inputs, Start(r, o)
        PROVE  pc'[r] # "idle"
    BY <2>1, OperationFacts DEF Start, FirstStep, IInv, TypeOK
  <2>2. QED
    BY <2>1 DEF RequestStep, Insert, InsertRefused, LookUp, SetEnabled, NotFound,
       FindSuppression, DeleteSuppression, ReadContacts, ReadReasons, Abandon
<1>3. QED
  BY <1>1, <1>2 DEF SameRequest, IInv, TypeOK, LocalsInv

\* No step gives a row another tenant or address.
LEMMA NextKept == IInv /\ Next => RowsKept
BY ChangeStep, InsertStep, SetEnabledStep, SuppressStep
   DEF RowsKept, ContactsNow, IInv, TypeOK, DeleteSuppression

\* What a request under way has seen stays, and what is true now joins it.
LEMMA SeenGrows ==
    ASSUME HNext, NEW r \in Requests, pc[r] # "idle" \/ pc'[r] # "idle"
    PROVE  /\ seen[r].enabled \subseteq seen'[r].enabled
           /\ EnabledNow' \subseteq seen'[r].enabled
           /\ ReasonsNow' \subseteq seen'[r].reasons
BY DEF HNext

\* The addresses of contacts last.
LEMMA AddressKept ==
    ASSUME IInv, RowsKept, NEW t \in Tenants, NEW x
    PROVE  WithAddress(t, x) \subseteq WithAddress(t, x)'
BY RowFacts DEF WithAddress, ContactsOf, RowsKept, ContactsNow, IInv

LEMMA SeenOfOthers ==
    ASSUME HInv, HNext, NEW r \in Requests, SameRequest(r)
    PROVE  SeenInv(r)'
<1> SUFFICES ASSUME pc[r] = "reasons" PROVE SeenInv(r)'
  BY DEF SeenInv, SameRequest
<1>1. RowsKept /\ op[r].tenant \in Tenants
  BY NextKept, UnderWay, OperationFacts DEF HInv, IInv, HNext
<1>2. seen[r].enabled \subseteq seen'[r].enabled
  BY SeenGrows
<1>3. QED
  BY <1>1, <1>2, AddressKept DEF HInv, SeenInv, SameRequest, IsCreate

\* Nothing is answered.
LEMMA NotAnswered ==
    ASSUME answer' = NoAnswer
    PROVE  AnswerPartsTrue' /\ CreateEndsEnabled'
BY DEF NoAnswer, NoOp, AnswerPartsTrue, CreateEndsEnabled

\* A contact of the table counts as it is.
LEMMA NowFacts ==
    ASSUME TypeOK, NEW c \in ContactsNow
    PROVE  /\ c \in ContactIds /\ contact[c].enabled \in BOOLEAN
           /\ <<c, contact[c].enabled>> \in EnabledNow
           /\ <<c, ReasonsOf(c)>> \in ReasonsNow
BY RowFacts DEF ContactsNow, EnabledNow, ReasonsNow

\* An answer is right if what it shows is so now, or has been, and if a request
\* to create a contact ends with the contact enabled.
LEMMA RightAnswer ==
    ASSUME HInv, HNext, NEW r \in Requests, pc[r] # "idle",
           pc'[r] = "idle", answer'.by = r, answer'.to = op[r],
           \A x \in answer'.items :
               /\ <<x.contact, x.enabled>> \in seen[r].enabled \cup EnabledNow'
               /\ <<x.contact, x.reasons>> \in ReasonsNow',
           IsCreate(op[r]) /\ answer'.status # "lost" =>
               \E c \in ContactIds :
                   /\ contact'[c].tenant = op[r].tenant
                   /\ contact'[c].email = NormalOf[op[r].email]
                   /\ <<c, TRUE>> \in seen[r].enabled \cup EnabledNow'
    PROVE  AnswerPartsTrue' /\ CreateEndsEnabled' /\ SeenInv(r)'
<1>1. /\ seen[r].enabled \cup EnabledNow' \subseteq seen'[r].enabled
      /\ ReasonsNow' \subseteq seen'[r].reasons
  BY SeenGrows
<1>2. AnswerPartsTrue'
  BY <1>1 DEF AnswerPartsTrue
<1>3. CreateEndsEnabled'
  BY <1>1 DEF CreateEndsEnabled, IsCreate, WithAddress, ContactsOf
<1>4. QED
  BY <1>2, <1>3 DEF SeenInv

\* What Finish answers.
LEMMA FinishAnswers ==
    ASSUME HInv, NEW r \in Requests, NEW status, NEW items, Finish(r, status, items)
    PROVE  /\ pc'[r] = "idle" /\ answer'.by = r /\ answer'.to = op[r]
           /\ answer'.status = status /\ answer'.items = items
BY DEF Finish, HInv, IInv, TypeOK

LEMMA InsertAnswers ==
    ASSUME HInv, HNext, NEW r \in Requests, Insert(r)
    PROVE  AnswerPartsTrue' /\ CreateEndsEnabled' /\ SeenInv(r)'
<1>1. PICK t, e : t = op[r].tenant /\ e = op[r].email /\ t \in Tenants
  BY UnderWay, OperationFacts DEF Insert, HInv, IInv
<1>2. PICK c \in ContactIds :
          /\ contact[c] = NoRow
          /\ contact' = [contact EXCEPT ![c] = [tenant |-> t, email |-> NormalOf[e],
                                                enabled |-> TRUE]]
          /\ Finish(r, "ok", {[contact |-> c, enabled |-> TRUE, reasons |-> {}]})
  BY <1>1 DEF Insert
<1>3. contact'[c] = [tenant |-> t, email |-> NormalOf[e], enabled |-> TRUE]
  BY <1>2 DEF HInv, IInv, TypeOK
<1>4. contact'[c] # NoRow
  BY <1>1, <1>3, ContactsAssumption DEF NoRow
<1>5. c \in ContactsNow' /\ suppressions' = suppressions /\ <<c, TRUE>> \in EnabledNow'
  <2>1. c \in ContactsNow' /\ suppressions' = suppressions
    BY <1>4 DEF ContactsNow, Insert
  <2>2. contact'[c].enabled = TRUE
    BY <1>3
  <2>3. <<c, contact'[c].enabled>> \in EnabledNow'
    BY <2>1 DEF EnabledNow
  <2>4. QED
    BY <2>1, <2>2, <2>3
<1>6. ReasonsOf(c)' = {}
  BY <1>2, <1>5 DEF ReasonsOf, HInv, IInv, TablesInv, ContactsNow
<1>7. <<c, {}>> \in ReasonsNow'
  BY <1>5, <1>6 DEF ReasonsNow
<1>8. pc[r] # "idle"
  BY DEF Insert
<1>9. /\ pc'[r] = "idle" /\ answer'.by = r /\ answer'.to = op[r]
      /\ answer'.items = {[contact |-> c, enabled |-> TRUE, reasons |-> {}]}
  BY <1>2, FinishAnswers
<1>10. \A x \in answer'.items : x.contact = c /\ x.enabled = TRUE /\ x.reasons = {}
  BY <1>9
<1>11. \A x \in answer'.items :
          /\ <<x.contact, x.enabled>> \in seen[r].enabled \cup EnabledNow'
          /\ <<x.contact, x.reasons>> \in ReasonsNow'
  BY <1>5, <1>7, <1>10
<1>12. /\ contact'[c].tenant = op[r].tenant
       /\ contact'[c].email = NormalOf[op[r].email]
  BY <1>1, <1>3
<1>13. QED
  BY <1>5, <1>8, <1>9, <1>11, <1>12, RightAnswer

LEMMA LookAnswers ==
    ASSUME HInv, HNext, NEW r \in Requests, LookUp(r)
    PROVE  AnswerPartsTrue' /\ CreateEndsEnabled' /\ SeenInv(r)'
<1>1. PICK t, e : t = op[r].tenant /\ e = op[r].email
  OBVIOUS
<1>2. PICK c \in WithAddress(t, NormalOf[e]) :
          IF contact[c].enabled
          THEN Finish(r, IF op[r].kind = "configure" THEN "ok" ELSE "conflict", {})
          ELSE GoOn(r, "enable")
  BY <1>1 DEF LookUp
<1>3. pc[r] = "look" /\ UNCHANGED tables
  BY DEF LookUp
<1>4. CASE ~contact[c].enabled
  BY <1>2, <1>4, NotAnswered DEF GoOn, SeenInv, HInv, IInv, TypeOK
<1>5. CASE contact[c].enabled
  <2>1. t \in Tenants
    BY <1>1, <1>3, UnderWay, OperationFacts DEF HInv, IInv
  <2>2. c \in ContactsNow
    BY <1>2, <2>1, RowFacts DEF WithAddress, ContactsOf, ContactsNow, HInv, IInv
  <2>3. <<c, TRUE>> \in EnabledNow
    BY <1>5, <2>2, NowFacts DEF HInv, IInv
  <2>4. /\ <<c, TRUE>> \in EnabledNow' /\ c \in ContactIds
        /\ contact'[c].tenant = t /\ contact'[c].email = NormalOf[e]
    BY <1>2, <1>3, <2>3 DEF tables, WithAddress, ContactsOf, EnabledNow, ContactsNow
  <2>5. QED
    <3>1. /\ pc'[r] = "idle" /\ answer'.by = r /\ answer'.to = op[r]
          /\ answer'.items = {}
      BY <1>2, <1>5, FinishAnswers
    <3>2. QED
      BY <1>1, <1>3, <2>4, <3>1, RightAnswer
<1>6. QED
  BY <1>4, <1>5

LEMMA EnableAnswers ==
    ASSUME HInv, HNext, NEW r \in Requests, SetEnabled(r)
    PROVE  AnswerPartsTrue' /\ CreateEndsEnabled' /\ SeenInv(r)'
<1>1. PICK t, e, c, b : /\ t = op[r].tenant /\ e = op[r].email
                        /\ c = Target(r).contact /\ b = Target(r).enabled
  OBVIOUS
<1>2. /\ c \in ContactIds /\ contact[c].tenant = t /\ t \in Tenants
      /\ contact'[c].enabled = b /\ RowsKept
      /\ op[r].kind # "update" =>
            IsCreate(op[r]) /\ c \in WithAddress(t, NormalOf[e]) /\ b = TRUE
  BY <1>1, TargetFacts, SetEnabledStep
     DEF SetEnabled, Updatable, ContactsOf, HInv, IInv
<1>3. c \in ContactsNow /\ c \in ContactsNow'
  BY <1>2, RowFacts DEF ContactsNow, RowsKept, HInv, IInv
<1>4. <<c, b>> \in EnabledNow'
  BY <1>2, <1>3 DEF EnabledNow
<1>5. IsCreate(op[r]) => c \in WithAddress(t, NormalOf[e])' /\ b = TRUE
  BY <1>2, AddressKept DEF IsCreate, HInv
<1>6. pc[r] = "enable"
  BY DEF SetEnabled
<1>7. CASE Finish(r, "ok", {})
  <2>1. /\ pc'[r] = "idle" /\ answer'.by = r /\ answer'.to = op[r]
        /\ answer'.items = {}
    BY <1>7, FinishAnswers
  <2>2. IsCreate(op[r]) => /\ contact'[c].tenant = t
                           /\ contact'[c].email = NormalOf[e]
    BY <1>5 DEF WithAddress, ContactsOf
  <2>3. QED
    BY <1>1, <1>2, <1>4, <1>5, <1>6, <2>1, <2>2, RightAnswer
<1>8. CASE /\ GoOn(r, "reasons")
           /\ shown' = [shown EXCEPT ![r] = {Target(r)}]
  <2>1. shown'[r] = {Target(r)} /\ op' = op
    BY <1>8 DEF GoOn, HInv, IInv, LocalsInv
  <2>2. EnabledNow' \subseteq seen'[r].enabled
    BY <1>6, SeenGrows
  <2>3. SeenInv(r)'
    BY <1>1, <1>4, <1>5, <2>1, <2>2 DEF SeenInv
  <2>4. QED
    BY <1>8, <2>3, NotAnswered DEF GoOn
<1>9. QED
  BY <1>7, <1>8 DEF SetEnabled

LEMMA ReadAnswers ==
    ASSUME HInv, HNext, NEW r \in Requests, ReadContacts(r)
    PROVE  AnswerPartsTrue' /\ CreateEndsEnabled' /\ SeenInv(r)'
<1>1. PICK C \in SUBSET ContactsOf(op[r].tenant) :
          shown' = [shown EXCEPT ![r] = Shown(C)]
  BY DEF ReadContacts
<1>2. /\ pc[r] = "read" /\ ~IsCreate(op[r]) /\ op' = op
      /\ op[r].tenant \in Tenants /\ UNCHANGED tables
  BY UnderWay, OperationFacts
     DEF ReadContacts, GoOn, IsCreate, HInv, IInv, RequestInv
<1>3. shown'[r] = Shown(C)
  BY <1>1 DEF HInv, IInv, LocalsInv
<1>4. C \subseteq ContactsNow
  BY <1>1, <1>2, RowFacts DEF ContactsOf, ContactsNow, HInv, IInv
<1>5. \A x \in Shown(C) : <<x.contact, x.enabled>> \in EnabledNow
  BY <1>4 DEF Shown, EnabledNow
<1>6. EnabledNow' = EnabledNow
  BY <1>2 DEF tables, EnabledNow, ContactsNow
<1>7. EnabledNow' \subseteq seen'[r].enabled
  BY <1>2, SeenGrows
<1>8. SeenInv(r)'
  BY <1>2, <1>3, <1>5, <1>6, <1>7 DEF SeenInv
<1>9. QED
  BY <1>8, NotAnswered DEF ReadContacts, GoOn

LEMMA ReasonsAnswers ==
    ASSUME HInv, HNext, NEW r \in Requests, ReadReasons(r)
    PROVE  AnswerPartsTrue' /\ CreateEndsEnabled' /\ SeenInv(r)'
<1>1. pc[r] = "reasons" /\ UNCHANGED tables
  BY DEF ReadReasons
<1>2. /\ pc'[r] = "idle" /\ answer'.by = r /\ answer'.to = op[r]
      /\ answer'.items = {[contact |-> x.contact, enabled |-> x.enabled,
                           reasons |-> ReasonsOf(x.contact)] : x \in shown[r]}
  BY FinishAnswers DEF ReadReasons
<1>3. ReasonsNow' = ReasonsNow
  BY <1>1 DEF tables, ReasonsNow, ReasonsOf, ContactsNow
<1>4. \A x \in shown[r] : x.contact \in ContactsNow
  BY DEF HInv, IInv, RequestInv
<1>5. \A x \in shown[r] : /\ <<x.contact, x.enabled>> \in seen[r].enabled
                          /\ <<x.contact, ReasonsOf(x.contact)>> \in ReasonsNow
  BY <1>1, <1>4 DEF HInv, SeenInv, ReasonsNow
<1>6. \A z \in answer'.items :
          /\ <<z.contact, z.enabled>> \in seen[r].enabled \cup EnabledNow'
          /\ <<z.contact, z.reasons>> \in ReasonsNow'
  <2>1. ASSUME NEW z \in answer'.items
        PROVE  /\ <<z.contact, z.enabled>> \in seen[r].enabled
               /\ <<z.contact, z.reasons>> \in ReasonsNow
    <3>1. PICK x \in shown[r] : z = [contact |-> x.contact, enabled |-> x.enabled,
                                     reasons |-> ReasonsOf(x.contact)]
      BY <1>2, <2>1
    <3>2. /\ z.contact = x.contact /\ z.enabled = x.enabled
          /\ z.reasons = ReasonsOf(x.contact)
      BY <3>1
    <3>3. QED
      BY <1>5, <3>2
  <2>2. QED
    BY <1>3, <2>1
<1>7. ASSUME IsCreate(op[r])
      PROVE  \E c \in ContactIds :
                 /\ contact'[c].tenant = op[r].tenant
                 /\ contact'[c].email = NormalOf[op[r].email]
                 /\ <<c, TRUE>> \in seen[r].enabled \cup EnabledNow'
  BY <1>1, <1>7 DEF HInv, SeenInv, WithAddress, ContactsOf, tables
<1>8. QED
  BY <1>1, <1>2, <1>6, <1>7, RightAnswer

\* The answers that tell of nothing.
LEMMA EmptyAnswers ==
    ASSUME HInv, HNext, NEW r \in Requests, NotFound(r) \/ Abandon(r)
    PROVE  AnswerPartsTrue' /\ CreateEndsEnabled' /\ SeenInv(r)'
<1>1. pc[r] # "idle"
  BY DEF NotFound, Abandon
<1>2. CASE Abandon(r)
  <2>1. /\ pc'[r] = "idle" /\ answer'.by = r /\ answer'.to = op[r]
        /\ answer'.items = {} /\ answer'.status = "lost"
    BY <1>2, FinishAnswers DEF Abandon
  <2>2. QED
    BY <1>1, <2>1, RightAnswer
<1>3. CASE NotFound(r)
  <2>1. /\ pc'[r] = "idle" /\ answer'.by = r /\ answer'.to = op[r]
        /\ answer'.items = {}
    BY <1>3, FinishAnswers DEF NotFound
  <2>2. ~IsCreate(op[r])
    BY <1>3, TargetFacts
       DEF NotFound, Updatable, WithAddress, HInv, IInv, RequestInv, IsCreate
  <2>3. QED
    BY <1>1, <2>1, <2>2, RightAnswer
<1>4. QED
  BY <1>2, <1>3

\* The steps that answer nothing and read nothing that is answered.
LEMMA OtherAnswers ==
    ASSUME HInv, NEW r \in Requests,
           \/ \E o \in Inputs : Start(r, o)
           \/ InsertRefused(r) \/ FindSuppression(r) \/ DeleteSuppression(r)
    PROVE  AnswerPartsTrue' /\ CreateEndsEnabled' /\ SeenInv(r)'
<1>1. answer' = NoAnswer
  BY DEF Start, InsertRefused, FindSuppression, DeleteSuppression, GoOn
<1>2. pc'[r] # "reasons"
  BY OperationFacts DEF Start, InsertRefused, FindSuppression, DeleteSuppression, GoOn,
     FirstStep, HInv, IInv, TypeOK
<1>3. QED
  BY <1>1, <1>2, NotAnswered DEF SeenInv

LEMMA HInvInit == HInit => HInv
<1> SUFFICES ASSUME HInit PROVE HInv
  OBVIOUS
<1>1. IInv
  BY InvInit DEF HInit
<1>2. \A r \in Requests : SeenInv(r)
  BY DEF HInit, Init, SeenInv
<1>3. AnswerPartsTrue
  BY DEF HInit, Init, AnswerPartsTrue, NoAnswer
<1>4. CreateEndsEnabled
  BY DEF HInit, Init, CreateEndsEnabled, NoAnswer, NoOp
<1>5. QED
  BY <1>1, <1>2, <1>3, <1>4 DEF HInv

LEMMA HInvStep == HInv /\ [HNext]_hvars => HInv'
<1> SUFFICES ASSUME HInv, [HNext]_hvars PROVE HInv'
  OBVIOUS
<1>1. IInv'
  BY InvStep DEF HInv, HNext, hvars
<1>2. CASE UNCHANGED hvars
  <2>1. UNCHANGED <<contact, pc, op, shown, answer, seen>>
    BY <1>2 DEF hvars, vars, tables, locals
  <2>2. QED
    BY <1>1, <2>1 DEF HInv, SeenInv, AnswerPartsTrue, CreateEndsEnabled, WithAddress,
       ContactsOf, IsCreate
<1>3. CASE HNext
  <2>1. ASSUME NEW r \in Requests,
               RequestStep(r) \/ Abandon(r) \/ \E o \in Inputs : Start(r, o)
        PROVE  HInv'
    <3>1. \A q \in Requests \ {r} : SeenInv(q)'
      BY <1>3, <2>1, OneActs, SeenOfOthers DEF HInv
    <3>2. AnswerPartsTrue' /\ CreateEndsEnabled' /\ SeenInv(r)'
      BY <1>3, <2>1, InsertAnswers, LookAnswers, EnableAnswers, ReadAnswers,
         ReasonsAnswers, EmptyAnswers, OtherAnswers DEF RequestStep
    <3>3. QED
      BY <1>1, <3>1, <3>2 DEF HInv
  <2>2. ASSUME NEW c \in ContactIds, NEW reason \in Reasons, Suppress(c, reason)
        PROVE  HInv'
    <3>1. \A r \in Requests : SeenInv(r)'
      BY <1>3, <2>2, SeenOfOthers DEF Suppress, locals, SameRequest
    <3>2. QED
      BY <1>1, <2>2, <3>1, NotAnswered DEF HInv, Suppress
  <2>3. QED
    BY <1>3, <2>1, <2>2 DEF HNext, Next
<1>4. QED
  BY <1>2, <1>3

LEMMA HInvariant == HSpec => []HInv
BY HInvInit, HInvStep, PTL DEF HSpec

\* Nothing a request answers is older than the request: however many transactions
\* the answer was put together from, each part was true while the request ran.
THEOREM AnswersRecent == HSpec => []AnswerPartsTrue
<1>1. HInv => AnswerPartsTrue
  BY DEF HInv
<1>2. QED
  BY <1>1, HInvariant, PTL

\* Whatever the others do between its transactions, a request to create a contact
\* that is answered has had a contact with the address enabled while it ran.
THEOREM CreationsEndEnabled == HSpec => []CreateEndsEnabled
<1>1. HInv => CreateEndsEnabled
  BY DEF HInv
<1>2. QED
  BY <1>1, HInvariant, PTL

=============================================================================
