------------------------ MODULE EmailDeliveryProofs ------------------------
(***************************************************************************)
(* Theorems about EmailDelivery and EmailDeliveryHistory, for every set of *)
(* tenants, notifications, contacts and workers and every setting.         *)
(***************************************************************************)
EXTENDS EmailDeliveryHistory, FiniteSetTheorems, TLAPS

-----------------------------------------------------------------------------
(* Deliveries                                                              *)

\* There are finitely many deliveries, and each names one of the contacts.
LEMMA DeliveryFacts ==
    /\ IsFiniteSet(Deliveries)
    /\ \A d \in Deliveries : ContactOf(d) \in Contacts
<1>1. IsFiniteSet(Notifications \X Contacts)
  BY DeliveryAssumption, FS_Product
<1>2. Deliveries \subseteq Notifications \X Contacts
  BY DEF Deliveries
<1>3. QED
  BY <1>1, <1>2, FS_Subset DEF ContactOf

\* A row is selected only among the deliveries, and only if it exists.
LEMMA SelectionFacts ==
    ASSUME NEW t
    PROVE  /\ Candidates(t) \subseteq Deliveries
           /\ Listable(t) \subseteq Deliveries
BY DEF Candidates, Listable

\* A batch is cut from the rows it is cut from.
LEMMA FirstRowsSubset ==
    ASSUME NEW S, NEW k
    PROVE  FirstRows(S, k) \subseteq S
BY DEF FirstRows

-----------------------------------------------------------------------------
(* Type correctness                                                        *)

LEMMA TypeInit == Init => TypeOK
BY DeliveryFacts DEF Init, TypeOK, NoneSeen

LEMMA EndRunType ==
    ASSUME TypeOK, NEW w \in Workers, EndRun(w)
    PROVE  /\ pc' \in [Workers -> {"idle", "prepare", "list", "send",
                                   "mark_sent", "mark_failed"}]
           /\ scope' \in [Workers -> Tenants \cup {"all"}]
           /\ todo' \in [Workers -> SUBSET Tenants]
           /\ batch' \in [Workers -> SUBSET Deliveries]
           /\ seen' \in [Workers -> [Deliveries -> Nat]]
           /\ exhausted' \in [Workers -> SUBSET Deliveries]
BY DEF TypeOK, EndRun, NoneSeen

LEMMA NextItemType ==
    ASSUME TypeOK, NEW w \in Workers, NEW d \in Deliveries, NextItem(w, d)
    PROVE  /\ pc' \in [Workers -> {"idle", "prepare", "list", "send",
                                   "mark_sent", "mark_failed"}]
           /\ batch' \in [Workers -> SUBSET Deliveries]
           /\ seen' \in [Workers -> [Deliveries -> Nat]]
           /\ UNCHANGED <<scope, todo, exhausted>>
<1>1. seen[w] \in [Deliveries -> Nat]
  BY DEF TypeOK
<1>2. [seen[w] EXCEPT ![d] = 0] \in [Deliveries -> Nat]
  BY <1>1
<1>3. QED
  BY <1>2 DEF TypeOK, NextItem

LEMMA PrepareTenantType ==
    ASSUME TypeOK, NEW w \in Workers, NEW t \in Tenants, PrepareTenant(w, t)
    PROVE  TypeOK'
<1> DEFINE new == {d \in Candidates(t) : status[d] = "none"}
           n   == Cardinality({d \in Deliveries : status[d] # "none"})
<1>1. n \in Nat /\ Cardinality(new) \in Nat
  <2>1. IsFiniteSet({d \in Deliveries : status[d] # "none"})
    BY DeliveryFacts, FS_Subset
  <2>2. new \subseteq Deliveries
    BY SelectionFacts
  <2>3. IsFiniteSet(new)
    BY <2>2, DeliveryFacts, FS_Subset
  <2>4. QED
    BY <2>1, <2>3, FS_CardinalityType
<1>2. PICK place \in [new -> (n + 1)..(n + Cardinality(new))] :
          rank' = [d \in Deliveries |-> IF d \in new THEN place[d] ELSE rank[d]]
  BY DEF PrepareTenant
<1> HIDE DEF n
<1>3. \A d \in new : place[d] \in Nat
  BY <1>1, <1>2
<1>4. rank' \in [Deliveries -> Nat]
  BY <1>2, <1>3 DEF TypeOK
<1>5. /\ status' \in [Deliveries -> {"none", "pending", "failed", "sent"}]
      /\ todo' \in [Workers -> SUBSET Tenants]
  BY DEF TypeOK, PrepareTenant
<1>6. UNCHANGED <<attempts, lastError, sentAt, pc, scope, batch, seen, exhausted,
                  notifications, deleted, enabled, suppressions,
                  accepted, feedback, reported, crashes>>
  BY DEF PrepareTenant, tables, outside
<1>7. QED
  BY <1>4, <1>5, <1>6 DEF TypeOK

LEMMA ListTenantType ==
    ASSUME TypeOK, NEW w \in Workers, NEW t \in Tenants, ListTenant(w, t)
    PROVE  TypeOK'
<1>1. FirstRows(Listable(t), BatchSize) \subseteq Deliveries
  BY SelectionFacts, FirstRowsSubset
<1>2. batch' \in [Workers -> SUBSET Deliveries]
  BY <1>1 DEF TypeOK, ListTenant
<1>3. seen' \in [Workers -> [Deliveries -> Nat]]
  BY DEF TypeOK, ListTenant
<1>4. todo' \in [Workers -> SUBSET Tenants]
  BY DEF TypeOK, ListTenant
<1>5. QED
  BY <1>2, <1>3, <1>4 DEF TypeOK, ListTenant, tables, rows, outside

LEMMA StartSendingType ==
    ASSUME TypeOK, NEW w \in Workers, StartSending(w)
    PROVE  TypeOK'
<1>1. FirstRows(batch[w], BatchSize) \subseteq Deliveries
  BY FirstRowsSubset DEF TypeOK
<1>2. batch' \in [Workers -> SUBSET Deliveries]
  BY <1>1 DEF TypeOK, StartSending
<1>3. seen' \in [Workers -> [Deliveries -> Nat]]
  BY DEF TypeOK, StartSending
<1>4. QED
  BY <1>2, <1>3 DEF TypeOK, StartSending, tables, rows, outside

LEMMA SendItemType ==
    ASSUME TypeOK, NEW w \in Workers, NEW d \in Deliveries, SendItem(w, d)
    PROVE  TypeOK'
<1>1. accepted' \in [Deliveries -> Nat]
  BY DEF TypeOK, SendItem
<1>2. pc' \in [Workers -> {"idle", "prepare", "list", "send",
                           "mark_sent", "mark_failed"}]
  BY DEF TypeOK, SendItem
<1>3. exhausted' \in [Workers -> SUBSET Deliveries]
  BY DEF TypeOK, SendItem
<1>4. QED
  BY <1>1, <1>2, <1>3 DEF TypeOK, SendItem, tables, rows

\* Every step of an invocation keeps every variable in its type.
LEMMA WorkerType ==
    ASSUME TypeOK, WorkerNext
    PROVE  TypeOK'
<1>1. ASSUME NEW w \in Workers, NEW s \in Tenants \cup {"all"}, StartRun(w, s)
      PROVE  TypeOK'
  BY <1>1 DEF TypeOK, StartRun, DeliveryTenants, tables, rows, outside
<1>2. ASSUME NEW w \in Workers, StartListing(w)
      PROVE  TypeOK'
  BY <1>2 DEF TypeOK, StartListing, DeliveryTenants, tables, rows, outside
<1>3. ASSUME NEW w \in Workers, NEW d \in Deliveries,
             AbortOnUnsendable(w, d) \/ MarkMissesSentRow(w, d)
      PROVE  TypeOK'
  <2>1. EndRun(w) /\ UNCHANGED <<tables, rows, outside>>
    BY <1>3 DEF AbortOnUnsendable, MarkMissesSentRow
  <2>2. QED
    BY <2>1, EndRunType DEF TypeOK, tables, rows, outside
<1>4. ASSUME NEW w \in Workers, NEW d \in Deliveries, MarkSent(w, d)
      PROVE  TypeOK'
  <2>1. /\ NextItem(w, d)
        /\ UNCHANGED <<rank, tables, outside>>
    BY <1>4 DEF MarkSent
  <2>2. /\ status' \in [Deliveries -> {"none", "pending", "failed", "sent"}]
        /\ attempts' \in [Deliveries -> Nat]
        /\ lastError' \in [Deliveries ->
                              {"none", "smtp", "ses_bounce", "ses_complaint"}]
        /\ sentAt' \in [Deliveries -> BOOLEAN]
    BY <1>4 DEF TypeOK, MarkSent
  <2>3. QED
    BY <2>1, <2>2, NextItemType DEF TypeOK, tables, outside
<1>5. ASSUME NEW w \in Workers, NEW d \in Deliveries, MarkFailed(w, d)
      PROVE  TypeOK'
  <2>1. /\ NextItem(w, d)
        /\ UNCHANGED <<rank, sentAt, tables, outside>>
    BY <1>5 DEF MarkFailed
  <2>2. /\ status' \in [Deliveries -> {"none", "pending", "failed", "sent"}]
        /\ attempts' \in [Deliveries -> Nat]
        /\ lastError' \in [Deliveries ->
                              {"none", "smtp", "ses_bounce", "ses_complaint"}]
    BY <1>5 DEF TypeOK, MarkFailed
  <2>3. QED
    BY <2>1, <2>2, NextItemType DEF TypeOK, tables, outside
<1>6. ASSUME NEW w \in Workers, FinishRun(w) \/ Interrupted(w)
      PROVE  TypeOK'
  <2>1. /\ EndRun(w)
        /\ UNCHANGED <<enabled, suppressions, rows, accepted, feedback>>
    BY <1>6 DEF FinishRun, Interrupted, Crash, DeleteDuringPreparation, tables,
                outside
  <2>2. reported' \subseteq Deliveries /\ crashes' \in Nat
    BY <1>6 DEF TypeOK, FinishRun, Interrupted, Crash, DeleteDuringPreparation,
                outside
  <2>3. /\ notifications' \subseteq Notifications
        /\ deleted' \subseteq Notifications \ notifications'
    BY <1>6 DEF TypeOK, FinishRun, Interrupted, Crash, DeleteDuringPreparation,
                Withdraw, tables
  <2>4. QED
    BY <2>1, <2>2, <2>3, EndRunType DEF TypeOK, rows
<1>7. QED
  BY <1>1, <1>2, <1>3, <1>4, <1>5, <1>6, PrepareTenantType, ListTenantType,
     StartSendingType, SendItemType DEF WorkerNext, WorkerStep

\* The processor, the tenants and the scan keep every variable in its type.
LEMMA OthersType ==
    ASSUME TypeOK, FeedbackNext \/ TenantNext
    PROVE  TypeOK'
<1>1. ASSUME NEW d \in Deliveries, NEW r \in Reasons, SesReports(d, r)
      PROVE  TypeOK'
  BY <1>1 DEF TypeOK, SesReports, tables, rows, locals
<1>2. ASSUME NEW d \in Deliveries, NEW r \in Reasons, ProcessFeedback(d, r)
      PROVE  TypeOK'
  <2>1. ContactOf(d) \in Contacts
    BY DeliveryFacts
  <2>2. ErrorCode(r) \in {"none", "smtp", "ses_bounce", "ses_complaint"}
    BY DEF ErrorCode
  <2>3. feedback' \subseteq Deliveries \X Reasons
    BY <1>2 DEF TypeOK, ProcessFeedback
  <2>4. CASE UNCHANGED <<status, lastError, suppressions>>
    BY <1>2, <2>3, <2>4 DEF TypeOK, ProcessFeedback, locals
  <2>5. CASE /\ status' = [status EXCEPT ![d] = "failed"]
             /\ lastError' = [lastError EXCEPT ![d] = ErrorCode(r)]
             /\ suppressions' = suppressions \cup {<<ContactOf(d), r>>}
    <3>1. /\ status' \in [Deliveries -> {"none", "pending", "failed", "sent"}]
          /\ lastError' \in [Deliveries ->
                                {"none", "smtp", "ses_bounce", "ses_complaint"}]
          /\ suppressions' \subseteq Contacts \X Reasons
      BY <2>1, <2>2, <2>5 DEF TypeOK
    <3>2. QED
      BY <1>2, <2>3, <3>1 DEF TypeOK, ProcessFeedback, locals
  <2>6. QED
    BY <1>2, <2>4, <2>5 DEF ProcessFeedback
<1>3. ASSUME NEW n \in Notifications,
             CreateNotification(n) \/ DeleteNotification(n)
      PROVE  TypeOK'
  BY <1>3 DEF TypeOK, CreateNotification, DeleteNotification, Withdraw,
              rows, locals, outside
<1>4. ASSUME NEW c \in Contacts, NEW b \in BOOLEAN, SetContactEnabled(c, b)
      PROVE  TypeOK'
  BY <1>4 DEF TypeOK, SetContactEnabled, rows, locals, outside
<1>5. ASSUME NEW c \in Contacts, NEW r \in Reasons, RemoveSuppression(c, r)
      PROVE  TypeOK'
  BY <1>5 DEF TypeOK, RemoveSuppression, rows, locals, outside
<1>6. QED
  BY <1>1, <1>2, <1>3, <1>4, <1>5 DEF FeedbackNext, TenantNext

LEMMA TypeStep == TypeOK /\ [Next]_vars => TypeOK'
<1> SUFFICES ASSUME TypeOK, [Next]_vars PROVE TypeOK'
  OBVIOUS
<1>1. CASE Next
  BY <1>1, WorkerType, OthersType DEF Next
<1>2. CASE UNCHANGED vars
  BY <1>2 DEF TypeOK, vars, tables, rows, locals, outside
<1>3. QED
  BY <1>1, <1>2

\* Every variable always keeps its type, whatever overlaps, fails or crashes.
THEOREM TypeCorrect == Spec => []TypeOK
<1>1. QED
  BY TypeInit, TypeStep, PTL DEF Spec

-----------------------------------------------------------------------------
(* What a step does to the batches and to the attempt counts               *)

\* A batch grows only in a listing transaction of its own invocation.
LEMMA BatchStep ==
    ASSUME TypeOK, [Next]_vars, NEW w \in Workers
    PROVE  \/ batch'[w] \subseteq batch[w]
           \/ \E t \in Tenants : ListTenant(w, t)
<1>1. CASE UNCHANGED vars
  BY <1>1 DEF vars, locals
<1>2. CASE FeedbackNext \/ TenantNext
  <2>1. UNCHANGED locals
    BY <1>2 DEF FeedbackNext, TenantNext, SesReports, ProcessFeedback,
                CreateNotification, DeleteNotification, SetContactEnabled,
                RemoveSuppression
  <2>2. QED
    BY <2>1 DEF locals
<1>3. CASE WorkerNext
  <2>1. PICK v \in Workers : \/ \E s \in Tenants \cup {"all"} : StartRun(v, s)
                             \/ WorkerStep(v)
                             \/ Interrupted(v)
    BY <1>3 DEF WorkerNext
  <2>2. ASSUME NEW d \in Deliveries, NextItem(v, d)
        PROVE  batch'[w] \subseteq batch[w]
    BY <2>2 DEF TypeOK, NextItem
  <2>3. ASSUME EndRun(v)
        PROVE  batch'[w] \subseteq batch[w]
    BY <2>3 DEF TypeOK, EndRun
  <2>4. ASSUME \/ \E s \in Tenants \cup {"all"} : StartRun(v, s)
               \/ StartListing(v)
               \/ \E t \in Tenants : PrepareTenant(v, t)
               \/ \E d \in Deliveries : SendItem(v, d)
        PROVE  batch'[w] \subseteq batch[w]
    BY <2>4 DEF StartRun, StartListing, PrepareTenant, SendItem
  <2>5. ASSUME StartSending(v)
        PROVE  batch'[w] \subseteq batch[w]
    BY <2>5, FirstRowsSubset DEF TypeOK, StartSending
  <2>6. ASSUME NEW t \in Tenants, ListTenant(v, t), v # w
        PROVE  batch'[w] \subseteq batch[w]
    BY <2>6 DEF TypeOK, ListTenant
  <2>7. QED
    BY <2>1, <2>2, <2>3, <2>4, <2>5, <2>6
       DEF WorkerStep, AbortOnUnsendable, MarkMissesSentRow, MarkSent,
           MarkFailed, FinishRun, Interrupted, Crash, DeleteDuringPreparation
<1>4. QED
  BY <1>1, <1>2, <1>3 DEF Next

\* An attempt is counted only by an invocation that drops the item with it.
LEMMA AttemptStep ==
    ASSUME TypeOK, [Next]_vars, NEW d \in Deliveries
    PROVE  \/ attempts'[d] = attempts[d]
           \/ /\ attempts'[d] = attempts[d] + 1
              /\ \E w \in Workers : /\ d \in batch[w]
                                    /\ batch' = [batch EXCEPT ![w] = @ \ {d}]
<1>1. CASE UNCHANGED vars
  BY <1>1 DEF vars, rows
<1>2. CASE FeedbackNext \/ TenantNext
  BY <1>2 DEF FeedbackNext, TenantNext, SesReports, ProcessFeedback, rows,
              CreateNotification, DeleteNotification, SetContactEnabled,
              RemoveSuppression
<1>3. CASE WorkerNext
  <2>1. PICK w \in Workers : \/ \E s \in Tenants \cup {"all"} : StartRun(w, s)
                             \/ WorkerStep(w)
                             \/ Interrupted(w)
    BY <1>3 DEF WorkerNext
  <2>2. ASSUME NEW e \in Deliveries, MarkSent(w, e) \/ MarkFailed(w, e)
        PROVE  \/ attempts'[d] = attempts[d]
               \/ /\ attempts'[d] = attempts[d] + 1
                  /\ d \in batch[w]
                  /\ batch' = [batch EXCEPT ![w] = @ \ {d}]
    BY <2>2 DEF TypeOK, MarkSent, MarkFailed, Current, NextItem
  <2>3. ASSUME \/ \E s \in Tenants \cup {"all"} : StartRun(w, s)
               \/ StartListing(w) \/ StartSending(w)
               \/ FinishRun(w) \/ Interrupted(w)
               \/ \E t \in Tenants : PrepareTenant(w, t) \/ ListTenant(w, t)
               \/ \E e \in Deliveries : \/ SendItem(w, e)
                                        \/ AbortOnUnsendable(w, e)
                                        \/ MarkMissesSentRow(w, e)
        PROVE  attempts' = attempts
    BY <2>3 DEF StartRun, StartListing, StartSending, FinishRun, Interrupted,
      Crash, DeleteDuringPreparation,
                PrepareTenant, ListTenant, SendItem, AbortOnUnsendable,
                MarkMissesSentRow, rows
  <2>4. QED
    BY <2>1, <2>2, <2>3 DEF WorkerStep
<1>4. QED
  BY <1>1, <1>2, <1>3 DEF Next

-----------------------------------------------------------------------------
(* The attempt bound                                                       *)

\* The invocations that may still count an attempt for d.
Holders(d) == {w \in Workers : d \in batch[w]}

\* An attempt already counted and an invocation still holding the row draw on
\* the same allowance.  AttemptBound alone is not inductive: it does not say
\* that the invocations that listed the row earlier are few.
AttemptInv ==
    \A d \in Deliveries :
        attempts[d] + Cardinality(Holders(d)) < MaxAttempts + Cardinality(Workers)

LEMMA WorkerSets ==
    ASSUME NEW H \in SUBSET Workers
    PROVE  /\ IsFiniteSet(H)
           /\ Cardinality(H) \in Nat
           /\ Cardinality(H) <= Cardinality(Workers)
           /\ Cardinality(Workers) \in Nat
BY DeliveryAssumption, FS_Subset, FS_CardinalityType

LEMMA AttemptInit == Init => AttemptInv
<1> SUFFICES ASSUME Init, NEW d \in Deliveries
             PROVE  attempts[d] + Cardinality(Holders(d))
                        < MaxAttempts + Cardinality(Workers)
  BY DEF AttemptInv
<1>1. Holders(d) = {} /\ attempts[d] = 0
  BY DEF Init, Holders
<1>2. Cardinality(Holders(d)) = 0
  BY <1>1, FS_EmptySet
<1>3. QED
  BY <1>1, <1>2, WorkerSets, DeliveryAssumption

LEMMA AttemptInvStep ==
    TypeOK /\ AttemptInv /\ [Next]_vars => AttemptInv'
<1> SUFFICES ASSUME TypeOK, AttemptInv, [Next]_vars, NEW d \in Deliveries
             PROVE  attempts'[d] + Cardinality(Holders(d)')
                        < MaxAttempts + Cardinality(Workers)
  BY DEF AttemptInv
<1>1. /\ Holders(d) \in SUBSET Workers
      /\ Holders(d)' \in SUBSET Workers
      /\ attempts[d] \in Nat
      /\ MaxAttempts \in Nat
  BY DeliveryAssumption DEF Holders, TypeOK
<1>2. CASE /\ attempts'[d] = attempts[d] + 1
           /\ \E w \in Workers : /\ d \in batch[w]
                                 /\ batch' = [batch EXCEPT ![w] = @ \ {d}]
  <2>1. PICK w \in Workers : /\ d \in batch[w]
                             /\ batch' = [batch EXCEPT ![w] = @ \ {d}]
    BY <1>2
  <2>2. Holders(d)' = Holders(d) \ {w} /\ w \in Holders(d)
    BY <2>1 DEF Holders, TypeOK
  <2>3. Cardinality(Holders(d)') = Cardinality(Holders(d)) - 1
    BY <1>1, <2>2, WorkerSets, FS_RemoveElement
  <2>4. QED
    BY <1>1, <1>2, <2>3, WorkerSets DEF AttemptInv
<1>3. CASE /\ attempts'[d] = attempts[d]
           /\ \E w \in Workers : d \in batch'[w] \ batch[w]
  <2>1. PICK w \in Workers, t \in Tenants :
            d \in batch'[w] \ batch[w] /\ ListTenant(w, t)
    BY <1>3, BatchStep
  <2>2. d \in Listable(t)
    BY <2>1, FirstRowsSubset DEF ListTenant, TypeOK
  <2>3. attempts[d] < MaxAttempts
    BY <2>2 DEF Listable
  <2>4. QED
    BY <1>1, <1>3, <2>3, WorkerSets
<1>4. CASE /\ attempts'[d] = attempts[d]
           /\ \A w \in Workers : d \notin batch'[w] \ batch[w]
  <2>1. Holders(d)' \in SUBSET Holders(d)
    BY <1>4 DEF Holders
  <2>2. Cardinality(Holders(d)') <= Cardinality(Holders(d))
    BY <1>1, <2>1, WorkerSets, FS_Subset
  <2>3. QED
    BY <1>1, <1>4, <2>2, WorkerSets DEF AttemptInv
<1>5. QED
  BY <1>2, <1>3, <1>4, AttemptStep

\* However many invocations overlap and however they crash, a delivery is
\* attempted at most MaxAttempts times and once more for each further
\* invocation.
THEOREM AttemptsBounded == Spec => []AttemptBound
<1>1. TypeOK /\ AttemptInv => AttemptBound
  <2> SUFFICES ASSUME TypeOK, AttemptInv, NEW d \in Deliveries
               PROVE  attempts[d] < MaxAttempts + Cardinality(Workers)
    BY DEF AttemptBound
  <2>1. Holders(d) \in SUBSET Workers /\ attempts[d] \in Nat
    BY DEF Holders, TypeOK
  <2>2. QED
    BY <2>1, WorkerSets, DeliveryAssumption DEF AttemptInv
<1>2. QED
  BY <1>1, AttemptInit, AttemptInvStep, TypeCorrect, PTL DEF Spec

-----------------------------------------------------------------------------
(* What an invocation may act on                                           *)

\* An invocation holds nothing that has been barred since it started, and an
\* idle one holds nothing at all.
BarsInv ==
    \A w \in Workers : /\ batch[w] \cap barred[w] = {}
                       /\ pc[w] = "idle" => batch[w] = {}

LEMMA BarsInit == HInit => BarsInv
BY DEF HInit, Init, BarsInv

\* Nothing that may be listed is barred.
LEMMA ListableNotBarred ==
    ASSUME TypeOK, NEW t
    PROVE  Listable(t) \cap BarredNow = {}
<1> SUFFICES ASSUME NEW d \in Listable(t), Barred(d)
             PROVE  FALSE
  BY DEF BarredNow
<1>1. /\ status[d] \in {"pending", "failed"} /\ attempts[d] < MaxAttempts
      /\ d \in Candidates(t)
  BY DEF Listable
<1>2. Eligible(ContactOf(d)) /\ d \in Deliveries
  BY <1>1 DEF Candidates
<1>3. ~(attempts[d] >= MaxAttempts)
  BY <1>1, <1>2, DeliveryAssumption DEF TypeOK
<1>4. QED
  BY <1>1, <1>2, <1>3 DEF Barred, Eligible

\* An invocation becomes idle only by giving up all it held.
LEMMA IdleStep ==
    ASSUME TypeOK, [Next]_vars, NEW w \in Workers, pc'[w] = "idle"
    PROVE  pc[w] = "idle" \/ batch'[w] = {}
<1>1. CASE UNCHANGED vars
  BY <1>1 DEF vars, locals
<1>2. CASE FeedbackNext \/ TenantNext
  <2>1. UNCHANGED locals
    BY <1>2 DEF FeedbackNext, TenantNext, SesReports, ProcessFeedback,
                CreateNotification, DeleteNotification, SetContactEnabled,
                RemoveSuppression
  <2>2. QED
    BY <2>1 DEF locals
<1>3. CASE WorkerNext
  <2>1. PICK v \in Workers : \/ \E s \in Tenants \cup {"all"} : StartRun(v, s)
                             \/ WorkerStep(v)
                             \/ Interrupted(v)
    BY <1>3 DEF WorkerNext
  <2>2. ASSUME EndRun(v)
        PROVE  pc[w] = "idle" \/ batch'[w] = {}
    BY <2>2 DEF TypeOK, EndRun
  <2>3. ASSUME NEW d \in Deliveries, NextItem(v, d)
        PROVE  pc[w] = "idle"
    BY <2>3 DEF TypeOK, NextItem
  <2>4. ASSUME NEW d \in Deliveries, SendItem(v, d)
        PROVE  pc[w] = "idle"
    BY <2>4 DEF TypeOK, SendItem
  <2>5. ASSUME \/ \E s \in Tenants \cup {"all"} : StartRun(v, s)
               \/ StartListing(v) \/ StartSending(v)
               \/ \E t \in Tenants : PrepareTenant(v, t) \/ ListTenant(v, t)
        PROVE  pc[w] = "idle"
    BY <2>5 DEF TypeOK, StartRun, StartListing, StartSending,
                PrepareTenant, ListTenant
  <2>6. QED
    BY <2>1, <2>2, <2>3, <2>4, <2>5
       DEF WorkerStep, AbortOnUnsendable, MarkMissesSentRow, MarkSent,
           MarkFailed, FinishRun, Interrupted, Crash, DeleteDuringPreparation
<1>4. QED
  BY <1>1, <1>2, <1>3 DEF Next

LEMMA BarsStep ==
    TypeOK /\ BarsInv /\ [HNext]_hvars => BarsInv'
<1> SUFFICES ASSUME TypeOK, BarsInv, [HNext]_hvars, NEW w \in Workers
             PROVE  /\ batch'[w] \cap barred'[w] = {}
                    /\ pc'[w] = "idle" => batch'[w] = {}
  BY DEF BarsInv
<1>1. CASE UNCHANGED hvars
  BY <1>1 DEF BarsInv, hvars, vars, locals
<1>2. CASE HNext
  <2>1. [Next]_vars
    BY <1>2 DEF HNext
  <2>2. /\ pc[w] = "idle" => batch[w] = {}
        /\ batch[w] \cap barred[w] = {}
    BY DEF BarsInv
  <2>3. pc[w] # "idle" => barred'[w] = barred[w] \cap BarredNow'
    BY <1>2 DEF HNext
  <2>4. CASE batch'[w] \subseteq batch[w]
    <3>1. batch'[w] \cap barred'[w] = {}
      BY <2>2, <2>3, <2>4
    <3>2. pc'[w] = "idle" => batch'[w] = {}
      BY <2>1, <2>2, <2>4, IdleStep
    <3>3. QED
      BY <3>1, <3>2
  <2>5. ASSUME NEW t \in Tenants, ListTenant(w, t)
        PROVE  /\ batch'[w] \cap barred'[w] = {}
               /\ pc'[w] = "idle" => batch'[w] = {}
    <3>1. /\ batch'[w] = batch[w] \cup FirstRows(Listable(t), BatchSize)
          /\ pc[w] = "list" /\ pc'[w] = "list"
      BY <2>5 DEF ListTenant, TypeOK
    <3>2. BarredNow' = BarredNow
      BY <2>5 DEF ListTenant, tables, rows, BarredNow, Barred
    <3>3. FirstRows(Listable(t), BatchSize) \cap BarredNow = {}
      BY ListableNotBarred, FirstRowsSubset
    <3>4. QED
      BY <2>2, <2>3, <3>1, <3>2, <3>3
  <2>6. QED
    BY <2>1, <2>4, <2>5, BatchStep
<1>3. QED
  BY <1>1, <1>2

\* The history variable adds nothing to the behaviour of the tables.
LEMMA HistoryImplies ==
    /\ HInit => Init
    /\ [HNext]_hvars => [Next]_vars
BY DEF HInit, HNext, hvars

\* No invocation mails what was barred all the time since it started: the
\* contact disabled or suppressed, the row sent, or its attempts used up.
THEOREM NoMailBarredThroughout == HSpec => BarsHonoured
<1>1. BarsInv => \A w \in Workers, d \in Deliveries :
          Current(w, d) => d \notin barred[w]
  BY DEF BarsInv, Current
<1>2. HSpec => [](TypeOK /\ BarsInv)
  BY TypeInit, TypeStep, BarsInit, BarsStep, HistoryImplies, PTL DEF HSpec
<1>3. TypeOK /\ BarsInv /\ [HNext]_hvars =>
          [\A w \in Workers, d \in Deliveries :
              /\ pc[w] = "send" /\ Current(w, d)
              /\ pc'[w] \in {"mark_sent", "mark_failed"}
              => d \notin barred[w]]_hvars
  BY <1>1
<1>4. QED
  BY <1>2, <1>3, PTL DEF HSpec, BarsHonoured

-----------------------------------------------------------------------------
(* What a row marked 'sent' stands for                                     *)

\* The rows of notification_email_deliveries.
Rows == {d \in Deliveries : status[d] # "none"}

\* The order of the rows is strict, and what is listed, mailed or reported
\* on is a row.
RowInv ==
    /\ \A d \in Rows : rank[d] <= Cardinality(Rows)
    /\ \A d, e \in Rows : rank[d] = rank[e] => d = e
    /\ \A w \in Workers : batch[w] \subseteq Rows
    /\ \A d \in Deliveries : accepted[d] > 0 => d \in Rows
    /\ \A d \in Deliveries, r \in Reasons :
          <<d, r>> \in feedback => accepted[d] > 0

\* An invocation about to mark its item sent has seen SES accept it.
MarkInv ==
    \A w \in Workers, d \in Deliveries :
        pc[w] = "mark_sent" /\ Current(w, d) => accepted[d] > 0

LEMMA RowsFinite ==
    ASSUME NEW S \in SUBSET Deliveries
    PROVE  IsFiniteSet(S) /\ Cardinality(S) \in Nat
BY DeliveryFacts, FS_Subset, FS_CardinalityType

LEMMA SentInit == Init => RowInv /\ MarkInv /\ SentMeansAccepted
BY DEF Init, Rows, RowInv, MarkInv, SentMeansAccepted

\* Preparation appends its rows behind the rows there are.
LEMMA PrepareRows ==
    ASSUME TypeOK, RowInv, NEW w \in Workers, NEW t \in Tenants,
           PrepareTenant(w, t)
    PROVE  /\ Rows \subseteq Rows'
           /\ \A d \in Rows : rank'[d] = rank[d]
           /\ RowInv'
<1> DEFINE new == {d \in Candidates(t) : status[d] = "none"}
           n   == Cardinality(Rows)
<1>1. /\ new \in SUBSET Deliveries /\ Rows \in SUBSET Deliveries
      /\ Rows \cap new = {}
  BY SelectionFacts DEF Rows
<1>2. n \in Nat /\ Cardinality(new) \in Nat
  BY <1>1, RowsFinite
<1>3. PICK place \in [new -> (n + 1)..(n + Cardinality(new))] :
          /\ \A d, e \in new : place[d] = place[e] => d = e
          /\ rank' = [d \in Deliveries |-> IF d \in new THEN place[d] ELSE rank[d]]
  BY DEF PrepareTenant, Rows
<1>4. Rows' = Rows \cup new
  BY <1>1 DEF PrepareTenant, Rows
<1>5. Cardinality(Rows') = n + Cardinality(new)
  <2>1. Cardinality(Rows \cup new)
            = Cardinality(Rows) + Cardinality(new) - Cardinality(Rows \cap new)
    BY <1>1, RowsFinite, FS_Union
  <2>2. Cardinality(Rows \cap new) = 0
    BY <1>1, FS_EmptySet
  <2>3. QED
    BY <1>2, <1>4, <2>1, <2>2
<1>6. \A d \in Rows : rank[d] \in Nat /\ rank[d] <= n
  BY <1>1 DEF RowInv, TypeOK
<1> HIDE DEF new, n
<1>7. /\ \A d \in Rows : rank'[d] = rank[d]
      /\ \A d \in new : /\ rank'[d] = place[d]
                        /\ place[d] \in Nat
                        /\ n < place[d]
                        /\ place[d] <= n + Cardinality(new)
  <2>1. \A d \in new : place[d] \in (n + 1)..(n + Cardinality(new))
    BY <1>3
  <2>2. QED
    BY <1>1, <1>2, <1>3, <2>1
<1>8. \A d \in Rows' : rank'[d] <= Cardinality(Rows')
  BY <1>2, <1>4, <1>5, <1>6, <1>7
<1>9. ASSUME NEW d \in Rows', NEW e \in Rows', rank'[d] = rank'[e]
      PROVE  d = e
  <2>1. CASE d \in Rows /\ e \in Rows
    BY <1>7, <1>9, <2>1 DEF RowInv
  <2>2. CASE d \in new /\ e \in new
    BY <1>3, <1>7, <1>9, <2>2
  <2>3. CASE d \in Rows /\ e \in new
    BY <1>2, <1>6, <1>7, <1>9, <2>3
  <2>4. CASE d \in new /\ e \in Rows
    BY <1>2, <1>6, <1>7, <1>9, <2>4
  <2>5. QED
    BY <1>4, <2>1, <2>2, <2>3, <2>4
<1>10. UNCHANGED <<batch, accepted, feedback>>
  BY DEF PrepareTenant, outside
<1>11. QED
  BY <1>4, <1>7, <1>8, <1>9, <1>10 DEF RowInv

\* The steps of an invocation that leave the delivery rows alone.
LEMMA QuietSteps ==
    ASSUME NEW w \in Workers,
           \/ \E s \in Tenants \cup {"all"} : StartRun(w, s)
           \/ StartListing(w) \/ StartSending(w) \/ FinishRun(w) \/ Interrupted(w)
           \/ \E t \in Tenants : ListTenant(w, t)
           \/ \E d \in Deliveries : \/ SendItem(w, d)
                                    \/ AbortOnUnsendable(w, d)
                                    \/ MarkMissesSentRow(w, d)
    PROVE  UNCHANGED rows
BY DEF StartRun, StartListing, StartSending, FinishRun, Interrupted, Crash,
  DeleteDuringPreparation, ListTenant,
       SendItem, AbortOnUnsendable, MarkMissesSentRow

\* Only a preparation adds rows; nothing removes one or moves it.
LEMMA OtherRows ==
    ASSUME TypeOK, RowInv, [Next]_vars,
           ~ \E w \in Workers, t \in Tenants : PrepareTenant(w, t)
    PROVE  Rows' = Rows /\ rank' = rank
<1>1. CASE UNCHANGED vars
  BY <1>1 DEF vars, rows, Rows
<1>2. CASE TenantNext
  BY <1>2 DEF TenantNext, CreateNotification, DeleteNotification,
    SetContactEnabled,
              RemoveSuppression, rows, Rows
<1>3. ASSUME NEW d \in Deliveries, NEW r \in Reasons, SesReports(d, r)
      PROVE  Rows' = Rows /\ rank' = rank
  BY <1>3 DEF SesReports, rows, Rows
<1>4. ASSUME NEW d \in Deliveries, NEW r \in Reasons, ProcessFeedback(d, r)
      PROVE  Rows' = Rows /\ rank' = rank
  <2>1. d \in Rows /\ rank' = rank
    BY <1>4 DEF ProcessFeedback, RowInv
  <2>2. status' = status \/ status' = [status EXCEPT ![d] = "failed"]
    BY <1>4 DEF ProcessFeedback
  <2>3. QED
    BY <2>1, <2>2 DEF Rows, TypeOK
<1>5. ASSUME NEW w \in Workers, NEW d \in Deliveries,
             MarkSent(w, d) \/ MarkFailed(w, d)
      PROVE  Rows' = Rows /\ rank' = rank
  <2>1. d \in Rows /\ rank' = rank
    BY <1>5 DEF MarkSent, MarkFailed, Current, RowInv
  <2>2. \/ status' = [status EXCEPT ![d] = "sent"]
        \/ status' = [status EXCEPT ![d] = "failed"]
    BY <1>5 DEF MarkSent, MarkFailed
  <2>3. QED
    BY <2>1, <2>2 DEF Rows, TypeOK
<1>6. ASSUME UNCHANGED rows
      PROVE  Rows' = Rows /\ rank' = rank
  BY <1>6 DEF rows, Rows
<1>7. QED
  BY <1>1, <1>2, <1>3, <1>4, <1>5, <1>6, QuietSteps
     DEF Next, WorkerNext, WorkerStep, FeedbackNext

\* SES accepts a mail only in an SMTP conversation about that delivery.
LEMMA AcceptedStep ==
    ASSUME TypeOK, [Next]_vars, NEW d \in Deliveries
    PROVE  \/ accepted'[d] = accepted[d]
           \/ /\ accepted'[d] = accepted[d] + 1
              /\ \E w \in Workers : SendItem(w, d)
<1>1. CASE UNCHANGED vars
  BY <1>1 DEF vars, outside
<1>2. CASE FeedbackNext \/ TenantNext
  BY <1>2 DEF FeedbackNext, TenantNext, SesReports, ProcessFeedback, outside,
              CreateNotification, DeleteNotification, SetContactEnabled,
              RemoveSuppression
<1>3. ASSUME NEW w \in Workers, NEW e \in Deliveries, SendItem(w, e)
      PROVE  \/ accepted'[d] = accepted[d]
             \/ accepted'[d] = accepted[d] + 1 /\ e = d
  <2>1. PICK delivered \in BOOLEAN :
            accepted' = [accepted EXCEPT ![e] = IF delivered THEN @ + 1 ELSE @]
    BY <1>3 DEF SendItem
  <2>2. QED
    BY <2>1 DEF TypeOK
<1>4. ASSUME NEW w \in Workers,
             \/ \E s \in Tenants \cup {"all"} : StartRun(w, s)
             \/ StartListing(w) \/ StartSending(w) \/ FinishRun(w) \/ Interrupted(w)
             \/ \E t \in Tenants : PrepareTenant(w, t) \/ ListTenant(w, t)
             \/ \E e \in Deliveries : \/ AbortOnUnsendable(w, e)
                                      \/ MarkMissesSentRow(w, e)
                                      \/ MarkSent(w, e)
                                      \/ MarkFailed(w, e)
      PROVE  accepted' = accepted
  BY <1>4 DEF StartRun, StartListing, StartSending, FinishRun, Interrupted,
    Crash, DeleteDuringPreparation,
              PrepareTenant, ListTenant, AbortOnUnsendable,
              MarkMissesSentRow, MarkSent, MarkFailed, outside
<1>5. QED
  BY <1>1, <1>2, <1>3, <1>4 DEF Next, WorkerNext, WorkerStep

\* An event is published only for a mail SES accepted.
LEMMA FeedbackStep ==
    ASSUME [Next]_vars, NEW d \in Deliveries, NEW r \in Reasons,
           <<d, r>> \in feedback'
    PROVE  <<d, r>> \in feedback \/ accepted[d] > 0
<1>1. CASE UNCHANGED vars
  BY <1>1 DEF vars, outside
<1>2. CASE TenantNext
  BY <1>2 DEF TenantNext, outside,
              CreateNotification, DeleteNotification, SetContactEnabled,
              RemoveSuppression
<1>3. CASE FeedbackNext
  BY <1>3 DEF FeedbackNext, SesReports, ProcessFeedback
<1>4. ASSUME NEW w \in Workers,
             \/ \E s \in Tenants \cup {"all"} : StartRun(w, s)
             \/ StartListing(w) \/ StartSending(w) \/ FinishRun(w) \/ Interrupted(w)
             \/ \E t \in Tenants : PrepareTenant(w, t) \/ ListTenant(w, t)
             \/ \E e \in Deliveries : \/ SendItem(w, e)
                                      \/ AbortOnUnsendable(w, e)
                                      \/ MarkMissesSentRow(w, e)
                                      \/ MarkSent(w, e)
                                      \/ MarkFailed(w, e)
      PROVE  feedback' = feedback
  BY <1>4 DEF StartRun, StartListing, StartSending, FinishRun, Interrupted,
    Crash, DeleteDuringPreparation,
              PrepareTenant, ListTenant, SendItem, AbortOnUnsendable,
              MarkMissesSentRow, MarkSent, MarkFailed, outside
<1>5. QED
  BY <1>1, <1>2, <1>3, <1>4 DEF Next, WorkerNext, WorkerStep

LEMMA RowInvStep == TypeOK /\ RowInv /\ [Next]_vars => RowInv'
<1> SUFFICES ASSUME TypeOK, RowInv, [Next]_vars PROVE RowInv'
  OBVIOUS
<1>1. CASE \E w \in Workers, t \in Tenants : PrepareTenant(w, t)
  BY <1>1, PrepareRows
<1>2. CASE ~ \E w \in Workers, t \in Tenants : PrepareTenant(w, t)
  <2>1. Rows' = Rows /\ rank' = rank
    BY <1>2, OtherRows
  <2>2. ASSUME NEW w \in Workers
        PROVE  batch'[w] \subseteq Rows
    <3>1. \A t : Listable(t) \subseteq Rows
      BY SelectionFacts DEF Listable, Rows
    <3>2. ASSUME NEW t \in Tenants, ListTenant(w, t)
          PROVE  batch'[w] = batch[w] \cup FirstRows(Listable(t), BatchSize)
      BY <3>2 DEF ListTenant, TypeOK
    <3>3. QED
      BY <3>1, <3>2, BatchStep, FirstRowsSubset DEF RowInv
  <2>3. ASSUME NEW d \in Deliveries, accepted'[d] > 0
        PROVE  d \in Rows
    <3>1. ASSUME NEW w \in Workers, SendItem(w, d)
          PROVE  d \in Rows
      BY <3>1 DEF SendItem, Current, RowInv
    <3>2. QED
      BY <2>3, <3>1, AcceptedStep DEF RowInv
  <2>4. ASSUME NEW d \in Deliveries, NEW r \in Reasons, <<d, r>> \in feedback'
        PROVE  accepted'[d] > 0
    <3>1. accepted[d] > 0
      BY <2>4, FeedbackStep DEF RowInv
    <3>2. accepted[d] \in Nat
      BY DEF TypeOK
    <3>3. QED
      BY <3>1, <3>2, AcceptedStep
  <2>5. \A d \in Rows' : rank'[d] <= Cardinality(Rows')
    <3>1. Cardinality(Rows') = Cardinality(Rows)
      BY <2>1
    <3>2. QED
      BY <2>1, <3>1 DEF RowInv
  <2>6. /\ \A d, e \in Rows' : rank'[d] = rank'[e] => d = e
        /\ \A w \in Workers : batch'[w] \subseteq Rows'
        /\ \A d \in Deliveries : accepted'[d] > 0 => d \in Rows'
    BY <2>1, <2>2, <2>3 DEF RowInv
  <2>7. QED
    BY <2>4, <2>5, <2>6 DEF RowInv
<1>3. QED
  BY <1>1, <1>2

\* An invocation comes to mark an item sent by way of its SMTP conversation.
LEMMA MarkStep ==
    ASSUME TypeOK, [Next]_vars, NEW w \in Workers, pc'[w] = "mark_sent"
    PROVE  \/ pc[w] = "mark_sent" /\ batch'[w] = batch[w]
           \/ \E d \in Deliveries : SendItem(w, d)
<1>1. CASE UNCHANGED vars
  BY <1>1 DEF vars, locals
<1>2. CASE FeedbackNext \/ TenantNext
  <2>1. UNCHANGED locals
    BY <1>2 DEF FeedbackNext, TenantNext, SesReports, ProcessFeedback,
                CreateNotification, DeleteNotification, SetContactEnabled,
                RemoveSuppression
  <2>2. QED
    BY <2>1 DEF locals
<1>3. CASE WorkerNext
  <2>1. PICK v \in Workers : \/ \E s \in Tenants \cup {"all"} : StartRun(v, s)
                             \/ WorkerStep(v)
                             \/ Interrupted(v)
    BY <1>3 DEF WorkerNext
  <2>2. ASSUME EndRun(v) \/ \E d \in Deliveries : NextItem(v, d)
        PROVE  pc[w] = "mark_sent" /\ batch'[w] = batch[w]
    BY <2>2 DEF TypeOK, EndRun, NextItem
  <2>3. ASSUME NEW d \in Deliveries, SendItem(v, d), v # w
        PROVE  pc[w] = "mark_sent" /\ batch'[w] = batch[w]
    BY <2>3 DEF TypeOK, SendItem
  <2>4. ASSUME \/ \E s \in Tenants \cup {"all"} : StartRun(v, s)
               \/ StartListing(v) \/ StartSending(v)
        PROVE  pc[w] = "mark_sent" /\ batch'[w] = batch[w]
    BY <2>4 DEF TypeOK, StartRun, StartListing, StartSending
  <2>5. ASSUME NEW t \in Tenants, PrepareTenant(v, t) \/ ListTenant(v, t)
        PROVE  pc[w] = "mark_sent" /\ batch'[w] = batch[w]
    BY <2>5 DEF TypeOK, PrepareTenant, ListTenant
  <2>6. QED
    BY <2>1, <2>2, <2>3, <2>4, <2>5
       DEF WorkerStep, AbortOnUnsendable, MarkMissesSentRow, MarkSent,
           MarkFailed, FinishRun, Interrupted, Crash, DeleteDuringPreparation
<1>4. QED
  BY <1>1, <1>2, <1>3 DEF Next

LEMMA MarkInvStep ==
    TypeOK /\ RowInv /\ MarkInv /\ [Next]_vars => MarkInv'
<1> SUFFICES ASSUME TypeOK, RowInv, MarkInv, [Next]_vars,
                    NEW w \in Workers, NEW d \in Deliveries,
                    pc'[w] = "mark_sent", Current(w, d)'
             PROVE  accepted'[d] > 0
  BY DEF MarkInv
<1>1. /\ accepted[d] \in Nat
      /\ accepted'[d] = accepted[d] \/ accepted'[d] = accepted[d] + 1
  BY AcceptedStep DEF TypeOK
<1>2. CASE pc[w] = "mark_sent" /\ batch'[w] = batch[w]
  <2>1. \A e \in batch[w] : rank'[e] = rank[e]
    <3>1. batch[w] \subseteq Rows
      BY DEF RowInv
    <3>2. \A e \in Rows : rank'[e] = rank[e]
      BY PrepareRows, OtherRows
    <3>3. QED
      BY <3>1, <3>2
  <2>2. Current(w, d)
    BY <1>2, <2>1 DEF Current
  <2>3. accepted[d] > 0
    BY <1>2, <2>2 DEF MarkInv
  <2>4. QED
    BY <1>1, <2>3
<1>3. ASSUME NEW e \in Deliveries, SendItem(w, e)
      PROVE  accepted'[d] > 0
  <2>1. UNCHANGED <<batch, rank>> /\ Current(w, e)
    BY <1>3 DEF SendItem, rows
  <2>2. Current(w, d)
    BY <2>1 DEF Current
  <2>3. /\ d \in Rows /\ e \in Rows
        /\ rank[d] \in Nat /\ rank[e] \in Nat
        /\ rank[d] <= rank[e] /\ rank[e] <= rank[d]
    BY <2>1, <2>2 DEF Current, RowInv, TypeOK
  <2>4. d = e
    BY <2>3 DEF RowInv
  <2>5. PICK delivered \in BOOLEAN, ok \in BOOLEAN :
            /\ ok => delivered
            /\ accepted' = [accepted EXCEPT ![e] = IF delivered THEN @ + 1 ELSE @]
            /\ pc' = [pc EXCEPT ![w] = IF ok THEN "mark_sent" ELSE "mark_failed"]
    BY <1>3 DEF SendItem
  <2>6. delivered
    BY <2>5 DEF TypeOK
  <2>7. accepted'[d] = accepted[d] + 1
    BY <2>4, <2>5, <2>6 DEF TypeOK
  <2>8. QED
    BY <1>1, <2>7
<1>4. QED
  BY <1>2, <1>3, MarkStep

\* A row becomes 'sent', and gets its sent_at, only in MarkSent.
LEMMA SentStep ==
    ASSUME TypeOK, [Next]_vars, NEW d \in Deliveries
    PROVE  \/ /\ sentAt'[d] = sentAt[d]
              /\ status'[d] = "sent" => status[d] = "sent"
           \/ /\ sentAt'[d]
              /\ \E w \in Workers : MarkSent(w, d)
<1>1. CASE UNCHANGED vars
  BY <1>1 DEF vars, rows
<1>2. CASE TenantNext
  BY <1>2 DEF TenantNext, CreateNotification, DeleteNotification,
    SetContactEnabled,
              RemoveSuppression, rows
<1>3. ASSUME NEW e \in Deliveries, NEW r \in Reasons,
             SesReports(e, r) \/ ProcessFeedback(e, r)
      PROVE  /\ sentAt'[d] = sentAt[d]
             /\ status'[d] = "sent" => status[d] = "sent"
  BY <1>3 DEF SesReports, ProcessFeedback, rows, TypeOK
<1>4. ASSUME NEW w \in Workers, NEW e \in Deliveries, MarkSent(w, e)
      PROVE  \/ /\ sentAt'[d] = sentAt[d]
                /\ status'[d] = "sent" => status[d] = "sent"
             \/ sentAt'[d] /\ e = d
  BY <1>4 DEF MarkSent, TypeOK
<1>5. ASSUME NEW w \in Workers, NEW e \in Deliveries, MarkFailed(w, e)
      PROVE  /\ sentAt'[d] = sentAt[d]
             /\ status'[d] = "sent" => status[d] = "sent"
  BY <1>5 DEF MarkFailed, TypeOK
<1>6. ASSUME NEW w \in Workers, NEW t \in Tenants, PrepareTenant(w, t)
      PROVE  /\ sentAt'[d] = sentAt[d]
             /\ status'[d] = "sent" => status[d] = "sent"
  BY <1>6 DEF PrepareTenant
<1>7. ASSUME UNCHANGED rows
      PROVE  /\ sentAt'[d] = sentAt[d]
             /\ status'[d] = "sent" => status[d] = "sent"
  BY <1>7 DEF rows
<1>8. QED
  BY <1>1, <1>2, <1>3, <1>4, <1>5, <1>6, <1>7, QuietSteps
     DEF Next, WorkerNext, WorkerStep, FeedbackNext

LEMMA SentInvStep ==
    TypeOK /\ MarkInv /\ SentMeansAccepted /\ [Next]_vars => SentMeansAccepted'
<1> SUFFICES ASSUME TypeOK, MarkInv, SentMeansAccepted, [Next]_vars,
                    NEW d \in Deliveries, status'[d] = "sent" \/ sentAt'[d]
             PROVE  sentAt'[d] /\ accepted'[d] > 0
  BY DEF SentMeansAccepted
<1>1. /\ accepted[d] \in Nat
      /\ accepted'[d] = accepted[d] \/ accepted'[d] = accepted[d] + 1
  BY AcceptedStep DEF TypeOK
<1>2. ASSUME NEW w \in Workers, MarkSent(w, d)
      PROVE  accepted[d] > 0
  BY <1>2 DEF MarkSent, MarkInv
<1>3. sentAt'[d] /\ accepted[d] > 0
  BY <1>2, SentStep DEF SentMeansAccepted
<1>4. QED
  BY <1>1, <1>3

\* A row that is or ever was 'sent' stands for a mail SES accepted, whatever
\* overlaps, crashes, or is reported late.
THEOREM SentIsAccepted == Spec => []SentMeansAccepted
<1>1. Spec => [](TypeOK /\ RowInv /\ MarkInv /\ SentMeansAccepted)
  BY TypeInit, TypeStep, SentInit, RowInvStep, MarkInvStep, SentInvStep,
     PTL DEF Spec
<1>2. QED
  BY <1>1, PTL

-----------------------------------------------------------------------------
(* The item an invocation is at                                            *)

\* What the theorems above say, taken together.
DeliveryInv == TypeOK /\ RowInv /\ MarkInv /\ AttemptInv

\* An invocation has one item it is at.
LEMMA OneCurrent ==
    ASSUME DeliveryInv, NEW w \in Workers, NEW d, NEW e,
           Current(w, d), Current(w, e)
    PROVE  d = e
<1>1. d \in Rows /\ e \in Rows /\ rank[d] <= rank[e] /\ rank[e] <= rank[d]
  BY DEF Current, DeliveryInv, RowInv
<1>2. rank[d] \in Nat /\ rank[e] \in Nat
  BY <1>1 DEF Rows, DeliveryInv, TypeOK
<1>3. QED
  BY <1>1, <1>2 DEF DeliveryInv, RowInv

\* Where an invocation is in its batch does not depend on the rows others add.
LEMMA CurrentStep ==
    ASSUME DeliveryInv, [Next]_vars, NEW w \in Workers, batch'[w] = batch[w],
           NEW d
    PROVE  Current(w, d)' <=> Current(w, d)
<1>1. batch[w] \subseteq Rows
  BY DEF DeliveryInv, RowInv
<1>2. \A e \in Rows : rank'[e] = rank[e]
  BY PrepareRows, OtherRows DEF DeliveryInv
<1>3. QED
  BY <1>1, <1>2 DEF Current

LEMMA DeliveryInvariant == Spec => []DeliveryInv
<1>1. Init => DeliveryInv
  BY TypeInit, SentInit, AttemptInit DEF DeliveryInv
<1>2. DeliveryInv /\ [Next]_vars => DeliveryInv'
  BY TypeStep, RowInvStep, MarkInvStep, AttemptInvStep DEF DeliveryInv
<1>3. QED
  BY <1>1, <1>2, PTL DEF Spec

-----------------------------------------------------------------------------
(* Rows that are opened again                                              *)

\* Of the steps that change the row of a delivery that is sent, only the
\* feedback processor's takes that back, and it bars the contact in the same
\* transaction.
THEOREM ReopenedIsBarred == Spec => ReopenedOnlyBarred
<1>1. ASSUME TypeOK, [Next]_vars, NEW d \in Deliveries,
             status[d] = "sent", status'[d] # "sent"
      PROVE  ~Eligible(ContactOf(d))'
  <2>1. CASE UNCHANGED vars
    BY <1>1, <2>1 DEF vars, rows
  <2>2. CASE TenantNext
    BY <1>1, <2>2 DEF TenantNext, CreateNotification, DeleteNotification,
                      SetContactEnabled, RemoveSuppression, rows
  <2>3. ASSUME NEW e \in Deliveries, NEW r \in Reasons,
               SesReports(e, r) \/ ProcessFeedback(e, r)
        PROVE  ~Eligible(ContactOf(d))'
    <3>1. e = d /\ suppressions' = suppressions \cup {<<ContactOf(e), r>>}
      BY <1>1, <2>3 DEF SesReports, ProcessFeedback, rows, TypeOK
    <3>2. QED
      BY <3>1 DEF Eligible
  <2>4. ASSUME NEW w \in Workers, NEW e \in Deliveries,
               MarkSent(w, e) \/ MarkFailed(w, e)
        PROVE  FALSE
    BY <1>1, <2>4 DEF MarkSent, MarkFailed, TypeOK
  <2>5. ASSUME NEW w \in Workers, NEW t \in Tenants, PrepareTenant(w, t)
        PROVE  FALSE
    BY <1>1, <2>5 DEF PrepareTenant
  <2>6. ASSUME UNCHANGED rows
        PROVE  FALSE
    BY <1>1, <2>6 DEF rows
  <2>7. QED
    BY <1>1, <2>1, <2>2, <2>3, <2>4, <2>5, <2>6, QuietSteps
       DEF Next, WorkerNext, WorkerStep, FeedbackNext
<1>2. TypeOK /\ [Next]_vars =>
        [\A d \in Deliveries : status[d] = "sent" /\ status'[d] # "sent"
            => ~Eligible(ContactOf(d))']_vars
  BY <1>1
<1>3. QED
  BY <1>2, TypeCorrect, PTL DEF Spec, ReopenedOnlyBarred

-----------------------------------------------------------------------------
(* Invocations that do not overlap                                         *)

NoOverlap == \A v, w \in Workers : v = w

\* What an invocation that is alone holds is as it has read it: nobody else
\* marks a row sent or counts an attempt.  It has counted the item at which it
\* has failed, if that was the last attempt; and it starts with empty hands.
Alone(w) ==
    /\ \A d \in batch[w] : status[d] # "sent" /\ seen[w][d] = attempts[d]
    /\ pc[w] \in {"idle", "prepare"} => batch[w] = {}
    /\ pc[w] \in {"idle", "prepare", "list"} => exhausted[w] = {}
    /\ pc[w] = "mark_failed" =>
          \A d \in Deliveries :
              Current(w, d) /\ LastAttempt(seen[w][d]) => d \in exhausted[w]

AloneInv == \A w \in Workers : Alone(w)

LEMMA AloneInit == Init => AloneInv
BY DEF Init, AloneInv, Alone

LEMMA AloneEnds ==
    ASSUME TypeOK, NEW w \in Workers, EndRun(w)
    PROVE  Alone(w)'
BY DEF EndRun, Alone, TypeOK

\* The item that is dealt with leaves the batch, and the others are not touched.
LEMMA AloneMarks ==
    ASSUME TypeOK, NEW w \in Workers, Alone(w), NEW d \in Deliveries,
           MarkSent(w, d) \/ MarkFailed(w, d)
    PROVE  Alone(w)'
<1>1. /\ pc[w] \in {"mark_sent", "mark_failed"}
      /\ pc'[w] = "send" /\ batch'[w] = batch[w] \ {d}
      /\ \A e \in batch'[w] : seen'[w][e] = seen[w][e]
  BY DEF MarkSent, MarkFailed, NextItem, TypeOK
<1>2. \A e \in Deliveries : e # d => /\ status'[e] = status[e]
                                     /\ attempts'[e] = attempts[e]
  BY DEF MarkSent, MarkFailed, TypeOK
<1>3. batch[w] \subseteq Deliveries
  BY DEF TypeOK
<1>4. QED
  BY <1>1, <1>2, <1>3 DEF Alone

LEMMA AloneStep == NoOverlap /\ DeliveryInv /\ AloneInv /\ [Next]_vars => AloneInv'
<1> SUFFICES ASSUME NoOverlap, DeliveryInv, AloneInv, [Next]_vars,
                    NEW w \in Workers
             PROVE  Alone(w)'
  BY DEF AloneInv
<1>1. TypeOK /\ Alone(w) /\ batch[w] \in SUBSET Deliveries
  BY DEF DeliveryInv, AloneInv, TypeOK
<1>2. ASSUME UNCHANGED <<attempts, locals>>,
             \A d \in batch[w] : status'[d] # "sent"
      PROVE  Alone(w)'
  <2>1. UNCHANGED <<batch, seen, pc, exhausted>>
    BY <1>2 DEF locals
  <2>2. \A d : Current(w, d)' <=> Current(w, d)
    BY <2>1, CurrentStep
  <2>3. QED
    BY <1>1, <1>2, <2>1, <2>2 DEF Alone
<1>3. CASE UNCHANGED vars
  BY <1>1, <1>2, <1>3 DEF vars, rows, Alone
<1>4. CASE FeedbackNext \/ TenantNext
  <2>1. UNCHANGED <<attempts, locals>>
    BY <1>4 DEF FeedbackNext, TenantNext, SesReports, ProcessFeedback, rows,
                CreateNotification, DeleteNotification, SetContactEnabled,
                RemoveSuppression
  <2>2. \A d \in Deliveries : status'[d] = "sent" => status[d] = "sent"
    <3>1. ASSUME NEW d \in Deliveries, NEW v \in Workers
          PROVE  ~MarkSent(v, d)
      BY <2>1 DEF MarkSent, NextItem, locals, TypeOK, DeliveryInv
    <3>2. QED
      BY <1>1, <3>1, SentStep
  <2>3. QED
    BY <1>1, <1>2, <2>1, <2>2 DEF Alone
<1>5. CASE WorkerNext
  <2>1. \/ \E s \in Tenants \cup {"all"} : StartRun(w, s)
        \/ WorkerStep(w)
        \/ Interrupted(w)
    BY <1>5 DEF WorkerNext, NoOverlap
  <2>2. ASSUME EndRun(w)
        PROVE  Alone(w)'
    BY <1>1, <2>2, AloneEnds
  <2>3. ASSUME \/ \E s \in Tenants \cup {"all"} : StartRun(w, s)
               \/ StartListing(w)
        PROVE  Alone(w)'
    BY <1>1, <2>3 DEF StartRun, StartListing, rows, TypeOK, Alone
  <2>4. ASSUME NEW t \in Tenants, PrepareTenant(w, t)
        PROVE  Alone(w)'
    BY <1>1, <2>4 DEF PrepareTenant, Alone
  <2>5. ASSUME NEW t \in Tenants, ListTenant(w, t)
        PROVE  Alone(w)'
    <3> DEFINE found == FirstRows(Listable(t), BatchSize)
    <3>1. found \subseteq Listable(t) /\ Listable(t) \subseteq Deliveries
      BY FirstRowsSubset, SelectionFacts
    <3>2. /\ batch'[w] = batch[w] \cup found
          /\ \A d \in Deliveries : seen'[w][d] = IF d \in found THEN attempts[d]
                                                                ELSE seen[w][d]
          /\ pc[w] = "list"
          /\ UNCHANGED <<pc, exhausted, status, attempts>>
      BY <1>1, <2>5 DEF ListTenant, TypeOK, rows
    <3>3. \A d \in found : status[d] # "sent"
      BY <3>1 DEF Listable
    <3>4. QED
      BY <1>1, <3>1, <3>2, <3>3 DEF Alone
  <2>6. ASSUME StartSending(w)
        PROVE  Alone(w)'
    <3>1. /\ batch'[w] \subseteq batch[w]
          /\ \A d \in batch'[w] : seen'[w][d] = seen[w][d]
          /\ pc'[w] = "send"
          /\ UNCHANGED <<status, attempts>>
      BY <1>1, <2>6, FirstRowsSubset DEF StartSending, TypeOK, rows
    <3>2. QED
      BY <1>1, <3>1 DEF Alone
  <2>7. ASSUME NEW d \in Deliveries, SendItem(w, d)
        PROVE  Alone(w)'
    <3>1. /\ Current(w, d) /\ pc[w] = "send"
          /\ pc'[w] = "mark_failed" /\ LastAttempt(seen[w][d]) => d \in exhausted'[w]
          /\ pc'[w] \in {"mark_sent", "mark_failed"}
          /\ UNCHANGED <<batch, seen, status, attempts>>
      BY <1>1, <2>7 DEF SendItem, TypeOK, rows
    <3>2. \A e : Current(w, e)' => e = d
      BY <3>1, CurrentStep, OneCurrent
    <3>3. QED
      BY <1>1, <3>1, <3>2 DEF Alone, LastAttempt
  <2>8. QED
    BY <1>1, <2>1, <2>2, <2>3, <2>4, <2>5, <2>6, <2>7, AloneMarks
       DEF WorkerStep, AbortOnUnsendable, MarkMissesSentRow, FinishRun,
           Interrupted, Crash, DeleteDuringPreparation
<1>6. QED
  BY <1>3, <1>4, <1>5 DEF Next

LEMMA AloneInvariant == ASSUME NoOverlap PROVE Spec => [](DeliveryInv /\ AloneInv)
BY AloneInit, AloneStep, DeliveryInvariant, PTL DEF Spec

\* The invocation whose attempt for d is not recorded yet, if there is one.
Recording(d) ==
    {w \in Workers : pc[w] \in {"mark_sent", "mark_failed"} /\ Current(w, d)}

LEMMA RecordingFacts ==
    ASSUME NoOverlap, NEW d
    PROVE  /\ \A w \in Workers : w \in Recording(d) => Recording(d) = {w}
           /\ \/ Recording(d) = {} /\ Cardinality(Recording(d)) = 0
              \/ Recording(d) # {} /\ Cardinality(Recording(d)) = 1
<1>1. \A w \in Workers : w \in Recording(d) => Recording(d) = {w}
  BY DEF NoOverlap, Recording
<1>2. QED
  BY <1>1, FS_EmptySet, FS_Singleton DEF Recording

\* What a step does to the copies, the attempts and the crashes: a copy is in
\* the end an attempt, or a crash.
LEMMA CopiesStep ==
    ASSUME NoOverlap, DeliveryInv, AloneInv, [Next]_vars, CopiesAccounted
    PROVE  CopiesAccounted'
<1> SUFFICES ASSUME NEW d \in Deliveries
             PROVE  accepted'[d] <= attempts'[d] + crashes'
                                        + Cardinality(Recording(d)')
  BY DEF CopiesAccounted, Recording
<1>1. accepted[d] <= attempts[d] + crashes + Cardinality(Recording(d))
  BY DEF CopiesAccounted, Recording
<1>2. /\ accepted[d] \in Nat /\ attempts[d] \in Nat /\ crashes \in Nat
      /\ attempts'[d] \in Nat /\ crashes' \in Nat
  BY TypeStep DEF DeliveryInv, TypeOK
<1>3. /\ Cardinality(Recording(d)) = IF Recording(d) = {} THEN 0 ELSE 1
      /\ Cardinality(Recording(d)') = IF Recording(d)' = {} THEN 0 ELSE 1
  <2>1. \A w \in Workers : w \in Recording(d)' => Recording(d)' = {w}
    BY DEF NoOverlap, Recording
  <2>2. \/ Recording(d)' = {} /\ Cardinality(Recording(d)') = 0
        \/ Recording(d)' # {} /\ Cardinality(Recording(d)') = 1
    BY <2>1, FS_EmptySet, FS_Singleton DEF Recording
  <2>3. QED
    BY <2>2, RecordingFacts
<1>4. ASSUME accepted'[d] = accepted[d], attempts'[d] = attempts[d],
             crashes' = crashes, Recording(d) # {} => Recording(d)' # {}
      PROVE  accepted'[d] <= attempts'[d] + crashes' + Cardinality(Recording(d)')
  BY <1>1, <1>2, <1>3, <1>4
<1>5. ASSUME UNCHANGED <<batch, pc, accepted, attempts, crashes>>
      PROVE  accepted'[d] <= attempts'[d] + crashes' + Cardinality(Recording(d)')
  <2>1. Recording(d)' = Recording(d)
    BY <1>5, CurrentStep DEF Recording
  <2>2. QED
    BY <1>4, <1>5, <2>1
<1>6. CASE UNCHANGED vars
  BY <1>5, <1>6 DEF vars, rows, locals, outside
<1>7. CASE FeedbackNext \/ TenantNext
  <2>1. UNCHANGED <<batch, pc, accepted, attempts, crashes>>
    BY <1>7 DEF FeedbackNext, TenantNext, SesReports, ProcessFeedback, rows,
                locals, outside, CreateNotification, DeleteNotification,
                SetContactEnabled, RemoveSuppression
  <2>2. QED
    BY <1>5, <2>1
<1>8. CASE WorkerNext
  <2>1. PICK w \in Workers : \/ \E s \in Tenants \cup {"all"} : StartRun(w, s)
                             \/ WorkerStep(w)
                             \/ Interrupted(w)
    BY <1>8 DEF WorkerNext
  <2>2. ASSUME pc[w] \notin {"mark_sent", "mark_failed"},
               UNCHANGED <<accepted, attempts, crashes>>
        PROVE  accepted'[d] <= attempts'[d] + crashes' + Cardinality(Recording(d)')
    <3>1. Recording(d) = {}
      BY <2>2 DEF NoOverlap, Recording
    <3>2. QED
      BY <1>4, <2>2, <3>1
  <2>3. ASSUME \/ \E s \in Tenants \cup {"all"} : StartRun(w, s)
               \/ StartListing(w) \/ StartSending(w) \/ FinishRun(w)
               \/ \E t \in Tenants : PrepareTenant(w, t) \/ ListTenant(w, t)
               \/ \E e \in Deliveries : AbortOnUnsendable(w, e)
               \/ \E t \in Tenants, n \in Notifications :
                     DeleteDuringPreparation(w, t, n)
        PROVE  /\ pc[w] \notin {"mark_sent", "mark_failed"}
               /\ UNCHANGED <<accepted, attempts, crashes>>
    BY <2>3 DEF StartRun, StartListing, StartSending, FinishRun, PrepareTenant,
                ListTenant, AbortOnUnsendable, DeleteDuringPreparation, rows,
                outside
  <2>4. ASSUME NEW e \in Deliveries, SendItem(w, e)
        PROVE  accepted'[d] <= attempts'[d] + crashes' + Cardinality(Recording(d)')
    <3>1. /\ Current(w, e) /\ pc[w] = "send"
          /\ pc'[w] \in {"mark_sent", "mark_failed"}
          /\ UNCHANGED <<batch, attempts, crashes>>
          /\ \/ accepted'[d] = accepted[d]
             \/ d = e /\ accepted'[d] = accepted[d] + 1
      <4>1. PICK delivered \in BOOLEAN, ok \in BOOLEAN :
                /\ accepted' = [accepted EXCEPT ![e] = IF delivered THEN @ + 1
                                                                    ELSE @]
                /\ pc' = [pc EXCEPT ![w] = IF ok THEN "mark_sent"
                                                 ELSE "mark_failed"]
        BY <2>4 DEF SendItem
      <4>2. QED
        BY <2>4, <4>1 DEF SendItem, DeliveryInv, TypeOK, rows
    <3>2. Recording(d) = {}
      BY <3>1 DEF NoOverlap, Recording
    <3>3. d = e => w \in Recording(d)'
      BY <3>1, CurrentStep DEF Recording
    <3>4. QED
      BY <1>1, <1>2, <1>3, <3>1, <3>2, <3>3
  <2>5. ASSUME NEW e \in Deliveries, MarkSent(w, e) \/ MarkFailed(w, e)
        PROVE  accepted'[d] <= attempts'[d] + crashes' + Cardinality(Recording(d)')
    <3>1. /\ Current(w, e) /\ pc[w] \in {"mark_sent", "mark_failed"}
          /\ accepted' = accepted /\ crashes' = crashes
          /\ attempts'[d] = IF d = e THEN attempts[d] + 1 ELSE attempts[d]
      BY <2>5 DEF MarkSent, MarkFailed, outside, DeliveryInv, TypeOK
    <3>2. d # e => Recording(d) = {}
      BY <3>1, OneCurrent DEF NoOverlap, Recording
    <3>3. QED
      BY <1>1, <1>2, <1>3, <3>1, <3>2
  <2>6. ASSUME NEW e \in Deliveries, MarkMissesSentRow(w, e)
        PROVE  FALSE
    BY <2>6 DEF MarkMissesSentRow, Current, AloneInv, Alone
  <2>7. ASSUME Crash(w)
        PROVE  accepted'[d] <= attempts'[d] + crashes' + Cardinality(Recording(d)')
    <3>1. accepted' = accepted /\ attempts' = attempts /\ crashes' = crashes + 1
      BY <2>7 DEF Crash, rows
    <3>2. QED
      BY <1>1, <1>2, <1>3, <3>1
  <2>8. QED
    BY <2>1, <2>2, <2>3, <2>4, <2>5, <2>6, <2>7 DEF WorkerStep, Interrupted
<1>9. QED
  BY <1>6, <1>7, <1>8 DEF Next

\* While invocations do not overlap, a copy SES has taken beyond the attempts
\* that are recorded is explained by a crash, or is being recorded.
THEOREM CopiesExplained == ASSUME NoOverlap PROVE Spec => []CopiesAccounted
<1>1. Init => CopiesAccounted
  <2> SUFFICES ASSUME Init, NEW d \in Deliveries
               PROVE  accepted[d] <= attempts[d] + crashes
                                         + Cardinality(Recording(d))
    BY DEF CopiesAccounted, Recording
  <2>1. accepted[d] = 0 /\ attempts[d] = 0 /\ crashes = 0 /\ Recording(d) = {}
    BY DEF Init, Recording
  <2>2. QED
    BY <2>1, FS_EmptySet
<1>2. DeliveryInv /\ AloneInv /\ [Next]_vars /\ CopiesAccounted => CopiesAccounted'
  BY CopiesStep
<1>3. QED
  BY <1>1, <1>2, AloneInvariant, PTL DEF Spec

\* While invocations do not overlap, one stops working on an item only by
\* recording an outcome for it, unless it crashes or comes to an item that no
\* message can be built for.
THEOREM EveryItemRecorded == ASSUME NoOverlap PROVE Spec => OutcomeRecorded
<1>1. ASSUME DeliveryInv, AloneInv, Next, NEW w \in Workers,
             NEW d \in batch[w] \ batch'[w], pc[w] # "list", crashes' = crashes
      PROVE  \/ attempts'[d] > attempts[d]
             \/ \E e \in Deliveries : Current(w, e) /\ ContactOf(e) \in Unsendable
  <2>1. /\ batch[w] \in SUBSET Deliveries /\ d \in Deliveries
        /\ crashes \in Nat /\ attempts[d] \in Nat
    BY <1>1 DEF DeliveryInv, TypeOK
  <2>2. WorkerNext
    <3>1. FeedbackNext \/ TenantNext => UNCHANGED locals
      BY DEF FeedbackNext, TenantNext, SesReports, ProcessFeedback,
             CreateNotification, DeleteNotification, SetContactEnabled,
             RemoveSuppression
    <3>2. QED
      BY <1>1, <3>1 DEF Next, locals
  <2>3. \/ \E s \in Tenants \cup {"all"} : StartRun(w, s)
        \/ WorkerStep(w)
        \/ Interrupted(w)
    BY <2>2 DEF WorkerNext, NoOverlap
  <2>4. ASSUME NEW e \in Deliveries, MarkSent(w, e) \/ MarkFailed(w, e)
        PROVE  attempts'[d] > attempts[d]
    <3>1. /\ batch' = [batch EXCEPT ![w] = @ \ {e}]
          /\ attempts' = [attempts EXCEPT ![e] = @ + 1]
      BY <2>4 DEF MarkSent, MarkFailed, NextItem
    <3>2. d = e
      BY <1>1, <3>1 DEF DeliveryInv, TypeOK
    <3>3. QED
      BY <1>1, <2>1, <3>1, <3>2 DEF DeliveryInv, TypeOK
  <2>5. ASSUME \/ \E s \in Tenants \cup {"all"} : StartRun(w, s)
               \/ StartListing(w) \/ StartSending(w) \/ FinishRun(w)
               \/ \E t \in Tenants : PrepareTenant(w, t) \/ ListTenant(w, t)
               \/ \E e \in Deliveries : SendItem(w, e)
        PROVE  FALSE
    BY <1>1, <2>5 DEF StartRun, StartListing, StartSending, FinishRun,
                      PrepareTenant, ListTenant, SendItem, DeliveryInv, TypeOK
  <2>6. ASSUME Interrupted(w)
        PROVE  FALSE
    BY <1>1, <2>1, <2>6 DEF Interrupted, Crash, DeleteDuringPreparation,
                            AloneInv, Alone
  <2>7. ASSUME NEW e \in Deliveries, MarkMissesSentRow(w, e)
        PROVE  FALSE
    BY <1>1, <2>7 DEF MarkMissesSentRow, Current, AloneInv, Alone
  <2>8. QED
    BY <2>3, <2>4, <2>5, <2>6, <2>7 DEF WorkerStep, AbortOnUnsendable
<1>2. DeliveryInv /\ AloneInv /\ [Next]_vars =>
        [\A w \in Workers : \A d \in batch[w] \ batch'[w] :
            pc[w] # "list" /\ crashes' = crashes
                => \/ attempts'[d] > attempts[d]
                   \/ \E e \in Deliveries :
                         Current(w, e) /\ ContactOf(e) \in Unsendable]_vars
  BY <1>1
<1>3. QED
  BY <1>2, AloneInvariant, PTL DEF Spec, OutcomeRecorded

\* Crashes are counted, and nothing takes that back.
LEMMA CrashesStep ==
    ASSUME [Next]_vars
    PROVE  crashes' = crashes \/ crashes' = crashes + 1
<1>1. CASE FeedbackNext \/ TenantNext \/ UNCHANGED vars
  BY <1>1 DEF FeedbackNext, TenantNext, SesReports, ProcessFeedback, vars,
              outside, CreateNotification, DeleteNotification,
              SetContactEnabled, RemoveSuppression
<1>2. ASSUME NEW w \in Workers,
             \/ \E s \in Tenants \cup {"all"} : StartRun(w, s)
             \/ StartListing(w) \/ StartSending(w) \/ FinishRun(w)
             \/ \E t \in Tenants : PrepareTenant(w, t) \/ ListTenant(w, t)
      PROVE  crashes' = crashes
  BY <1>2 DEF StartRun, StartListing, StartSending, FinishRun, PrepareTenant,
              ListTenant, outside
<1>3. ASSUME NEW w \in Workers, NEW d \in Deliveries,
             \/ SendItem(w, d) \/ AbortOnUnsendable(w, d)
             \/ MarkMissesSentRow(w, d) \/ MarkSent(w, d) \/ MarkFailed(w, d)
      PROVE  crashes' = crashes
  BY <1>3 DEF SendItem, AbortOnUnsendable, MarkMissesSentRow, MarkSent,
              MarkFailed, outside
<1>4. ASSUME NEW w \in Workers, Interrupted(w)
      PROVE  crashes' = crashes \/ crashes' = crashes + 1
  BY <1>4 DEF Interrupted, Crash, DeleteDuringPreparation, outside
<1>5. QED
  BY <1>1, <1>2, <1>3, <1>4 DEF Next, WorkerNext, WorkerStep

\* While invocations do not overlap and are not cut short, the alarm sees every
\* delivery whose last attempt has failed.
THEOREM AlarmSeesAll == ASSUME NoOverlap PROVE Spec => []ExhaustionReported
<1> DEFINE Covered(d) == \/ d \in reported \cup UNION {exhausted[w] : w \in Workers}
                         \/ CutShort
<1>1. Init => ExhaustionReported
  BY DEF Init, ExhaustionReported
<1>2. ASSUME DeliveryInv, AloneInv, ExhaustionReported, [Next]_vars
      PROVE  ExhaustionReported'
  <2> SUFFICES ASSUME NEW d \in Deliveries,
                      lastError'[d] = "smtp", attempts'[d] >= MaxAttempts
               PROVE  Covered(d)'
    BY DEF ExhaustionReported
  <2>0. /\ crashes \in Nat /\ attempts[d] \in Nat /\ MaxAttempts \in Nat
        /\ batch \in [Workers -> SUBSET Deliveries]
    BY <1>2, DeliveryAssumption DEF DeliveryInv, TypeOK
  <2>1. CutShort => CutShort'
    <3>1. crashes > 0 => crashes' > 0
      BY <1>2, <2>0, CrashesStep
    <3>2. Rows \subseteq Rows'
      BY <1>2, PrepareRows, OtherRows DEF DeliveryInv
    <3>3. QED
      BY <3>1, <3>2 DEF CutShort, Rows
  <2>2. ASSUME NEW w \in Workers, NEW e \in Deliveries, MarkFailed(w, e), e = d
        PROVE  Covered(d)'
    <3>1. /\ pc[w] = "mark_failed" /\ Current(w, d) /\ exhausted' = exhausted
          /\ attempts'[d] = attempts[d] + 1
      BY <1>2, <2>2 DEF MarkFailed, NextItem, DeliveryInv, TypeOK
    <3>2. seen[w][d] = attempts[d]
      BY <1>2, <3>1 DEF AloneInv, Alone, Current
    <3>3. LastAttempt(seen[w][d])
      BY <2>0, <3>1, <3>2 DEF LastAttempt
    <3>4. d \in exhausted'[w]
      BY <1>2, <3>1, <3>3 DEF AloneInv, Alone
    <3>5. QED
      BY <3>4
  <2>3. ASSUME lastError[d] = "smtp", attempts[d] >= MaxAttempts,
               \A w \in Workers : d \in exhausted[w] => d \in exhausted'[w],
               reported \subseteq reported'
        PROVE  Covered(d)'
    BY <1>2, <2>1, <2>3 DEF ExhaustionReported
  <2>4. CASE UNCHANGED vars
    BY <2>3, <2>4 DEF vars, rows, locals, outside
  <2>5. CASE FeedbackNext \/ TenantNext
    <3>1. UNCHANGED <<exhausted, reported, attempts>>
      BY <2>5 DEF FeedbackNext, TenantNext, SesReports, ProcessFeedback, rows,
                  locals, outside, CreateNotification, DeleteNotification,
                  SetContactEnabled, RemoveSuppression
    <3>2. lastError[d] = "smtp"
      <4>1. ASSUME NEW e \in Deliveries, NEW r \in Reasons, ProcessFeedback(e, r)
            PROVE  lastError'[d] \in {lastError[d], ErrorCode(r)}
        <5>1. \/ lastError' = lastError
              \/ lastError' = [lastError EXCEPT ![e] = ErrorCode(r)]
          BY <4>1 DEF ProcessFeedback
        <5>2. QED
          BY <1>2, <5>1 DEF DeliveryInv, TypeOK
      <4>2. \A r : ErrorCode(r) # "smtp"
        BY DEF ErrorCode
      <4>3. ASSUME ~ \E e \in Deliveries, r \in Reasons : ProcessFeedback(e, r)
            PROVE  lastError' = lastError
        BY <2>5, <4>3 DEF FeedbackNext, TenantNext, SesReports, rows,
              CreateNotification, DeleteNotification, SetContactEnabled,
              RemoveSuppression
      <4>4. QED
        BY <4>1, <4>2, <4>3
    <3>3. QED
      BY <2>3, <3>1, <3>2
  <2>6. CASE WorkerNext
    <3>1. PICK w \in Workers : \/ \E s \in Tenants \cup {"all"} : StartRun(w, s)
                               \/ WorkerStep(w)
                               \/ Interrupted(w)
      BY <2>6 DEF WorkerNext
    <3>2. ASSUME NEW e \in Deliveries, MarkSent(w, e) \/ MarkFailed(w, e), e # d
          PROVE  Covered(d)'
      BY <1>2, <2>3, <3>2 DEF MarkSent, MarkFailed, NextItem, outside,
                              DeliveryInv, TypeOK
    <3>3. ASSUME MarkSent(w, d)
          PROVE  FALSE
      BY <1>2, <3>3 DEF MarkSent, DeliveryInv, TypeOK
    <3>4. ASSUME \/ \E s \in Tenants \cup {"all"} : StartRun(w, s)
                 \/ StartListing(w) \/ StartSending(w)
                 \/ \E t \in Tenants : PrepareTenant(w, t) \/ ListTenant(w, t)
          PROVE  Covered(d)'
      BY <2>3, <3>4 DEF StartRun, StartListing, StartSending, PrepareTenant,
                        ListTenant, rows, outside
    <3>5. ASSUME NEW e \in Deliveries, SendItem(w, e)
          PROVE  Covered(d)'
      <4>1. \A v \in Workers : exhausted[v] \subseteq exhausted'[v]
        BY <1>2, <3>5 DEF SendItem, DeliveryInv, TypeOK
      <4>2. QED
        BY <2>3, <3>5, <4>1 DEF SendItem, rows
    <3>6. ASSUME FinishRun(w)
          PROVE  Covered(d)'
      <4>1. /\ reported' = reported \cup exhausted[w]
            /\ UNCHANGED <<lastError, attempts>>
        BY <3>6 DEF FinishRun, rows
      <4>2. UNION {exhausted[v] : v \in Workers} = exhausted[w]
        BY DEF NoOverlap
      <4>3. QED
        BY <1>2, <2>1, <4>1, <4>2 DEF ExhaustionReported
    <3>7. ASSUME NEW e \in Deliveries, AbortOnUnsendable(w, e)
          PROVE  CutShort'
      BY <1>2, <2>1, <3>7 DEF AbortOnUnsendable, Current, DeliveryInv, RowInv,
                              Rows, CutShort
    <3>8. ASSUME NEW e \in Deliveries, MarkMissesSentRow(w, e)
          PROVE  FALSE
      BY <1>2, <3>8 DEF MarkMissesSentRow, Current, AloneInv, Alone
    <3>9. ASSUME Crash(w)
          PROVE  CutShort'
      BY <2>0, <3>9 DEF Crash, CutShort
    <3>10. ASSUME NEW t \in Tenants, NEW n \in Notifications,
                  DeleteDuringPreparation(w, t, n)
           PROVE  Covered(d)'
      <4>1. exhausted[w] = {} /\ UNCHANGED <<lastError, attempts, reported>>
        BY <1>2, <3>10 DEF DeleteDuringPreparation, AloneInv, Alone, rows, outside
      <4>2. \A v \in Workers : exhausted[v] = {}
        BY <4>1 DEF NoOverlap
      <4>3. QED
        BY <2>3, <4>1, <4>2
    <3>11. QED
      BY <2>2, <3>1, <3>2, <3>3, <3>4, <3>5, <3>6, <3>7, <3>8, <3>9, <3>10
         DEF WorkerStep, Interrupted
  <2>7. QED
    BY <1>2, <2>4, <2>5, <2>6 DEF Next
<1>3. DeliveryInv /\ AloneInv /\ ExhaustionReported /\ [Next]_vars
          => ExhaustionReported'
  BY <1>2
<1>4. QED
  BY <1>1, <1>3, AloneInvariant, PTL DEF Spec

-----------------------------------------------------------------------------
(* What a role that bypasses row-level security would change               *)

\* The processor loses the events it cannot audit, and no others: with a role
\* that bypasses row-level security an event leaves the queue only when it has
\* left its mark.
THEOREM FeedbackActs == ASSUME BypassRLS PROVE Spec => FeedbackSuppresses
<1>1. ASSUME [Next]_vars, NEW e \in feedback \ feedback'
      PROVE  <<ContactOf(e[1]), e[2]>> \in suppressions'
  <2>1. ASSUME NEW d \in Deliveries, NEW r \in Reasons, ProcessFeedback(d, r)
        PROVE  <<ContactOf(e[1]), e[2]>> \in suppressions'
    <3>1. e = <<d, r>>
      BY <1>1, <2>1 DEF ProcessFeedback
    <3>2. <<ContactOf(d), r>> \in suppressions'
      BY <2>1 DEF ProcessFeedback
    <3>3. QED
      BY <3>1, <3>2
  <2>2. ASSUME NEW w \in Workers,
               \/ \E s \in Tenants \cup {"all"} : StartRun(w, s)
               \/ WorkerStep(w)
               \/ Interrupted(w)
        PROVE  feedback' = feedback
    BY <2>2 DEF WorkerStep, Interrupted, outside, StartRun, StartListing,
       StartSending, PrepareTenant, ListTenant, SendItem, AbortOnUnsendable,
       MarkMissesSentRow, MarkSent, MarkFailed, FinishRun, Crash,
       DeleteDuringPreparation
  <2>3. CASE TenantNext \/ UNCHANGED vars
    BY <1>1, <2>3 DEF TenantNext, vars, outside, CreateNotification,
                      DeleteNotification, SetContactEnabled, RemoveSuppression
  <2>4. ASSUME NEW d \in Deliveries, NEW r \in Reasons, SesReports(d, r)
        PROVE  FALSE
    BY <1>1, <2>4 DEF SesReports
  <2>5. QED
    BY <1>1, <2>1, <2>2, <2>3, <2>4 DEF Next, WorkerNext, FeedbackNext
<1>2. [Next]_vars =>
        [\A e \in feedback \ feedback' :
            <<ContactOf(e[1]), e[2]>> \in suppressions']_vars
  BY <1>1
<1>3. QED
  BY <1>2, PTL DEF Spec, FeedbackSuppresses

=============================================================================
