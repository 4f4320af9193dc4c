-------------------- MODULE EmailDeliveryRefinementProofs --------------------
(***************************************************************************)
(* What EmailDelivery shows from outside: it implements DeliveryContract,  *)
(* for every set of tenants, notifications, contacts and workers.          *)
(***************************************************************************)
EXTENDS EmailDeliveryRefinement, EmailDeliveryProofs

-----------------------------------------------------------------------------
(* The attempts under way                                                  *)

Marking(w) == pc[w] \in {"mark_sent", "mark_failed"}

\* The attempts of those whose place and batch do not change stay open.
LEMMA OpenStep ==
    ASSUME DeliveryInv, [Next]_vars, NEW w \in Workers,
           \A v \in Workers \ {w} : pc'[v] = pc[v] /\ batch'[v] = batch[v]
    PROVE  \A v \in Workers \ {w}, d \in Deliveries :
              <<v, d>> \in OpenAttempts' <=> <<v, d>> \in OpenAttempts
BY CurrentStep DEF OpenAttempts

LEMMA OpenSame ==
    ASSUME DeliveryInv, [Next]_vars,
           \A v \in Workers :
              \/ pc'[v] = pc[v] /\ batch'[v] = batch[v]
              \/ ~Marking(v) /\ ~Marking(v)'
    PROVE  OpenAttempts' = OpenAttempts
<1>1. \A v \in Workers, d \in Deliveries :
          <<v, d>> \in OpenAttempts' <=> <<v, d>> \in OpenAttempts
  BY CurrentStep DEF OpenAttempts, Marking
<1>2. QED
  BY <1>1 DEF OpenAttempts

\* An invocation that goes on from an item, or ends, has closed its attempt.
LEMMA OpenClosed ==
    ASSUME DeliveryInv, [Next]_vars, NEW w \in Workers, NEW d \in Deliveries,
           \A v \in Workers \ {w} : pc'[v] = pc[v] /\ batch'[v] = batch[v],
           Marking(w), ~Marking(w)', Current(w, d)
    PROVE  /\ <<w, d>> \in OpenAttempts
           /\ OpenAttempts' = OpenAttempts \ {<<w, d>>}
<1>1. \A e \in Deliveries : <<w, e>> \in OpenAttempts <=> e = d
  BY OneCurrent DEF OpenAttempts, Marking
<1>2. \A e \in Deliveries : <<w, e>> \notin OpenAttempts'
  BY DEF OpenAttempts, Marking
<1>3. \A v \in Workers, e \in Deliveries :
          <<v, e>> \in OpenAttempts' <=> <<v, e>> \in OpenAttempts /\ <<v, e>> # <<w, d>>
  BY <1>1, <1>2, OpenStep
<1>4. QED
  BY <1>1, <1>3 DEF OpenAttempts

-----------------------------------------------------------------------------
(* The steps of the contract                                               *)

\* A run that ends gives up the attempt it has open, if it has one.
LEMMA EndForgets ==
    ASSUME DeliveryInv, [Next]_vars, NEW w \in Workers, EndRun(w),
           UNCHANGED <<rows, accepted>>
    PROVE  [Contract!CNext]_(Contract!cvars)
<1>1. /\ \A v \in Workers \ {w} : pc'[v] = pc[v] /\ batch'[v] = batch[v]
      /\ pc'[w] = "idle"
  BY DEF EndRun, DeliveryInv, TypeOK
<1>2. UNCHANGED <<status, attempts, accepted>>
  BY DEF rows
<1>3. CASE Marking(w) /\ \E d \in Deliveries : Current(w, d)
  <2>1. PICK d \in Deliveries : Current(w, d)
    BY <1>3
  <2>2. Contract!Forget(w, d)
    BY <1>1, <1>2, <1>3, <2>1, OpenClosed DEF Contract!Forget, Marking
  <2>3. QED
    BY <2>2 DEF Contract!CNext
<1>4. CASE ~(Marking(w) /\ \E d \in Deliveries : Current(w, d))
  <2>1. \A e \in Deliveries : /\ <<w, e>> \notin OpenAttempts
                              /\ <<w, e>> \notin OpenAttempts'
    BY <1>1, <1>4 DEF OpenAttempts, Marking
  <2>2. OpenAttempts' = OpenAttempts
    BY <1>1, <2>1, OpenStep DEF OpenAttempts
  <2>3. QED
    BY <1>2, <2>2 DEF Contract!cvars
<1>5. QED
  BY <1>3, <1>4

\* The contract counts as FiniteSets does.
LEMMA ContractCardinality ==
    ASSUME NEW S
    PROVE  Contract!Cardinality(S) = Cardinality(S)
BY DEF Cardinality, Contract!Cardinality

\* An SMTP conversation is an attempt the contract still allows.
LEMMA SendAttempts ==
    ASSUME DeliveryInv, [Next]_vars, NEW w \in Workers, NEW d \in Deliveries,
           SendItem(w, d)
    PROVE  Contract!Attempt(w, d)
<1>1. /\ pc[w] = "send" /\ Current(w, d) /\ d \in batch[w]
      /\ UNCHANGED <<batch, status, attempts, rank>>
      /\ \A v \in Workers \ {w} : pc'[v] = pc[v]
      /\ Marking(w)'
  BY DEF SendItem, Current, rows, Marking, DeliveryInv, TypeOK
<1>2. \A e \in Deliveries : <<w, e>> \notin OpenAttempts
  BY <1>1 DEF OpenAttempts
<1>3. \A e \in Deliveries : <<w, e>> \in OpenAttempts' <=> e = d
  BY <1>1, OneCurrent, CurrentStep DEF OpenAttempts, Marking
<1>4. OpenAttempts' = OpenAttempts \cup {<<w, d>>}
  BY <1>1, <1>2, <1>3, OpenStep DEF OpenAttempts
<1>5. status[d] # "none"
  BY <1>1 DEF DeliveryInv, RowInv, Rows
<1>6. accepted' \in {accepted, [accepted EXCEPT ![d] = @ + 1]}
  <2>1. PICK delivered \in BOOLEAN :
            accepted' = [accepted EXCEPT ![d] = IF delivered THEN @ + 1 ELSE @]
    BY DEF SendItem
  <2>2. accepted = [accepted EXCEPT ![d] = accepted[d]]
    BY DEF DeliveryInv, TypeOK
  <2>3. CASE delivered
    BY <2>1, <2>3
  <2>4. CASE ~delivered
    BY <2>1, <2>2, <2>4
  <2>5. QED
    BY <2>3, <2>4
<1>7. attempts[d] + Cardinality(Contract!Attempting(d))
          < MaxAttempts + Cardinality(Workers) - 1
  <2>1. Contract!Attempting(d) \in SUBSET (Holders(d) \ {w})
    BY <1>2 DEF Contract!Attempting, OpenAttempts, Holders, Current
  <2>2. Holders(d) \in SUBSET Workers /\ w \in Holders(d)
    BY <1>1 DEF Holders
  <2>3. Cardinality(Holders(d) \ {w}) = Cardinality(Holders(d)) - 1
    BY <2>2, WorkerSets, FS_RemoveElement
  <2>4. Cardinality(Contract!Attempting(d)) <= Cardinality(Holders(d) \ {w})
    BY <2>1, <2>2, WorkerSets, FS_Subset
  <2>5. attempts[d] + Cardinality(Holders(d)) < MaxAttempts + Cardinality(Workers)
    BY DEF DeliveryInv, AttemptInv
  <2>6. /\ attempts[d] \in Nat /\ MaxAttempts \in Nat
        /\ Cardinality(Workers) \in Nat /\ Cardinality(Holders(d)) \in Nat
        /\ Cardinality(Contract!Attempting(d)) \in Nat
    BY <2>1, <2>2, WorkerSets, DeliveryAssumption DEF DeliveryInv, TypeOK
  <2>7. QED
    BY <2>3, <2>4, <2>5, <2>6
<1>8. QED
  BY <1>1, <1>2, <1>4, <1>5, <1>6, <1>7, ContractCardinality
     DEF Contract!Attempt

\* Marking an item records the outcome of the attempt that is open for it.
LEMMA MarkRecords ==
    ASSUME DeliveryInv, [Next]_vars, NEW w \in Workers, NEW d \in Deliveries,
           MarkSent(w, d) \/ MarkFailed(w, d)
    PROVE  \/ Contract!Record(w, d, "sent")
           \/ Contract!Record(w, d, "failed")
<1>1. /\ Marking(w) /\ Current(w, d) /\ NextItem(w, d) /\ status[d] # "sent"
      /\ attempts' = [attempts EXCEPT ![d] = @ + 1]
      /\ accepted' = accepted
  BY DEF MarkSent, MarkFailed, Marking, outside
<1>2. /\ \A v \in Workers \ {w} : pc'[v] = pc[v] /\ batch'[v] = batch[v]
      /\ ~Marking(w)'
  BY <1>1 DEF NextItem, Marking, DeliveryInv, TypeOK
<1>3. /\ <<w, d>> \in OpenAttempts
      /\ OpenAttempts' = OpenAttempts \ {<<w, d>>}
  BY <1>1, <1>2, OpenClosed
<1>4. ASSUME MarkSent(w, d)
      PROVE  Contract!Record(w, d, "sent")
  <2>1. accepted[d] > 0 /\ status' = [status EXCEPT ![d] = "sent"]
    BY <1>4 DEF MarkSent, DeliveryInv, MarkInv
  <2>2. QED
    BY <1>1, <1>3, <2>1 DEF Contract!Record
<1>5. ASSUME MarkFailed(w, d)
      PROVE  Contract!Record(w, d, "failed")
  BY <1>1, <1>3, <1>5 DEF MarkFailed, Contract!Record
<1>6. QED
  BY <1>4, <1>5

\* The steps of the worker, each as the contract sees it.
LEMMA WorkerRefines ==
    ASSUME DeliveryInv, WorkerNext
    PROVE  [Contract!CNext]_(Contract!cvars)
<1>0. [Next]_vars
  BY DEF Next
<1>1. PICK w \in Workers : \/ \E s \in Tenants \cup {"all"} : StartRun(w, s)
                           \/ WorkerStep(w)
                           \/ Interrupted(w)
  BY DEF WorkerNext
<1>2. ASSUME \/ \E s \in Tenants \cup {"all"} : StartRun(w, s)
             \/ StartListing(w) \/ StartSending(w)
             \/ \E t \in Tenants : ListTenant(w, t)
      PROVE  UNCHANGED Contract!cvars
  <2>1. UNCHANGED <<status, attempts, accepted>>
    BY <1>2 DEF StartRun, StartListing, StartSending, ListTenant, rows, outside
  <2>2. \A v \in Workers : \/ pc'[v] = pc[v] /\ batch'[v] = batch[v]
                           \/ ~Marking(v) /\ ~Marking(v)'
    BY <1>2 DEF StartRun, StartListing, StartSending, ListTenant, Marking,
                DeliveryInv, TypeOK
  <2>3. QED
    BY <1>0, <2>1, <2>2, OpenSame DEF Contract!cvars
<1>3. ASSUME NEW t \in Tenants, PrepareTenant(w, t)
      PROVE  \E D \in SUBSET Deliveries : Contract!Create(D)
  <2> DEFINE new == {d \in Candidates(t) : status[d] = "none"}
  <2>1. new \in SUBSET Deliveries
    BY SelectionFacts
  <2>2. UNCHANGED <<attempts, accepted, pc, batch>>
    BY <1>3 DEF PrepareTenant, outside
  <2>3. status' = [d \in Deliveries |-> IF d \in new THEN "pending" ELSE status[d]]
    BY <1>3 DEF PrepareTenant
  <2>4. OpenAttempts' = OpenAttempts
    BY <1>0, <2>2, OpenSame
  <2>5. Contract!Create(new)
    BY <2>1, <2>2, <2>3, <2>4 DEF Contract!Create
  <2>6. QED
    BY <2>1, <2>5
<1>4. ASSUME NEW d \in Deliveries,
             AbortOnUnsendable(w, d) \/ MarkMissesSentRow(w, d)
      PROVE  [Contract!CNext]_(Contract!cvars)
  BY <1>0, <1>4, EndForgets DEF AbortOnUnsendable, MarkMissesSentRow, outside
<1>5. ASSUME FinishRun(w) \/ Interrupted(w)
      PROVE  [Contract!CNext]_(Contract!cvars)
  <2>1. EndRun(w) /\ UNCHANGED <<rows, accepted>>
    BY <1>5 DEF FinishRun, Interrupted, Crash, DeleteDuringPreparation, outside
  <2>2. QED
    BY <1>0, <2>1, EndForgets
<1>6. ASSUME NEW d \in Deliveries,
             SendItem(w, d) \/ MarkSent(w, d) \/ MarkFailed(w, d)
      PROVE  Contract!CNext
  BY <1>0, <1>6, SendAttempts, MarkRecords DEF Contract!CNext
<1>7. QED
  BY <1>1, <1>2, <1>3, <1>4, <1>5, <1>6 DEF WorkerStep, Contract!CNext

\* The processor takes back a row only for a mail SES accepted.
LEMMA OthersRefine ==
    ASSUME DeliveryInv, FeedbackNext \/ TenantNext
    PROVE  [Contract!CNext]_(Contract!cvars)
<1>1. OpenAttempts' = OpenAttempts /\ UNCHANGED <<attempts, accepted>>
  <2>1. UNCHANGED <<pc, batch, attempts, accepted>>
    BY DEF FeedbackNext, TenantNext, SesReports, ProcessFeedback,
           CreateNotification, DeleteNotification, SetContactEnabled,
           RemoveSuppression, locals, rows, outside
  <2>2. QED
    BY <2>1, OpenSame DEF Next
<1>2. ASSUME NEW d \in Deliveries, NEW r \in Reasons, ProcessFeedback(d, r),
             status' # status
      PROVE  Contract!Reject(d)
  <2>1. accepted[d] > 0
    BY <1>2 DEF ProcessFeedback, DeliveryInv, RowInv
  <2>2. status' = [status EXCEPT ![d] = "failed"]
    BY <1>2 DEF ProcessFeedback
  <2>3. QED
    BY <1>1, <2>1, <2>2 DEF Contract!Reject
<1>3. ASSUME ~ \E d \in Deliveries, r \in Reasons : ProcessFeedback(d, r)
      PROVE  status' = status
  BY <1>3 DEF FeedbackNext, TenantNext, SesReports, CreateNotification,
              DeleteNotification, SetContactEnabled, RemoveSuppression, rows
<1>4. QED
  BY <1>1, <1>2, <1>3 DEF Contract!CNext, Contract!cvars

\* However invocations overlap and die, from outside every delivery is handled
\* as DeliveryContract says.
THEOREM ContractRefined == Spec => RefinesContract
<1>1. Init => Contract!CInit
  BY DEF Init, Contract!CInit, OpenAttempts
<1>2. ASSUME DeliveryInv, [Next]_vars
      PROVE  [Contract!CNext]_(Contract!cvars)
  <2>1. CASE UNCHANGED vars
    <3>1. UNCHANGED <<pc, batch, status, attempts, accepted>>
      BY <2>1 DEF vars, locals, rows, outside
    <3>2. QED
      BY <1>2, <3>1, OpenSame DEF Contract!cvars
  <2>2. QED
    BY <1>2, <2>1, WorkerRefines, OthersRefine DEF Next
<1>3. QED
  BY <1>1, <1>2, DeliveryInvariant, PTL DEF Spec, RefinesContract, Contract!CSpec

=============================================================================
