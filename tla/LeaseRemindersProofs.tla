------------------------ MODULE LeaseRemindersProofs ------------------------
(***************************************************************************)
(* Theorems about LeaseReminders and LeaseRemindersHistory, for every set  *)
(* of tenants, leases, terms and dates and any number of overlapping       *)
(* scans.                                                                  *)
(***************************************************************************)
EXTENDS LeaseRemindersHistory, WellFoundedInduction, TLAPS

-----------------------------------------------------------------------------
(* Due dates                                                               *)

\* Every non-empty set of natural numbers has a least element.
LEMMA LeastElement ==
    ASSUME NEW S \in SUBSET Nat, S # {}
    PROVE  \E y \in S : \A z \in S : y <= z
<1> DEFINE R == {ss \in Nat \X Nat : ss[1] < ss[2]}
<1>1. IsWellFoundedOn(R, Nat)
  BY NatLessThanWellFounded DEF OpToRel
<1> HIDE DEF R
<1>2. \E y \in S : \A z \in S : ~ (<<z, y>> \in R)
  BY <1>1, WFMin
<1>3. \A y, z \in S : ~ (<<z, y>> \in R) => y <= z
  BY DEF R
<1>4. QED
  BY <1>2, <1>3

\* The next due date is a due date and not before the day it is asked for.
LEMMA NextDueFacts ==
    ASSUME NEW x \in (0..LastDay) \cup AsOfDates, NEW k \in DueDays
    PROVE  /\ NextDue(x, k) \in DueDates[k]
           /\ NextDue(x, k) \in Dates
           /\ NextDue(x, k) \in Nat
           /\ NextDue(x, k) >= x
<1> DEFINE S == {y \in DueDates[k] : y >= x}
<1>1. DueDates[k] \in SUBSET Nat /\ x \in Nat
  BY ReminderAssumption
<1>2. S \in SUBSET Nat /\ S # {}
  BY <1>1, ReminderAssumption
<1>3. PICK y \in S : \A z \in S : y <= z
  BY <1>2, LeastElement
<1>4. \E u \in DueDates[k] : /\ u >= x
                             /\ \A z \in DueDates[k] : z >= x => u <= z
  BY <1>3
<1>5. NextDue(x, k) \in DueDates[k] /\ NextDue(x, k) >= x
  BY <1>4 DEF NextDue
<1>6. QED
  BY <1>1, <1>5 DEF Dates

\* What a scan finds is keyed by leases and due dates.
LEMMA CandidatesType ==
    ASSUME TypeOK, NEW t \in Tenants, NEW to \in Nat,
           NEW from \in (0..LastDay) \cup AsOfDates
    PROVE  Candidates(t, from, to) \subseteq Keys
<1> SUFFICES ASSUME NEW l \in Leases, DueWithin(l, from, to)
             PROVE  NextDue(from, terms[l].due) \in Dates
  BY DEF Candidates, Keys
<1>1. terms[l] \in Terms
  BY DEF TypeOK, DueWithin
<1>2. terms[l].due \in DueDays
  BY <1>1, ReminderAssumption
<1>3. QED
  BY <1>2, NextDueFacts

-----------------------------------------------------------------------------
(* Type correctness                                                        *)

\* The days a scan counts from are days for which a next due date exists.
AsOfInv == \A s \in Scans : asOf[s] \in (0..LastDay) \cup AsOfDates

LEMMA TypeInit == Init => TypeOK /\ AsOfInv
BY ReminderAssumption DEF Init, TypeOK, AsOfInv

LEMMA EndScanType ==
    ASSUME TypeOK, AsOfInv, NEW s \in Scans, EndScan(s)
    PROVE  TypeOK' /\ AsOfInv'
BY ReminderAssumption DEF TypeOK, AsOfInv, EndScan, tables

\* Every step of a scan keeps every variable in its type.
LEMMA ScanType ==
    ASSUME TypeOK, AsOfInv, ScanNext
    PROVE  TypeOK' /\ AsOfInv'
<1>1. PICK s \in Scans :
        \/ \E who \in Tenants \cup {"all"}, from \in {today} \cup AsOfDates,
              days \in Windows : StartScan(s, who, from, days)
        \/ \E t \in Tenants : ReadCandidates(s, t)
        \/ InsertReminders(s)
        \/ FinishScan(s)
        \/ CrashScan(s)
  BY DEF ScanNext
<1>2. ASSUME NEW who \in Tenants \cup {"all"}, NEW from \in {today} \cup AsOfDates,
             NEW days \in Windows, StartScan(s, who, from, days)
      PROVE  TypeOK' /\ AsOfInv'
  <2>1. from \in (0..LastDay) \cup AsOfDates /\ from \in Nat /\ from + days \in Nat
    BY ReminderAssumption DEF TypeOK
  <2>2. todo' \in [Scans -> SUBSET Tenants]
    BY <1>2 DEF StartScan, TypeOK, DueTenants
  <2>3. /\ pc' \in [Scans -> {"idle", "read", "insert"}]
        /\ scope' \in [Scans -> Tenants \cup {"all"}]
        /\ asOf' \in [Scans -> Nat]
        /\ range' \in [Scans -> Nat]
        /\ AsOfInv'
    BY <1>2, <2>1 DEF StartScan, TypeOK, AsOfInv
  <2>4. QED
    BY <1>2, <2>2, <2>3 DEF StartScan, TypeOK, tables
<1>3. ASSUME NEW t \in Tenants, ReadCandidates(s, t)
      PROVE  TypeOK' /\ AsOfInv'
  <2>1. Candidates(t, asOf[s], range[s]) \subseteq Keys
    BY CandidatesType DEF TypeOK, AsOfInv
  <2>2. found' \in [Scans -> SUBSET Keys]
    BY <1>3, <2>1 DEF ReadCandidates, TypeOK
  <2>3. QED
    BY <1>3, <2>2 DEF ReadCandidates, TypeOK, AsOfInv, tables
<1>4. ASSUME InsertReminders(s)
      PROVE  TypeOK' /\ AsOfInv'
  <2>1. found[s] \subseteq Keys
    BY DEF TypeOK
  <2>2. QED
    BY <1>4, <2>1 DEF InsertReminders, TypeOK, AsOfInv
<1>5. QED
  BY <1>1, <1>2, <1>3, <1>4, EndScanType DEF FinishScan, CrashScan

\* So does every other step.
LEMMA OthersType ==
    ASSUME TypeOK, AsOfInv, LeaseNext \/ OtherNext
    PROVE  TypeOK' /\ AsOfInv'
<1>1. ASSUME NEW l \in Leases, NEW new \in Terms,
             \/ CreateLease(l, new) \/ EditLeavesTerms(l, new)
             \/ EditLease(l, new) \/ EditFails(l, new)
      PROVE  TypeOK' /\ AsOfInv'
  <2>1. terms' \in [Leases -> Terms \cup {NoLease}]
    BY <1>1 DEF TypeOK, CreateLease, EditLeavesTerms, EditLease, EditFails, tables
  <2>2. \/ UNCHANGED <<unread, read, mailed>>
        \/ /\ unread' = unread \ Obsolete(l)
           /\ UNCHANGED <<read, mailed>>
           /\ Obsolete(l) \cap mailed = {}
    BY <1>1 DEF CreateLease, EditLeavesTerms, EditLease, EditFails, tables
  <2>3. answer' \in {"handled", "internal_error"} /\ UNCHANGED <<today, locals>>
    BY <1>1 DEF TypeOK, CreateLease, EditLeavesTerms, EditLease, EditFails, tables
  <2>4. QED
    BY <2>1, <2>2, <2>3 DEF TypeOK, AsOfInv, locals
<1>2. ASSUME NEW x \in Keys, MarkRead(x) \/ PrepareDelivery(x)
      PROVE  TypeOK' /\ AsOfInv'
  BY <1>2 DEF TypeOK, AsOfInv, MarkRead, PrepareDelivery, locals
<1>3. ASSUME DayPasses
      PROVE  TypeOK' /\ AsOfInv'
  BY <1>3, ReminderAssumption DEF TypeOK, AsOfInv, DayPasses, tables, locals
<1>4. QED
  BY <1>1, <1>2, <1>3 DEF LeaseNext, OtherNext

LEMMA TypeStep == TypeOK /\ AsOfInv /\ [Next]_vars => TypeOK' /\ AsOfInv'
<1> SUFFICES ASSUME TypeOK, AsOfInv, [Next]_vars PROVE TypeOK' /\ AsOfInv'
  OBVIOUS
<1>1. CASE UNCHANGED vars
  BY <1>1 DEF TypeOK, AsOfInv, vars, tables, locals
<1>2. QED
  BY <1>1, ScanType, OthersType DEF Next

\* Every variable always keeps its type; in particular no notification is both
\* read and unread, and no delivery row refers to one that is gone.
THEOREM TypeCorrect == Spec => []TypeOK
<1>1. QED
  BY TypeInit, TypeStep, PTL DEF Spec

-----------------------------------------------------------------------------
(* What a step does to leases, notifications and candidates                *)

\* Only the lease editor changes a lease, and with it the unread reminders of
\* that lease from today on; a lease that has been created is never gone.
LEMMA TermsStep ==
    ASSUME TypeOK, [Next]_vars, NEW l \in Leases, terms'[l] # terms[l]
    PROVE  /\ terms'[l] # NoLease
           /\ unread' = IF terms[l] = NoLease THEN unread
                                              ELSE unread \ Obsolete(l)
           /\ UNCHANGED <<today, read, locals>>
<1>1. PICK k \in Leases, new \in Terms : CreateLease(k, new) \/ EditLease(k, new)
  <2>1. ASSUME ScanNext PROVE UNCHANGED terms
    BY <2>1 DEF ScanNext, StartScan, ReadCandidates, InsertReminders, FinishScan,
                CrashScan, EndScan, tables
  <2>2. ASSUME OtherNext PROVE UNCHANGED terms
    BY <2>2 DEF OtherNext, MarkRead, PrepareDelivery, DayPasses, tables
  <2>3. ASSUME NEW k \in Leases, NEW new \in Terms,
               EditLeavesTerms(k, new) \/ EditFails(k, new)
        PROVE  UNCHANGED terms
    BY <2>3 DEF EditLeavesTerms, EditFails, tables
  <2>4. ASSUME UNCHANGED vars PROVE UNCHANGED terms
    BY <2>4 DEF vars, tables
  <2>5. QED
    BY <2>1, <2>2, <2>3, <2>4 DEF Next, LeaseNext
<1>2. terms' = [terms EXCEPT ![k] = new]
  BY <1>1 DEF CreateLease, EditLease
<1>3. k = l
  BY <1>2 DEF TypeOK
<1>4. new.start <= new.end
  BY <1>1 DEF CreateLease, EditLease, EditAsked
<1>5. terms'[l] # NoLease
  BY <1>2, <1>3, <1>4 DEF TypeOK, NoLease
<1>6. QED
  BY <1>1, <1>3, <1>5 DEF CreateLease, EditLease, EditAsked

\* A reminder that turns up unread was held by a scan that inserts it.
LEMMA UnreadStep ==
    ASSUME [Next]_vars, NEW x \in unread', x \notin unread
    PROVE  \E s \in Scans : InsertReminders(s) /\ x \in found[s]
<1>1. ASSUME LeaseNext PROVE unread' \subseteq unread
  BY <1>1 DEF LeaseNext, CreateLease, EditLeavesTerms, EditLease, EditFails, tables
<1>2. ASSUME OtherNext \/ UNCHANGED vars PROVE unread' \subseteq unread
  BY <1>2 DEF OtherNext, MarkRead, PrepareDelivery, DayPasses, tables, vars
<1>3. ASSUME NEW s \in Scans,
             \/ \E who \in Tenants \cup {"all"}, from \in {today} \cup AsOfDates,
                   days \in Windows : StartScan(s, who, from, days)
             \/ \E t \in Tenants : ReadCandidates(s, t)
             \/ FinishScan(s)
             \/ CrashScan(s)
      PROVE  unread' \subseteq unread
  BY <1>3 DEF StartScan, ReadCandidates, FinishScan, CrashScan, EndScan, tables
<1>4. ASSUME NEW s \in Scans, InsertReminders(s)
      PROVE  x \in found[s]
  BY <1>4 DEF InsertReminders
<1>5. QED
  BY <1>1, <1>2, <1>3, <1>4 DEF Next, ScanNext

\* A notification that has been read stays, and stays read.
LEMMA ReadStep == [Next]_vars => read \subseteq read'
<1>1. ASSUME ScanNext PROVE read \subseteq read'
  BY <1>1 DEF ScanNext, StartScan, ReadCandidates, InsertReminders, FinishScan,
              CrashScan, EndScan, tables
<1>2. ASSUME LeaseNext PROVE read \subseteq read'
  BY <1>2 DEF LeaseNext, CreateLease, EditLeavesTerms, EditLease, EditFails, tables
<1>3. ASSUME OtherNext \/ UNCHANGED vars PROVE read \subseteq read'
  BY <1>3 DEF OtherNext, MarkRead, PrepareDelivery, DayPasses, tables, vars
<1>4. QED
  BY <1>1, <1>2, <1>3 DEF Next

\* What a scan does to its own local state, seen from any scan.
LEMMA LocalStep ==
    ASSUME TypeOK, [Next]_vars, NEW s \in Scans
    PROVE  \/ /\ pc'[s] = pc[s] /\ scope'[s] = scope[s] /\ asOf'[s] = asOf[s]
              /\ range'[s] = range[s] /\ todo'[s] = todo[s]
              /\ found'[s] = found[s]
           \/ \E who \in Tenants \cup {"all"}, from \in {today} \cup AsOfDates,
                 days \in Windows : StartScan(s, who, from, days)
           \/ \E t \in Tenants : ReadCandidates(s, t)
           \/ InsertReminders(s)
           \/ EndScan(s)
<1>1. ASSUME LeaseNext \/ OtherNext \/ UNCHANGED vars PROVE UNCHANGED locals
  <2>1. ASSUME LeaseNext PROVE UNCHANGED locals
    BY <2>1 DEF LeaseNext, CreateLease, EditLeavesTerms, EditLease, EditFails
  <2>2. ASSUME OtherNext \/ UNCHANGED vars PROVE UNCHANGED locals
    BY <2>2 DEF OtherNext, MarkRead, PrepareDelivery, DayPasses, vars
  <2>3. QED
    BY <1>1, <2>1, <2>2
<1>2. ASSUME NEW z \in Scans, z # s,
             \/ \E who \in Tenants \cup {"all"}, from \in {today} \cup AsOfDates,
                   days \in Windows : StartScan(z, who, from, days)
             \/ \E t \in Tenants : ReadCandidates(z, t)
             \/ InsertReminders(z)
             \/ EndScan(z)
      PROVE  /\ pc'[s] = pc[s] /\ scope'[s] = scope[s] /\ asOf'[s] = asOf[s]
             /\ range'[s] = range[s] /\ todo'[s] = todo[s]
             /\ found'[s] = found[s]
  BY <1>2 DEF TypeOK, StartScan, ReadCandidates, InsertReminders, EndScan
<1>3. QED
  BY <1>1, <1>2 DEF Next, ScanNext, FinishScan, CrashScan, locals

\* Time does not run backwards.
LEMMA TodayStep ==
    TypeOK /\ [Next]_vars => today \in Nat /\ today' \in Nat /\ today <= today'
<1> SUFFICES ASSUME TypeOK, [Next]_vars
             PROVE  today' = today \/ today' = today + 1
  BY DEF TypeOK
<1>1. ASSUME ScanNext PROVE today' = today
  BY <1>1 DEF ScanNext, StartScan, ReadCandidates, InsertReminders, FinishScan,
              CrashScan, EndScan
<1>2. ASSUME LeaseNext PROVE today' = today
  BY <1>2 DEF LeaseNext, CreateLease, EditLeavesTerms, EditLease, EditFails
<1>3. ASSUME OtherNext \/ UNCHANGED vars PROVE today' = today \/ today' = today + 1
  BY <1>3 DEF OtherNext, MarkRead, PrepareDelivery, DayPasses, vars
<1>4. QED
  BY <1>1, <1>2, <1>3 DEF Next

\* No scan brings a reminder back that has been read: rows read stay, and
\* no row is at once read and unread.
THEOREM ReadForGood == Spec => ReadStaysRead
<1>1. [Next]_vars => [read \subseteq read']_vars
  BY ReadStep
<1>2. QED
  BY <1>1, PTL DEF Spec, ReadStaysRead

-----------------------------------------------------------------------------
(* Where obsolete reminders come from                                      *)

\* What a scan holds in memory is as good as what is in the table: each agrees
\* with its lease, unless the lease changed last while a scan held a reminder of
\* it.  ObsoleteOnlyByRace alone is not inductive: it does not say what will be
\* inserted, nor that a lease created later has no reminders yet.
RaceInv ==
    /\ \A x \in unread : terms[x[1]] # NoLease
    /\ \A s \in Scans : \A x \in found[s] : terms[x[1]] # NoLease
    /\ \A x \in unread : x[2] >= today => Agrees(x) \/ x[1] \in raced
    /\ \A s \in Scans : \A x \in found[s] : Agrees(x) \/ x[1] \in raced

\* The history variables do not restrict the steps.
LEMMA HistoryImplies ==
    /\ HInit => Init
    /\ [HNext]_hvars => [Next]_vars
BY DEF HInit, HNext, hvars

\* What a scan finds agrees with the leases it has read.
LEMMA CandidatesAgree ==
    ASSUME TypeOK, AsOfInv, NEW s \in Scans, NEW t \in Tenants,
           NEW x \in Candidates(t, asOf[s], range[s])
    PROVE  Agrees(x) /\ terms[x[1]] # NoLease
<1>1. PICK l \in Leases : /\ x = <<l, NextDue(asOf[s], terms[l].due)>>
                          /\ DueWithin(l, asOf[s], range[s])
  BY DEF Candidates
<1>2. terms[l] \in Terms /\ terms[l] # NoLease
  BY <1>1 DEF TypeOK, DueWithin
<1>3. terms[l].due \in DueDays
  BY <1>2, ReminderAssumption
<1>4. NextDue(asOf[s], terms[l].due) \in DueDates[terms[l].due]
  BY <1>3, NextDueFacts DEF AsOfInv
<1>5. QED
  BY <1>1, <1>2, <1>4 DEF Agrees, DueWithin

LEMMA RaceStep ==
    TypeOK /\ AsOfInv /\ RaceInv /\ [HNext]_hvars => RaceInv'
<1> SUFFICES ASSUME TypeOK, AsOfInv, RaceInv, [HNext]_hvars PROVE RaceInv'
  OBVIOUS
<1>1. [Next]_vars /\ TypeOK'
  BY HistoryImplies, TypeStep
<1>2. raced' = (raced \ Changed)
               \cup {l \in Changed : \E s \in Scans : \E x \in found[s] : x[1] = l}
  BY DEF HNext, hvars, vars, tables, Changed
<1>3. ASSUME NEW x \in Keys, x[1] \notin Changed
      PROVE  /\ terms'[x[1]] = terms[x[1]]
             /\ Agrees(x) => Agrees(x)'
             /\ x[1] \in raced => x[1] \in raced'
  <2>1. terms'[x[1]] = terms[x[1]]
    BY <1>3 DEF Changed, Keys
  <2>2. QED
    BY <1>2, <1>3, <2>1 DEF Agrees
<1>4. ASSUME NEW x \in unread'
      PROVE  /\ terms'[x[1]] # NoLease
             /\ x[2] >= today' => Agrees(x)' \/ x[1] \in raced'
  <2>1. x \in Keys
    BY <1>1 DEF TypeOK
  <2>2. x \in unread \/ \E s \in Scans : x \in found[s]
    BY <1>1, UnreadStep
  <2>3. terms[x[1]] # NoLease
    BY <2>2 DEF RaceInv
  <2>4. CASE x[1] \in Changed
    <3>1. /\ terms'[x[1]] # NoLease
          /\ unread' = unread \ Obsolete(x[1])
          /\ today' = today
      BY <1>1, <2>3, <2>4, TermsStep DEF Changed
    <3>2. ~ (x[2] >= today')
      BY <3>1 DEF Obsolete
    <3>3. QED
      BY <3>1, <3>2
  <2>5. CASE x[1] \notin Changed
    <3>1. x[2] >= today' => x[2] >= today
      <4>1. x[2] \in Nat
        BY <2>1, ReminderAssumption DEF Keys, Dates
      <4>2. QED
        BY <1>1, <4>1, TodayStep
    <3>2. x[2] >= today => Agrees(x) \/ x[1] \in raced
      BY <2>2 DEF RaceInv
    <3>3. QED
      BY <1>3, <2>1, <2>3, <2>5, <3>1, <3>2
  <2>6. QED
    BY <2>4, <2>5
<1>5. ASSUME NEW s \in Scans, NEW x \in found'[s]
      PROVE  terms'[x[1]] # NoLease /\ (Agrees(x)' \/ x[1] \in raced')
  <2>1. x \in Keys
    BY <1>1 DEF TypeOK
  <2>2. CASE x[1] \in Changed
    <3>1. terms'[x[1]] # NoLease /\ found' = found
      BY <1>1, <2>2, TermsStep DEF Changed, locals
    <3>2. QED
      BY <1>2, <2>2, <3>1
  <2>3. CASE x[1] \notin Changed
    <3>1. x \in found[s] \/ \E t \in Tenants : x \in Candidates(t, asOf[s], range[s])
      BY <1>1, LocalStep DEF TypeOK, StartScan, ReadCandidates, InsertReminders,
                             EndScan
    <3>2. terms[x[1]] # NoLease /\ (Agrees(x) \/ x[1] \in raced)
      BY <3>1, CandidatesAgree DEF RaceInv
    <3>3. QED
      BY <1>3, <2>1, <2>3, <3>2
  <2>4. QED
    BY <2>2, <2>3
<1>6. QED
  BY <1>4, <1>5 DEF RaceInv

\* A reminder that disagrees with its lease comes from a scan that had read the
\* lease before it was last changed, and from nothing else.
THEOREM ObsoleteRemindersExplained == HSpec => []ObsoleteOnlyByRace
<1>1. HInit => RaceInv
  BY DEF HInit, Init, RaceInv
<1>2. RaceInv => ObsoleteOnlyByRace
  BY DEF RaceInv, ObsoleteOnlyByRace
<1>3. QED
  BY <1>1, <1>2, TypeInit, TypeStep, HistoryImplies, RaceStep, PTL DEF HSpec

-----------------------------------------------------------------------------
(* What a scan is sure to find                                             *)

\* The notification a lease's own terms ask for from a date on.
DueKey(l, from) == <<l, NextDue(from, terms[l].due)>>

\* For a lease unchanged since the scan started, what is due in its range is
\* still to be read, in memory, or in the table; a scan has candidates in memory
\* only until it inserts them.  ScansMissNothing is what is left of it when the
\* scan is over.
ScanInv ==
    /\ fresh \in [Scans -> SUBSET Leases]
    /\ \A x \in scanned : x[1] \in Leases
    /\ \A s \in Scans : pc[s] # "insert" => found[s] = {}
    /\ \A s \in Scans : \A l \in fresh[s] :
          pc[s] # "idle" /\ DueWithin(l, asOf[s], range[s]) =>
              \/ TenantOf[l] \in todo[s]
              \/ DueKey(l, asOf[s]) \in found[s] \cup unread \cup read

\* A notification of a lease that does not change stays, read or unread.
LEMMA RowsStay ==
    ASSUME TypeOK, [Next]_vars, NEW x \in unread \cup read, x[1] \notin Changed
    PROVE  x \in unread' \cup read'
<1>1. ASSUME ScanNext PROVE unread \subseteq unread' /\ read \subseteq read'
  BY <1>1 DEF ScanNext, StartScan, ReadCandidates, InsertReminders, FinishScan,
              CrashScan, EndScan, tables
<1>2. ASSUME NEW l \in Leases, NEW new \in Terms,
             CreateLease(l, new) \/ EditLeavesTerms(l, new) \/ EditFails(l, new)
      PROVE  unread \subseteq unread' /\ read \subseteq read'
  BY <1>2 DEF CreateLease, EditLeavesTerms, EditFails, tables
<1>3. ASSUME NEW l \in Leases, NEW new \in Terms, EditLease(l, new)
      PROVE  x \in unread' \cup read'
  <2>1. l \in Changed
    BY <1>3 DEF EditLease, EditAsked, Changed, TypeOK
  <2>2. x \notin Obsolete(l)
    BY <2>1 DEF Obsolete
  <2>3. QED
    BY <1>3, <2>2 DEF EditLease
<1>4. ASSUME OtherNext \/ UNCHANGED vars PROVE x \in unread' \cup read'
  BY <1>4 DEF OtherNext, MarkRead, PrepareDelivery, DayPasses, tables, vars
<1>5. QED
  BY <1>1, <1>2, <1>3, <1>4 DEF Next, LeaseNext

\* A lease counts as unchanged since a running scan started if it did before,
\* or if the scan starts now and covers it.
LEMMA FreshStep ==
    ASSUME [HNext]_hvars, NEW s \in Scans, pc'[s] # "idle", NEW l \in fresh'[s]
    PROVE  /\ l \notin Changed
           /\ \/ pc[s] # "idle" /\ l \in fresh[s]
              \/ pc[s] = "idle" /\ l \in Covered(s)'
<1>1. CASE HNext
  BY <1>1 DEF HNext
<1>2. CASE UNCHANGED hvars
  BY <1>2 DEF hvars, vars, tables, locals, Changed
<1>3. QED
  BY <1>1, <1>2

\* A lease that is due in the range of a scan gets its notification: nothing
\* that a step does to the tables or to the scan loses it.
LEMMA ScanStep ==
    TypeOK /\ ScanInv /\ [HNext]_hvars => ScanInv'
<1> SUFFICES ASSUME TypeOK, ScanInv, [HNext]_hvars PROVE ScanInv'
  OBVIOUS
<1>1. [Next]_vars
  BY HistoryImplies
<1>2. fresh' \in [Scans -> SUBSET Leases] /\ \A x \in scanned' : x[1] \in Leases
  <2>1. CASE UNCHANGED hvars
    BY <2>1 DEF hvars, ScanInv
  <2>2. CASE HNext
    <3>1. \A s \in Scans : Covered(s)' \subseteq Leases /\ fresh[s] \subseteq Leases
      BY DEF Covered, ScanInv
    <3>2. QED
      BY <2>2, <3>1 DEF HNext, ScanInv
  <2>3. QED
    BY <2>1, <2>2
<1>3. ASSUME NEW s \in Scans, pc'[s] # "insert" PROVE found'[s] = {}
  BY <1>1, <1>3, LocalStep
     DEF TypeOK, ScanInv, StartScan, ReadCandidates, InsertReminders, EndScan
<1>4. ASSUME NEW s \in Scans, NEW l \in fresh'[s], pc'[s] # "idle",
             DueWithin(l, asOf[s], range[s])'
      PROVE  \/ TenantOf[l] \in todo'[s]
             \/ DueKey(l, asOf[s])' \in found'[s] \cup unread' \cup read'
  <2>1. l \in Leases /\ l \notin Changed
    BY <1>2, <1>4, FreshStep
  <2>2. terms'[l] = terms[l]
    BY <2>1 DEF Changed
  <2>3. CASE \E who \in Tenants \cup {"all"}, from \in {today} \cup AsOfDates,
                days \in Windows : StartScan(s, who, from, days)
    <3>1. PICK who \in Tenants \cup {"all"}, from \in {today} \cup AsOfDates,
               days \in Windows : StartScan(s, who, from, days)
      BY <2>3
    <3>2. /\ asOf'[s] = from /\ range'[s] = from + days /\ scope'[s] = who
          /\ todo'[s] = IF who = "all" THEN DueTenants(from, from + days) ELSE {who}
          /\ pc[s] = "idle"
      BY <3>1 DEF StartScan, TypeOK
    <3>3. l \in Covered(s)'
      BY <1>4, <3>2, FreshStep
    <3>4. DueWithin(l, from, from + days)
      BY <1>4, <2>2, <3>2 DEF DueWithin
    <3>5. TenantOf[l] \in Tenants
      BY <2>1, ReminderAssumption
    <3>6. QED
      BY <2>1, <3>2, <3>3, <3>4, <3>5 DEF Covered, DueTenants
  <2>4. CASE ~ \E who \in Tenants \cup {"all"}, from \in {today} \cup AsOfDates,
                  days \in Windows : StartScan(s, who, from, days)
    <3>1. ~ EndScan(s)
      BY <1>4 DEF EndScan, TypeOK
    <3>2. asOf'[s] = asOf[s] /\ range'[s] = range[s] /\ pc[s] # "idle"
      BY <1>1, <1>4, <2>4, <3>1, LocalStep
         DEF TypeOK, ReadCandidates, InsertReminders
    <3>3. l \in fresh[s] /\ DueWithin(l, asOf[s], range[s])
      BY <1>4, <2>2, <3>2, FreshStep DEF DueWithin
    <3>4. DueKey(l, asOf[s])' = DueKey(l, asOf[s])
      BY <2>2, <3>2 DEF DueKey
    <3>5. CASE DueKey(l, asOf[s]) \in unread \cup read
      <4>1. DueKey(l, asOf[s])[1] = l
        BY DEF DueKey
      <4>2. QED
        BY <1>1, <2>1, <3>4, <3>5, <4>1, RowsStay
    <3>6. CASE DueKey(l, asOf[s]) \in found[s]
      <4>1. CASE InsertReminders(s)
        BY <3>4, <3>6, <4>1 DEF InsertReminders
      <4>2. CASE ~ InsertReminders(s)
        BY <1>1, <2>4, <3>1, <3>4, <3>6, <4>2, LocalStep
           DEF TypeOK, ReadCandidates, ScanInv
      <4>3. QED
        BY <4>1, <4>2
    <3>7. CASE TenantOf[l] \in todo[s]
      <4>1. ASSUME NEW t \in Tenants, ReadCandidates(s, t), t = TenantOf[l]
            PROVE  DueKey(l, asOf[s]) \in found'[s]
        BY <2>1, <3>3, <4>1 DEF ReadCandidates, Candidates, DueKey, TypeOK
      <4>2. ASSUME NEW t \in Tenants, ReadCandidates(s, t), t # TenantOf[l]
            PROVE  TenantOf[l] \in todo'[s]
        BY <3>7, <4>2 DEF ReadCandidates, TypeOK
      <4>3. ASSUME ~ \E t \in Tenants : ReadCandidates(s, t)
            PROVE  todo'[s] = todo[s]
        BY <1>1, <2>4, <3>1, <4>3, LocalStep DEF InsertReminders
      <4>4. QED
        BY <3>4, <3>7, <4>1, <4>2, <4>3
    <3>8. QED
      BY <3>2, <3>3, <3>5, <3>6, <3>7 DEF ScanInv
  <2>5. QED
    BY <2>3, <2>4
<1>5. QED
  BY <1>2, <1>3, <1>4 DEF ScanInv

\* What a complete scan has covered stays covered until the lease changes.
LEMMA MissNothingStep ==
    TypeOK /\ ScanInv /\ ScansMissNothing /\ [HNext]_hvars => ScansMissNothing'
<1> SUFFICES ASSUME TypeOK, ScanInv, ScansMissNothing, [HNext]_hvars,
                    NEW x \in scanned', DueWithin(x[1], x[2], x[3])'
             PROVE  DueKey(x[1], x[2])' \in unread' \cup read'
  BY DEF ScansMissNothing, DueKey
<1>1. [Next]_vars
  BY HistoryImplies
<1>2. CASE x \in scanned /\ x[1] \notin Changed
  <2>1. terms'[x[1]] = terms[x[1]]
    BY <1>2 DEF Changed, ScanInv
  <2>2. DueKey(x[1], x[2])' = DueKey(x[1], x[2]) /\ DueKey(x[1], x[2])[1] = x[1]
    BY <2>1 DEF DueKey
  <2>3. DueKey(x[1], x[2]) \in unread \cup read
    BY <1>2, <2>1 DEF ScansMissNothing, DueWithin, DueKey
  <2>4. QED
    BY <1>1, <1>2, <2>2, <2>3, RowsStay
<1>3. ASSUME NEW s \in Scans, FinishScan(s), NEW l \in fresh[s],
             x = <<l, asOf[s], range[s]>>
      PROVE  DueKey(x[1], x[2])' \in unread' \cup read'
  <2>1. pc[s] = "read" /\ todo[s] = {} /\ found[s] = {} /\ UNCHANGED tables
    BY <1>3 DEF FinishScan, EndScan, ScanInv
  <2>2. DueWithin(l, asOf[s], range[s])
    BY <1>3, <2>1 DEF DueWithin, tables
  <2>3. DueKey(l, asOf[s]) \in unread \cup read
    BY <2>1, <2>2 DEF ScanInv
  <2>4. QED
    BY <1>3, <2>1, <2>3 DEF DueKey, tables
<1>4. \/ x \in scanned /\ x[1] \notin Changed
      \/ \E s \in Scans : /\ FinishScan(s)
                          /\ \E l \in fresh[s] : x = <<l, asOf[s], range[s]>>
  <2>1. CASE UNCHANGED hvars
    BY <2>1 DEF hvars, vars, tables, Changed
  <2>2. CASE HNext
    BY <2>2 DEF HNext
  <2>3. QED
    BY <2>1, <2>2
<1>5. QED
  BY <1>2, <1>3, <1>4

\* A scan that completes has left a notification for every due date in its range
\* of every lease that did not change meanwhile.
THEOREM CompleteScansMissNothing == HSpec => []ScansMissNothing
<1>1. HInit => ScanInv /\ ScansMissNothing
  BY DEF HInit, Init, ScanInv, ScansMissNothing
<1>2. QED
  BY <1>1, TypeInit, TypeStep, HistoryImplies, ScanStep, MissNothingStep, PTL
     DEF HSpec

=============================================================================
