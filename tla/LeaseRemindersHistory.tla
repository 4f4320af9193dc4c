------------------------ MODULE LeaseRemindersHistory ------------------------
(***************************************************************************)
(* LeaseReminders with history variables: what changed under a scan while  *)
(* it was running, and which scans a lease has been through unchanged.     *)
(***************************************************************************)
EXTENDS LeaseReminders

VARIABLES
    fresh,    \* the leases unchanged since a scan that covers them started
    scanned,  \* <<l, from, to>>: a complete scan, l unchanged since its start
    raced     \* leases changed last while a scan held a reminder for them

hvars == <<vars, fresh, scanned, raced>>

Changed == {l \in Leases : terms'[l] # terms[l]}

Covered(s) == {l \in Leases : scope[s] \in {"all", TenantOf[l]}}

HInit ==
    /\ Init
    /\ fresh = [s \in Scans |-> {}]
    /\ scanned = {}
    /\ raced = {}

HNext ==
    /\ Next
    /\ fresh' = [s \in Scans |-> IF pc[s] = "idle" THEN Covered(s)' \ Changed
                                                   ELSE fresh[s] \ Changed]
    /\ scanned' = {x \in scanned : x[1] \notin Changed}
                  \cup UNION {{<<l, asOf[s], range[s]>> : l \in fresh[s]} :
                                  s \in {z \in Scans : FinishScan(z)}}
    /\ raced' = (raced \ Changed)
                \cup {l \in Changed :
                          \E s \in Scans : \E x \in found[s] : x[1] = l}

HSpec == HInit /\ [][HNext]_hvars

-----------------------------------------------------------------------------
(* Properties                                                              *)

\* A reminder that disagrees with its lease was inserted by a scan that had
\* read the lease before it was last changed; nothing else leaves one behind.
ObsoleteOnlyByRace ==
    \A x \in unread : x[2] >= today => Agrees(x) \/ x[1] \in raced

\* A complete scan leaves no due date of its range without a notification,
\* unless the lease was changed after the scan started: not the tenants listed
\* first, nor other scans, edits of other leases and readers can hide one.
ScansMissNothing ==
    \A x \in scanned :
        DueWithin(x[1], x[2], x[3]) =>
            <<x[1], NextDue(x[2], terms[x[1]].due)>> \in unread \cup read

=============================================================================
