--------------------------- MODULE DeliveryContract ---------------------------
(***************************************************************************)
(* What the email delivery worker promises, with no invocations, lists,    *)
(* tenants or contacts in it: each item has a row, a number of recorded    *)
(* attempts, and a number of copies SES has taken, and they go together.   *)
(***************************************************************************)
EXTENDS Naturals, FiniteSets

CONSTANTS
    Items,   \* what can be delivered
    Agents,  \* those who may attempt it
    Limit    \* no attempt begins that could be the one after this many

VARIABLES
    row,     \* "none", "pending", "failed" or "sent"
    tries,   \* attempts recorded
    copies,  \* copies SES has accepted
    open     \* <<a, d>>: a has attempted d and not recorded how it went

cvars == <<row, tries, copies, open>>

Attempting(d) == {a \in Agents : <<a, d>> \in open}

CInit ==
    /\ row = [d \in Items |-> "none"]
    /\ tries = [d \in Items |-> 0]
    /\ copies = [d \in Items |-> 0]
    /\ open = {}

\* Rows are created, for any items that have none.
Create(D) ==
    /\ \A d \in D : row[d] = "none"
    /\ row' = [d \in Items |-> IF d \in D THEN "pending" ELSE row[d]]
    /\ UNCHANGED <<tries, copies, open>>

\* An attempt: SES takes a copy, or does not.  Those under way count against
\* the limit, and an agent makes one at a time.
Attempt(a, d) ==
    /\ row[d] # "none"
    /\ tries[d] + Cardinality(Attempting(d)) < Limit
    /\ \A e \in Items : <<a, e>> \notin open
    /\ open' = open \cup {<<a, d>>}
    /\ copies' \in {copies, [copies EXCEPT ![d] = @ + 1]}
    /\ UNCHANGED <<row, tries>>

\* Its outcome is recorded, unless the row is sent; and it is not set to sent
\* without a copy.
Record(a, d, outcome) ==
    /\ <<a, d>> \in open
    /\ row[d] # "sent"
    /\ outcome = "sent" => copies[d] > 0
    /\ row' = [row EXCEPT ![d] = outcome]
    /\ tries' = [tries EXCEPT ![d] = @ + 1]
    /\ open' = open \ {<<a, d>>}
    /\ UNCHANGED copies

\* Its outcome is never recorded: a crash, or the row is sent already.
Forget(a, d) ==
    /\ <<a, d>> \in open
    /\ open' = open \ {<<a, d>>}
    /\ UNCHANGED <<row, tries, copies>>

\* SES reports that a copy bounced or was complained about.
Reject(d) ==
    /\ copies[d] > 0
    /\ row' = [row EXCEPT ![d] = "failed"]
    /\ UNCHANGED <<tries, copies, open>>

CNext ==
    \/ \E D \in SUBSET Items : Create(D)
    \/ \E a \in Agents, d \in Items :
          \/ Attempt(a, d)
          \/ Record(a, d, "sent")
          \/ Record(a, d, "failed")
          \/ Forget(a, d)
    \/ \E d \in Items : Reject(d)

CSpec == CInit /\ [][CNext]_cvars

=============================================================================
