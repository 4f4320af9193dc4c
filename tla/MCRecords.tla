------------------------------ MODULE MCRecords ------------------------------
(* Records on a small instance.                                            *)
EXTENDS Records

CONSTANTS t1, t2, p1, l1, r1, r2, a, b

\* A property and a lease, as they are created.
House == [name |-> a, address |-> a]
Flat  == [resident_name |-> a, rent_due_day_of_month |-> a,
          start_date |-> 0, end_date |-> 1]

\* Edits of the tenant's own: each of the dates alone and both, and pairs of
\* fields of which one may be as it was.
LeaseEdits == {[start_date |-> 1], [end_date |-> 0],
               [start_date |-> 0, end_date |-> 1],
               [resident_name |-> b, end_date |-> 1]}
PropertyEdits == {[name |-> a, address |-> b], [name |-> b, address |-> a]}

\* The other tenant may own the property; it tries the lease, whosever that is.
SmallInputs ==
    {o \in Operations :
        CASE o.kind = "create" -> o.fields \in {House, Flat}
          [] o.kind = "edit" -> /\ o.fields \in LeaseEdits \cup PropertyEdits
                                /\ o.tenant = t2 => o.fields = [end_date |-> 0]
          [] o.kind = "list" -> o.tenant = t1 /\ l1 \in o.of}

=============================================================================
