------------------------------ MODULE MCFrontend ------------------------------
(* Frontend on a small instance.                                           *)
EXTENDS Frontend, TLC

CONSTANTS k1, k2, a1, a2

\* Requests are interchangeable, and so are contacts.
Symmetric == Permutations(Calls) \cup Permutations(Contacts)

=============================================================================
