----------------------------- MODULE MCMigrations -----------------------------
(* Migrations on a small instance.                                         *)
EXTENDS Migrations

CONSTANTS r1, r2

=============================================================================
