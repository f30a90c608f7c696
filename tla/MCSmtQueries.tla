---------------------------- MODULE MCSmtQueries ----------------------------
(***************************************************************************)
(* SmtQueries under TLC, with a hash function that never collides.         *)
(***************************************************************************)
EXTENDS SmtQueries

PerfectHash(node) == node

=============================================================================
