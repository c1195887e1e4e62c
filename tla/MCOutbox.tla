------------------------------ MODULE MCOutbox ------------------------------
(* Instances of Outbox for TLC.                                             *)
EXTENDS Outbox, TLC

CONSTANTS w1, w2, k1, k2, t1, t2, t3, t4

\* Workers, jobs and tokens are interchangeable.  Used for safety only.
Symmetric == Permutations({w1, w2}) \union Permutations({k1, k2})
               \union Permutations({t1, t2, t3, t4})
=============================================================================
