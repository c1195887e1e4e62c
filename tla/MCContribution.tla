--------------------------- MODULE MCContribution ---------------------------
(* An instance for TLC of a contribution: Stripe's events and the agreement *)
(* that they are projected on, and the receipts of one that is paid in cash *)
(* or by check.                                                             *)
EXTENDS Contribution, Receipts, TLC

CONSTANTS e1, e2, s1, r1, r2, a1, q1, q2

\* Events are interchangeable, and requests.
Symmetry == Permutations(Event) \union Permutations(Request)

\* The two share no state: a behaviour is one of theirs.
VARIABLE part

allVars == <<vars, receiptsVars, part>>

AllInit == Init /\ ReceiptsInit /\ part \in {"agreement", "receipts"}

AllNext ==
  \/ part = "agreement" /\ Next /\ UNCHANGED <<receiptsVars, part>>
  \/ part = "receipts" /\ ReceiptsNext /\ UNCHANGED <<vars, part>>

AllSpec == AllInit /\ [][AllNext]_allVars
=============================================================================
