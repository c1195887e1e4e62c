---------------------------- MODULE MCMembership ----------------------------
(* Two keyholders, two requests at a time.                                  *)
EXTENDS Membership, TLC

CONSTANTS p1, p2, r1, r2, s1, s2, s3

MCPerson == {p1, p2}
MCRequest == {r1, r2}
MCSession == {s1, s2, s3}

\* Everybody is a keyholder, so that people, requests and sessions are alike.
Symmetric ==
  Permutations(MCPerson) \union Permutations(MCRequest) \union Permutations(MCSession)
=============================================================================
