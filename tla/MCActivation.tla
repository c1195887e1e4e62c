---------------------------- MODULE MCActivation ----------------------------
(* Instances of Activation for TLC.                                         *)
EXTENDS Activation, TLC

\* People, their addresses and links, operators and requests are interchangeable.
ActivationSymmetry ==
  Permutations(Person) \union Permutations(Address) \union Permutations(Token)
    \union Permutations(Operator) \union Permutations(Request)
=============================================================================
