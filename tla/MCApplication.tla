----------------------------- MODULE MCApplication -----------------------------
(* Two keyholders with two requests at a time, and a receipt rendered twice.  *)
EXTENDS Application, TLC

ApplicationSymmetry ==
  Permutations(Keyholder) \union Permutations(Request) \union Permutations(Copy)

=============================================================================
