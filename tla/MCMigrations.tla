---------------------------- MODULE MCMigrations ----------------------------
(* Instances of Migrations for TLC.                                         *)
EXTENDS Migrations, TLC

CONSTANTS m1, m2

\* At each index: no migration, the one that was first written, the same file
\* with other bytes, or the same bytes under another name;
\* drizzle-kit puts the index in the name.
MCVersions(i) ==
  {{}} \union {{[idx |-> i, tag |-> t, checksum |-> s]} :
                 <<t, s>> \in
                   {<<<<i, "first">>, "sum">>, <<<<i, "first">>, "edited">>, <<<<i, "renamed">>, "sum">>}}

MCTrees ==
  {a \union b \union c : a \in MCVersions(0), b \in MCVersions(1),
                          c \in {{}, {[idx |-> 2, tag |-> <<2, "first">>, checksum |-> "sum"]}}}

MCStatements == 1..2

Symmetry == Permutations(Migrator)
=============================================================================
