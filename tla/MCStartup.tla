----------------------------- MODULE MCStartup -----------------------------
(***************************************************************************)
(* A small instance of Startup: the accounts, and one of the tables whose  *)
(* seeded records an administrator may delete in every status.             *)
(***************************************************************************)
EXTENDS Startup, TLC

CONSTANTS admin, viewer, g1, g2, gNew

MCOrder == <<"users", "generators">>
MCRowsOf == [users |-> {admin, viewer}, generators |-> {g1, g2, gNew}]
MCSeed == {admin, viewer, g1, g2}
Accounts == {admin, viewer}
Generators == {g1, g2, gNew}
MCSymmetry == Permutations({admin, viewer}) \union Permutations({g1, g2})
=============================================================================
