------------------------------ MODULE MCAccounts ------------------------------
(* One center; accounts enough for two administrators who remove each other *)
(* and a third person; two values per column.                             *)
EXTENDS Accounts, TLC

CONSTANTS u1, u2, u3, h1, h2

MCSymmetry == Permutations({u1, u2, u3}) \cup Permutations({h1, h2})
=============================================================================
