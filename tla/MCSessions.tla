------------------------------ MODULE MCSessions ------------------------------
(* One center; enough tokens for a login, its rotation, a second device and *)
(* a login after a revocation.                                            *)
EXTENDS Sessions, TLC

CONSTANT c1

MCHome     == [u \in Users |-> c1]
MCSymmetry == Permutations(Workers)
=============================================================================
