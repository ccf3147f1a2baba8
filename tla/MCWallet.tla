------------------------------- MODULE MCWallet -------------------------------
(* A level is three XP, so a few awards cross a level and raise the rate;  *)
(* a penalty of three is more than a student may have.                    *)
EXTENDS Wallet, TLC

MCDefault == [xpAttend |-> 2, xpLate |-> 1, xpHomeworkMax |-> 3, xpCheckin |-> 2,
              levelSize |-> 3, coinBase |-> 1, coinStep |-> 1]
MCGenerous == [MCDefault EXCEPT !.coinBase = 2, !.xpCheckin = 0]
MCConfigs  == {MCDefault, MCGenerous}
MCPrices   == {1, 3}
MCGrades   == {0, 4}
MCManual   == {-3, 1}

MCSymmetry == Permutations(Workers) \cup Permutations(Items)
=============================================================================
