---------------------------- MODULE MCRiskProfile ----------------------------
(* Four lessons are edited, after four attended ones or after none: with   *)
(* the attended past the rates run from 4/8 up, so four absences in a row  *)
(* force Red on a score that is only Yellow; without it they run from 0.   *)
EXTENDS RiskProfile

MCDates         == 1..8
MCPasts         == {{}, 1..4}
MCHomeworkDates == {1, 2}
MCAnswers       == {[motivation |-> 1, progress |-> 4], [motivation |-> 3, progress |-> 4],
                    [motivation |-> 5, progress |-> 5]}
MCLevels   == {3, 9}
=============================================================================
