---------------------------- MODULE MCRetention -----------------------------
(* The answers are a perfect check-in and a desperate one: with one lesson, *)
(* one homework and a low confidence a student can be Yellow and Red.      *)
EXTENDS Retention

MCOneDate == {1}
MCAnswers == {[motivation |-> 5, progress |-> 5], [motivation |-> 1, progress |-> 1]}
MCLow     == {3}
=============================================================================
