------------------------------- MODULE MCAlerts -------------------------------
(* Two centers; the first has a task and two directors, so an alert can     *)
(* reach one of them and not the other, and a center can fail alone.       *)
EXTENDS Alerts, TLC

CONSTANTS t1, d1, d2, o1, o2

MCOrgOf == (t1 :> o1) @@ (d1 :> o1) @@ (d2 :> o1)
=============================================================================
