--------------------------- MODULE MCAlertSystem ---------------------------
(***************************************************************************)
(* Four ids, one of them posted with two different contents, time stamps   *)
(* that disagree with any arrival order, alerts older than the bar; or two *)
(* alerts, the older one high.                                             *)
(***************************************************************************)
EXTENDS AlertSystem

Alert(id, sev, ts) == [id |-> id, sev |-> sev, ts |-> ts]

MCAlerts == {Alert("a", "high", 1), Alert("a", "low", 4), Alert("b", "low", 2),
             Alert("c", "high", 3)}
MCTwoAlerts == {Alert("b", "high", 2), Alert("c", "low", 3)}
=============================================================================
