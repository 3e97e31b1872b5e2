------------------------------ MODULE AlertLog ------------------------------
(***************************************************************************)
(* What alert-hub promises of its memory of alerts, without the two        *)
(* containers it is kept in: a bounded log of alerts in arrival order.  An *)
(* alert whose id is already in the log is not entered again, a new alert  *)
(* pushes out the oldest one when the log is full, acknowledging an alert  *)
(* changes nothing but its acked flag, and a stop of the hub loses it all. *)
(***************************************************************************)
EXTENDS Naturals, Sequences

CONSTANTS Alerts,     \* the alerts producers send, records with a field id
          LogCapacity \* the number of alerts the log holds

VARIABLE log

Retained == {log[i].alert.id : i \in DOMAIN log}

Init == log = <<>>

Enter(a) ==
    /\ a.id \notin Retained
    /\ log' = Append(IF Len(log) < LogCapacity THEN log ELSE Tail(log),
                     [alert |-> a, acked |-> FALSE])

Acknowledge(i) == log' = [log EXCEPT ![i].acked = TRUE]

Lose == log' = <<>>

Next ==
    \/ \E a \in Alerts : Enter(a)
    \/ \E i \in DOMAIN log : Acknowledge(i)
    \/ Lose

Spec == Init /\ [][Next]_log
=============================================================================
