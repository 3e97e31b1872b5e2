----------------------------- MODULE MCArbEngine -----------------------------
(* The instance TLC checks: its bounds are the CONSTANTS of the cfg file.     *)
EXTENDS ArbEngine

(* A lookup of the price that fails drops the intents of its event.  Where a  *)
(* close is one of them the low spread of that event is lost, so it fails for *)
(* events that only open.                                                     *)
OnlyOpensAreDropped ==
    PriceFailed => \A i \in DOMAIN exec.intents : exec.intents[i].action = "open"

MCNext == Next /\ OnlyOpensAreDropped
MCFairSpec == Init /\ [][MCNext]_vars /\ Fairness

(* No guard and no property of this instance looks at the history variable    *)
(* missed, so states that differ in it alone are one.                         *)
WithoutHistory == <<engine, mode, open, symbols, queue, exec, reader, pos>>
=============================================================================
