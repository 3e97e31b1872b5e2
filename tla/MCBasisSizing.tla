--------------------------- MODULE MCBasisSizing ---------------------------
(***************************************************************************)
(* The order session, or the quantities and prices of its orders, one of   *)
(* them at a time: BasisOrder follows an order through every fault and     *)
(* never looks at its numbers, OrderSizing has the numbers and no faults.  *)
(*                                                                         *)
(* The session comes in two parts that together are small enough.  "calls" *)
(* has every key, timer and fault, any number of sessions, and one call at *)
(* a time.  "overlap" has two calls at a time, as poll() makes them when   *)
(* an answer takes longer than the interval: one session with every fault  *)
(* up to its order timeout, and the user only watching, to whom a settled  *)
(* session may well be the end.                                            *)
(***************************************************************************)
EXTENDS MCBasisOrder, MCOrderSizing, TLC

VARIABLE part

SizingAtRest ==
    /\ SizingInit
    /\ direction = "binance_to_okx" /\ slippage = 0
    /\ quote = Quote(20000, 20004, 19990, 19995)

MCInit ==
    \/ part \in {"calls", "overlap"} /\ Init /\ SizingAtRest
    \/ part = "sizing" /\ Init /\ SizingInit

OneCall == \A t, u \in Tasks : Idle(t) \/ Idle(u) \/ t = u
NothingPlaced == \A ex \in Ex, id \in OrderIds : orders[ex][id] = [open |-> FALSE, exec |-> 0]
(* The user selects, executes once and watches, until the order timeout.    *)
WatchedSession ==
    /\ Program \/ UserSelect \/ UserExecute \/ Environment
    /\ phase' # "TIMEOUT" /\ \A t \in Tasks : task'[t].kind # "cancel"
    /\ phase # "PLACING" /\ phase' = "PLACING" => NothingPlaced

MCNext ==
    /\ UNCHANGED part
    /\ \/ part = "calls" /\ Next /\ OneCall' /\ UNCHANGED sizingVars
       \/ part = "overlap" /\ WatchedSession /\ UNCHANGED sizingVars
       \/ part = "overlap" /\ Settled /\ UNCHANGED <<vars, sizingVars>>
       \/ part = "sizing" /\ SizingNext /\ UNCHANGED vars

MCSpec == MCInit /\ [][MCNext]_<<part, vars, sizingVars>>

(* Nothing tells the two exchanges of the session, or two calls, apart: at  *)
(* most one leg is exposed, and which slot a call takes does not matter.    *)
MCSymmetry == Permutations(Ex) \union Permutations(Tasks)
=============================================================================
