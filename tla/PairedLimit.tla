---------------------------- MODULE PairedLimit ----------------------------
(***************************************************************************)
(* The manual trading of arb-engine: PairedLimitExecutor.execute places a  *)
(* limit order on each exchange, polls both until they are filled or the   *)
(* time to live is over, cancels what is left, reads both again, and       *)
(* hedges a difference with a reduce-only market order; executeAction of   *)
(* the trader TUI records the outcome in the state store.                  *)
(*                                                                         *)
(* Each Promise.all is a stage of which "todo" holds the exchanges whose   *)
(* call has not returned; between its calls and between the stages the     *)
(* exchanges go on filling orders.                                         *)
(*                                                                         *)
(* Abstractions.  Quantities are whole numbers of base units.  A market    *)
(* order is executed at once, as far as reduce-only lets it.  fillSz of    *)
(* OKX is what the code takes it for, the quantity filled so far.  Prices, *)
(* and the conditions of executeAction on the event, are left out: the     *)
(* user may open and close at any time.                                    *)
(***************************************************************************)
EXTENDS Integers, FiniteSets

CONSTANTS
    Target,  \* notionalUsdt / mid, in base units
    Step,    \* Binance: step and minimum of a quantity
    CtVal,   \* OKX: base units in a contract
    Buyer,   \* the exchange on which an open buys
    Rounds,  \* bound: calls of execute
    MaxLeft, \* bound: orders of earlier calls still open when the next begins
    Faults   \* what may go wrong

Ex == {"binance", "okx"}

ASSUME PairedAssumption ==
    /\ Target \in Nat /\ Step \in Nat \ {0} /\ CtVal \in Nat \ {0}
    /\ Buyer \in Ex /\ Rounds \in Nat /\ MaxLeft \in Nat
    /\ Faults \subseteq {"refused", "answer lost", "cancel failed", "query failed", "not found"}

VARIABLES
    stage,   \* where execute is: "idle" between two calls
    todo,    \* the exchanges whose call of this stage has not returned
    round,   \* number of the call of execute
    action,  \* "open" or "close"
    orders,  \* the limit orders of every round on each exchange
    acked,   \* the exchanges whose placement was acknowledged
    seen,    \* statuses: the last order state read on each exchange
    expired, \* the deadline of the round has passed
    hedge,   \* base units the hedge of the round bought (+) or sold (-)
    pos,     \* the position on each exchange
    result,  \* what execute returned: <<>> as long as it has not, or if it threw
    isOpen   \* the state store

runVars == <<stage, todo, round, action>>
legVars == <<acked, seen, expired>>
vars == <<runVars, legVars, orders, hedge, pos, result, isOpen>>

NoOrder == [state |-> "none", exec |-> 0, qty |-> 0, sign |-> 1, reduce |-> FALSE]
Unread == [status |-> "new", qty |-> 0]

Init ==
    /\ stage = "idle" /\ todo = {} /\ round = 0 /\ action = "open"
    /\ orders = [r \in 1 .. Rounds |-> [ex \in Ex |-> NoOrder]]
    /\ acked = {} /\ seen = [ex \in Ex |-> Unread] /\ expired = FALSE
    /\ hedge = [ex \in Ex |-> 0] /\ pos = [ex \in Ex |-> 0]
    /\ result = <<>> /\ isOpen = FALSE

(* execute returns or throws: its locals are gone.                          *)
Leave ==
    /\ stage' = "idle" /\ todo' = {}
    /\ acked' = {} /\ seen' = [ex \in Ex |-> Unread] /\ expired' = FALSE

-----------------------------------------------------------------------------
(* Quantities. *)

Bigger(a, b) == IF a > b THEN a ELSE b
Smaller(a, b) == IF a < b THEN a ELSE b
Abs(n) == Bigger(n, -n)

(* quantizeQuantity of the Binance client: down to a step, at least one.    *)
Steps(q) == Step * Bigger(1, q \div Step)

(* Orders of the OKX client: the nearest number of contracts, at least one. *)
Contracts(q) == Bigger(1, (2 * q + CtVal) \div (2 * CtVal))

OrderQty(ex, q) == IF ex = "binance" THEN Steps(q) ELSE CtVal * Contracts(q)
Lot(ex) == IF ex = "binance" THEN Step ELSE CtVal

CommonQty == Smaller(Steps(Target), CtVal * (Target \div CtVal))

(* filledQty of getOrderStatus: executedQty of Binance is in base units,    *)
(* fillSz of OKX in contracts.                                              *)
Reported(ex, exec) == IF ex = "binance" THEN exec ELSE exec \div CtVal

-----------------------------------------------------------------------------
(* The exchanges. *)

Sign(ex) == IF (ex = Buyer) = (action = "open") THEN 1 ELSE -1
Order(ex) == orders[round][ex]
IsOpenOrder(o) == o.state = "open"

(* A reduce-only order finds something to reduce.                           *)
Reduces(ex, sign) == sign * pos[ex] < 0

Fill(r, ex) ==
    LET o == orders[r][ex]
    IN  /\ IsOpenOrder(o)
        /\ o.reduce => Reduces(ex, o.sign)
        /\ orders' = [orders EXCEPT ![r][ex] =
                        [o EXCEPT !.exec = @ + Lot(ex),
                                  !.state = IF o.exec + Lot(ex) = o.qty THEN "gone" ELSE "open"]]
        /\ pos' = [pos EXCEPT ![ex] = @ + o.sign * Lot(ex)]
    /\ UNCHANGED <<runVars, legVars, hedge, result, isOpen>>

StatusOf(o) ==
    IF o.exec = o.qty THEN "filled"
    ELSE IF ~ IsOpenOrder(o) THEN "canceled"
    ELSE IF o.exec = 0 THEN "new" ELSE "partial"

-----------------------------------------------------------------------------
(* execute: placing.  Orders of earlier calls stay where they are; what is  *)
(* known of those that are gone is dropped.                                 *)

Left == {l \in (1 .. Rounds) \X Ex : IsOpenOrder(orders[l[1]][l[2]])}

Begin(a) ==
    /\ stage = "idle" /\ round < Rounds /\ CommonQty > 0
    /\ Cardinality(Left) <= MaxLeft
    /\ round' = round + 1 /\ action' = a
    /\ stage' = "place" /\ todo' = Ex
    /\ orders' = [r \in 1 .. Rounds |-> [ex \in Ex |->
                    IF IsOpenOrder(orders[r][ex]) THEN orders[r][ex] ELSE NoOrder]]
    /\ hedge' = [ex \in Ex |-> 0] /\ result' = <<>>
    /\ UNCHANGED <<legVars, pos, isOpen>>

Placed(ex) ==
    LET reduce == action = "close"
    IN  /\ reduce => Reduces(ex, Sign(ex))
        /\ orders' = [orders EXCEPT ![round][ex] =
                        [state |-> "open", exec |-> 0, qty |-> OrderQty(ex, CommonQty),
                         sign |-> Sign(ex), reduce |-> reduce]]

Place(ex) ==
    /\ stage = "place" /\ ex \in todo
    /\ todo' = todo \ {ex}
    /\ \/ Placed(ex) /\ acked' = acked \union {ex}
       \/ "answer lost" \in Faults /\ Placed(ex) /\ UNCHANGED acked
       \/ /\ "refused" \in Faults \/ (action = "close" /\ ~ Reduces(ex, Sign(ex)))
          /\ UNCHANGED <<orders, acked>>
    /\ UNCHANGED <<stage, round, action, seen, expired, hedge, pos, result, isOpen>>

(* Mutant: legs that were refused are withdrawn as well. *)
WithdrawBoth == Ex
ToWithdraw == acked

AllPlaced ==
    /\ stage = "place" /\ todo = {}
    /\ IF acked = Ex THEN stage' = "poll" /\ todo' = Ex
       ELSE stage' = "withdraw" /\ todo' = ToWithdraw
    /\ UNCHANGED <<round, action, legVars, orders, hedge, pos, result, isOpen>>

-----------------------------------------------------------------------------
(* Cancelling, of the accepted leg of a failed placement and of what is     *)
(* left when polling is over.  A failure is swallowed.                      *)

Cancel(ex) ==
    /\ stage \in {"withdraw", "cancel"} /\ ex \in todo
    /\ todo' = todo \ {ex}
    /\ \/ orders' = [orders EXCEPT ![round][ex].state = "gone"]
       \/ "cancel failed" \in Faults /\ UNCHANGED orders
    /\ UNCHANGED <<stage, round, action, legVars, hedge, pos, result, isOpen>>

-----------------------------------------------------------------------------
(* readStatuses and the polling loop. *)

Answers(ex) ==
    {[status |-> StatusOf(Order(ex)), qty |-> Reported(ex, Order(ex).exec)]}
    \union (IF ex = "okx" /\ "not found" \in Faults
            THEN {[status |-> "rejected", qty |-> 0]} ELSE {})

Read(ex) ==
    /\ stage \in {"poll", "reread"} /\ ex \in todo
    /\ todo' = todo \ {ex}
    /\ \E answer \in Answers(ex) : seen' = [seen EXCEPT ![ex] = answer]
    /\ UNCHANGED <<stage, round, action, acked, expired, orders, hedge, pos, result, isOpen>>

(* A failed request makes execute throw; the TUI shows the error.           *)
ReadFails ==
    /\ stage \in {"poll", "reread"} /\ todo # {} /\ "query failed" \in Faults
    /\ Leave
    /\ UNCHANGED <<round, action, orders, hedge, pos, result, isOpen>>

Expire ==
    /\ stage = "poll" /\ ~ expired
    /\ expired' = TRUE
    /\ UNCHANGED <<runVars, acked, seen, orders, hedge, pos, result, isOpen>>

(* Statuses about to be read again; nothing looks at them in between.       *)
Forget(exs) == [ex \in Ex |-> IF ex \in exs THEN Unread ELSE seen[ex]]

Unfinished == {ex \in Ex : seen[ex].status \in {"new", "partial"}}

(* Mutant: the deadline is not looked at. *)
PollsForEver == Unfinished # {}
PollsOn == Unfinished # {} /\ ~ expired

PollAgain ==
    /\ stage = "poll" /\ todo = {} /\ PollsOn
    /\ todo' = Ex /\ seen' = Forget(Ex)
    /\ UNCHANGED <<stage, round, action, acked, expired, orders, hedge, pos, result, isOpen>>

PollingEnds ==
    /\ stage = "poll" /\ todo = {} /\ ~ PollsOn
    /\ stage' = "cancel" /\ todo' = Unfinished
    /\ UNCHANGED <<round, action, legVars, orders, hedge, pos, result, isOpen>>

(* Mutant: the statuses read before the cancels are good enough. *)
RereadNothing == {}
ToReread == Ex

Cancelled ==
    /\ stage = "cancel" /\ todo = {}
    /\ stage' = "reread" /\ todo' = ToReread /\ seen' = Forget(ToReread)
    /\ UNCHANGED <<round, action, acked, expired, orders, hedge, pos, result, isOpen>>

-----------------------------------------------------------------------------
(* The end of execute, and what executeAction records. *)

AllFilled == \A ex \in Ex : seen[ex].status = "filled"

(* Mutant: an open that came out flat is recorded as a position. *)
RecordsOpenIfOk(ok, partialFill) == ok
RecordsOpen(ok, partialFill) == ok /\ ~ partialFill

Return(ok, partialFill, hedged) ==
    /\ Leave
    /\ result' = <<[ok |-> ok, partialFill |-> partialFill, hedged |-> hedged]>>
    /\ isOpen' = IF action = "open"
                 THEN IF RecordsOpen(ok, partialFill) THEN TRUE
                      ELSE isOpen /\ ~ hedged
                 ELSE isOpen /\ ~ ok /\ ~ hedged
    /\ UNCHANGED <<round, action>>

Reject ==
    /\ stage = "withdraw" /\ todo = {}
    /\ Return(FALSE, FALSE, FALSE)
    /\ UNCHANGED <<orders, hedge, pos>>

Imbalance == Abs(seen["binance"].qty - seen["okx"].qty)
Exposed == IF seen["binance"].qty > seen["okx"].qty THEN "binance" ELSE "okx"

Finish ==
    /\ stage = "reread" /\ todo = {} /\ Imbalance = 0
    /\ Return(AllFilled, ~ AllFilled, FALSE)
    /\ UNCHANGED <<orders, hedge, pos>>

(* The reduce-only market order against the exposed leg: executed, executed *)
(* with the answer lost, or refused, in any case when there is nothing to   *)
(* reduce.                                                                  *)
Hedge ==
    /\ stage = "reread" /\ todo = {} /\ Imbalance > 0
    /\ LET ex == Exposed
           sign == - Sign(ex)
           amount == Smaller(OrderQty(ex, Imbalance), Abs(pos[ex]))
           executed == /\ Reduces(ex, sign)
                       /\ hedge' = [hedge EXCEPT ![ex] = sign * amount]
                       /\ pos' = [pos EXCEPT ![ex] = @ + sign * amount]
       IN  \/ executed /\ Return(TRUE, ~ AllFilled, TRUE)
           \/ "answer lost" \in Faults /\ executed /\ Return(AllFilled, ~ AllFilled, FALSE)
           \/ /\ "refused" \in Faults \/ ~ Reduces(ex, sign)
              /\ Return(AllFilled, ~ AllFilled, FALSE)
              /\ UNCHANGED <<hedge, pos>>
    /\ UNCHANGED orders

-----------------------------------------------------------------------------
Done ==
    /\ stage = "idle" /\ (round = Rounds \/ Cardinality(Left) > MaxLeft)
    /\ UNCHANGED vars

ProgramStep ==
    \/ AllPlaced \/ PollAgain \/ PollingEnds \/ Cancelled \/ Reject \/ Finish \/ Hedge
    \/ \E ex \in Ex : Place(ex) \/ Cancel(ex) \/ Read(ex)

Next ==
    \/ ProgramStep \/ Expire \/ ReadFails \/ Done
    \/ \E a \in {"open", "close"} : Begin(a)
    \/ \E r \in 1 .. Rounds, ex \in Ex : Fill(r, ex)

(* Every request is answered or fails, and time passes; nothing is ever     *)
(* bound to be filled.                                                      *)
Fairness == WF_vars(ProgramStep) /\ WF_vars(Expire)
Spec == Init /\ [][Next]_vars /\ Fairness

-----------------------------------------------------------------------------
TypeOK ==
    /\ stage \in {"idle", "place", "withdraw", "poll", "cancel", "reread"}
    /\ todo \subseteq Ex /\ (stage = "idle" => todo = {})
    /\ round \in 0 .. Rounds /\ action \in {"open", "close"}
    /\ \A r \in 1 .. Rounds, ex \in Ex :
         /\ orders[r][ex].state \in {"none", "open", "gone"}
         /\ orders[r][ex].exec \in 0 .. orders[r][ex].qty
         /\ IsOpenOrder(orders[r][ex]) => orders[r][ex].exec < orders[r][ex].qty
    /\ acked \subseteq Ex /\ (stage = "withdraw" => todo \subseteq acked)
    /\ \A ex \in Ex : seen[ex].status \in {"new", "partial", "filled", "canceled", "rejected"}
    /\ expired \in BOOLEAN /\ isOpen \in BOOLEAN
    /\ hedge \in [Ex -> Int] /\ pos \in [Ex -> Int]

Returns == result = <<>> /\ result' # <<>>

(* What the round has bought and sold on both exchanges together.           *)
Net ==
    LET leg(ex) == Order(ex).sign * Order(ex).exec + hedge[ex]
    IN  leg("binance") + leg("okx")

(* When execute returns ok, a leg it reports as new or partial is not an    *)
(* order it has cancelled; and with each leg reported filled or cancelled,  *)
(* none of its orders is open any more and what it executed, the hedge      *)
(* included, is the same on both sides - or the leg that was ahead is flat, *)
(* since an order left over from an earlier call had reduced it and         *)
(* reduce-only stops there.  However fills, cancels and reads interleave.   *)
OkIsBalanced ==
    [][ Returns /\ result'[1].ok
        => /\ \A ex \in Unfinished : StatusOf(Order(ex)) # "canceled"
           /\ (\A ex \in Ex : seen[ex].status \in {"filled", "canceled"})
              => /\ \A ex \in Ex : ~ IsOpenOrder(Order(ex)')
                 /\ Net' = 0 \/ pos'[Exposed] = 0 ]_vars

(* The trader's store goes from flat to open only when both orders of the   *)
(* round were executed in full and no hedge took a part of them away.       *)
OpenIsPaired ==
    [][ \A ex \in Ex : ~ isOpen /\ isOpen' => /\ Order(ex)'.exec = OrderQty(ex, CommonQty)
                                             /\ hedge'[ex] = 0 ]_vars

(* A call of execute ends, whatever is filled and whatever fails, so that   *)
(* executeAction is not busy for ever.                                      *)
ExecuteEnds == stage # "idle" ~> stage = "idle"

(* The test "succeeds when both legs are filled" expects hedged to be FALSE *)
(* (pairedLimitExecutor.test.ts): two orders that both exchanges have       *)
(* executed in full are not hedged.                                         *)
FilledIsNotHedged == [][ Returns /\ AllFilled => ~ result'[1].hedged ]_vars
=============================================================================
