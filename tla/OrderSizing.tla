---------------------------- MODULE OrderSizing ----------------------------
(***************************************************************************)
(* What basis-cli sends to the exchanges: the parameters on the dashboard  *)
(* (AppStateManager and the keys that change them), the prices of          *)
(* LimitOrderPricer and the lots and ticks the two clients round to.       *)
(*                                                                         *)
(* Abstractions.  Of the session (module BasisOrder has all of it) there   *)
(* remains what it was started by.  Quantities are counted in the last     *)
(* decimal of Binance, prices in units that divide the ticks.  The clients *)
(* compute in binary floating point: a value that is on the grid may come  *)
(* out a hair to either side of it and be rounded to the next point (0.58  *)
(* divided by 0.01 is 57.99..., Binance gets 0.57, and rounds once more).  *)
(* The rules of an instrument are fetched once and kept.  The clients are  *)
(* the live ones, and no market order is modelled: it has no price.        *)
(***************************************************************************)
EXTENDS Integers

CONSTANTS
    QtyStep,      \* getQuantityStep of the symbol
    FirstQty,     \* --quantity
    MaxQty,       \* bound: the quantity on the dashboard
    Slippages,    \* what the user may enter, in basis points
    BnStep, BnMin,\* LOT_SIZE of Binance
    CtVal,        \* base quantity of one OKX contract
    Ticks,        \* the tick of each exchange
    Quotes,       \* what the price feed may show: bid and ask of both
    AmendBps,     \* AMEND_EXTRA_BPS
    AmendLimit    \* MAX_AMEND_COUNT

Exchanges == {"bn", "okx"}
Directions == {"binance_to_okx", "okx_to_binance"}

ASSUME SizingAssumption ==
    /\ {QtyStep, FirstQty, MaxQty, BnStep, BnMin, CtVal} \subseteq Nat \ {0}
    /\ Slippages \subseteq Nat /\ AmendBps \in Nat /\ AmendLimit \in Nat
    /\ \A ex \in Exchanges : Ticks[ex] \in Nat \ {0}
    /\ Quotes \subseteq [Exchanges -> [bid : Nat, ask : Nat]]

VARIABLES
    direction, quantity, slippage, \* on the dashboard
    editing,  \* the slippage is being edited
    quote,    \* the snapshot of the price feed
    terms,    \* activeParams
    asking,   \* a recovery awaits the open orders
    session,  \* idle, executed or recovered
    sent      \* the last order of each leg, and the quote it was priced at

screenParams == <<direction, quantity, slippage, editing>>
sizingVars == <<screenParams, quote, terms, asking, session, sent>>

Shown == [direction |-> direction, quantity |-> quantity, slippage |-> slippage]
NoOrder == [side |-> "none"]

SizingInit ==
    /\ direction \in Directions /\ quantity = FirstQty /\ slippage \in Slippages
    /\ editing = FALSE /\ quote \in Quotes
    /\ terms = Shown /\ asking = FALSE /\ session = "idle"
    /\ sent = [ex \in Exchanges |-> NoOrder]

-----------------------------------------------------------------------------
(* Rounding. *)

AtLeast(least, x) == IF x < least THEN least ELSE x
Above(x, grid) == -((-x) \div grid)

(* How many steps of the grid are below x, and how many reach it.           *)
Floors(x, grid) == {x \div grid} \union (IF x % grid = 0 THEN {x \div grid - 1} ELSE {})
Ceilings(x, grid) == {Above(x, grid)} \union (IF x % grid = 0 THEN {x \div grid + 1} ELSE {})

(* Binance: down to a step, and up to the smallest lot.                     *)
BnLots(q) ==
    {IF n * BnStep < min THEN Above(min, BnStep) * BnStep ELSE n * BnStep :
        n \in Floors(q, BnStep), min \in {BnMin, BnMin + 1}}

(* Mutant: the base quantity is sent as the number of contracts. *)
BaseAsContracts(q) == {CtVal * AtLeast(1, n * CtVal) : n \in Floors(q, CtVal)}

(* OKX: down to a contract, and at least one.                               *)
OkxContracts(q) == {CtVal * AtLeast(1, n) : n \in Floors(q, CtVal)}

(* The session has the quantity normalised; Binance rounds the result again.*)
BaseSent(ex, q) == IF ex = "okx" THEN OkxContracts(q) ELSE UNION {BnLots(n) : n \in BnLots(q)}

(* Prices are computed in fractions of a unit.                              *)
Whole == 4 * 10000
SumOfQuotes == quote["bn"].bid + quote["bn"].ask + quote["okx"].bid + quote["okx"].ask

SideOf(ex, dir) == IF (ex = "bn") = (dir = "binance_to_okx") THEN "buy" ELSE "sell"

(* LimitOrderPricer: across the spread by so many basis points of the mid.  *)
RawPrice(ex, side, bps) ==
    IF side = "buy" THEN Whole * quote[ex].ask + bps * SumOfQuotes
    ELSE Whole * quote[ex].bid - bps * SumOfQuotes

(* To a tick, a buy up and a sell down.                                     *)
Rounded(raw, side, tick) ==
    {AtLeast(tick, n * tick) :
        n \in IF side = "buy" THEN Ceilings(raw, Whole * tick) ELSE Floors(raw, Whole * tick)}

(* The pricer rounds for the side of the direction, the placement once more *)
(* for the side of the order.                                               *)
PriceSent(ex, dir, side, bps) ==
    LET priced == SideOf(ex, dir)
    IN  UNION {Rounded(Whole * p, side, Ticks[ex]) :
                  p \in Rounded(RawPrice(ex, priced, bps), priced, Ticks[ex])}

-----------------------------------------------------------------------------
(* The dashboard: an edit takes every key but Ctrl-C, and only an IDLE      *)
(* session lets the parameters be changed.                                  *)

MayChange == session = "idle" /\ ~ editing

ToggleDirection ==
    /\ MayChange
    /\ direction' \in Directions \ {direction}
    /\ UNCHANGED <<quantity, slippage, editing, quote, terms, asking, session, sent>>

AdjustQuantity(delta) ==
    /\ MayChange
    /\ quantity' = AtLeast(QtyStep, quantity + delta * QtyStep) /\ quantity' <= MaxQty
    /\ UNCHANGED <<direction, slippage, editing, quote, terms, asking, session, sent>>

StartSlippageEdit ==
    /\ MayChange
    /\ editing' = TRUE
    /\ UNCHANGED <<direction, quantity, slippage, quote, terms, asking, session, sent>>

(* Enter takes over a number (none typed is 0), anything else is dropped.   *)
(* The session may have left IDLE since the edit began: a recovery.         *)
EndSlippageEdit ==
    /\ editing
    /\ slippage' \in Slippages
    /\ editing' = FALSE
    /\ UNCHANGED <<direction, quantity, quote, terms, asking, session, sent>>

QuoteMoves ==
    /\ quote' \in Quotes \ {quote}
    /\ UNCHANGED <<screenParams, terms, asking, session, sent>>

-----------------------------------------------------------------------------
(* The session. *)

Orders(ex, p, side, amends) ==
    {[side |-> side, base |-> base, price |-> price, amends |-> amends, at |-> quote] :
        base \in BaseSent(ex, p.quantity),
        price \in PriceSent(ex, p.direction, side, p.slippage + amends * AmendBps)}

Pair(bn, okx) == [ex \in Exchanges |-> IF ex = "bn" THEN bn ELSE okx]

(* execute: the parameters of this moment are kept for the session.         *)
ExecuteSized ==
    /\ MayChange
    /\ terms' = Shown /\ session' = "executed"
    /\ \E bn \in Orders("bn", Shown, SideOf("bn", direction), 0) :
       \E okx \in Orders("okx", Shown, SideOf("okx", direction), 0) :
          sent' = Pair(bn, okx)
    /\ UNCHANGED <<screenParams, quote, asking>>

(* recoverOpenOrders, when a symbol is selected: the parameters are those of*)
(* the dashboard, whatever the orders were placed with.                     *)
AskOpenOrders ==
    /\ MayChange /\ ~ asking
    /\ terms' = Shown /\ asking' = TRUE
    /\ sent' = Pair(NoOrder, NoOrder)
    /\ UNCHANGED <<screenParams, quote, session>>

(* What is found may have been placed in either direction.                  *)
OpenOrdersFound ==
    /\ asking
    /\ asking' = FALSE
    /\ \/ session' = "idle" /\ sent' = Pair(NoOrder, NoOrder)
       \/ /\ session' = "recovered"
          /\ \E dir \in Directions :
                sent' = [ex \in Exchanges |-> [side |-> SideOf(ex, dir), amends |-> 0]]
    /\ UNCHANGED <<screenParams, quote, terms>>

(* The other leg is filled and this one is not: placed again, further       *)
(* across each time.                                                        *)
ProtectLeg(ex) ==
    /\ session # "idle" /\ sent[ex].amends < AmendLimit
    /\ \A other \in Exchanges \ {ex} : sent[other].amends = 0
    /\ \E o \in Orders(ex, terms, sent[ex].side, sent[ex].amends + 1) :
          sent' = [sent EXCEPT ![ex] = o]
    /\ UNCHANGED <<screenParams, quote, terms, asking, session>>

(* Filled, cancelled or timed out.                                          *)
EndSession ==
    /\ session # "idle"
    /\ session' = "idle" /\ sent' = Pair(NoOrder, NoOrder)
    /\ UNCHANGED <<screenParams, quote, terms, asking>>

SizingNext ==
    \/ ToggleDirection \/ StartSlippageEdit \/ EndSlippageEdit \/ QuoteMoves
    \/ ExecuteSized \/ AskOpenOrders \/ OpenOrdersFound \/ EndSession
    \/ \E delta \in {-1, 1} : AdjustQuantity(delta)
    \/ \E ex \in Exchanges : ProtectLeg(ex)

SizingSpec == SizingInit /\ [][SizingNext]_sizingVars

-----------------------------------------------------------------------------
Distance(a, b) == IF a < b THEN b - a ELSE a - b

(* The two legs of an executed session, placed again or not, are within the *)
(* lots of the two exchanges of one another, though each is rounded on its  *)
(* own and more than once.  Below one contract OKX trades a contract        *)
(* nevertheless, and nothing of the kind holds.                             *)
LegsWithinALot ==
    session = "executed" /\ terms.quantity >= AtLeast(BnMin, CtVal) =>
        Distance(sent["bn"].base, sent["okx"].base) < 3 * BnStep + 2 * CtVal

(* How far the price of an order is beyond the one that was asked for.      *)
Beyond(ex, o) ==
    LET bps == terms.slippage + o.amends * AmendBps
        sum == o.at["bn"].bid + o.at["bn"].ask + o.at["okx"].bid + o.at["okx"].ask
    IN  IF o.side = "buy" THEN Whole * (o.price - o.at[ex].ask) - bps * sum
        ELSE Whole * (o.at[ex].bid - o.price) - bps * sum

(* In an executed session every order crosses the spread by what the user   *)
(* asked for and the protection added, and by less than three ticks more.   *)
PricesCross ==
    session = "executed" =>
        \A ex \in Exchanges :
            Beyond(ex, sent[ex]) \in 0 .. 3 * Whole * Ticks[ex] - 1

(* The orders that reach the exchanges are the ones that were asked for, in *)
(* size and in price.                                                       *)
OrdersAreAsked == LegsWithinALot /\ PricesCross

(* "Amend: cancel and re-place with more aggressive price"                  *)
(* (orderManager.ts:466): an order placed again crosses the spread.         *)
AmendIsAggressive ==
    \A ex \in Exchanges :
        LET o == sent[ex]
        IN  session # "idle" /\ o.amends > 0 =>
                IF o.side = "buy" THEN o.price >= o.at[ex].ask ELSE o.price <= o.at[ex].bid
=============================================================================
