------------------------- MODULE PairedLimitProofs -------------------------
(***************************************************************************)
(* The paired executor, for every quantity, lot, contract value, number of *)
(* calls and set of faults: what an open recorded by the trader TUI means  *)
(* (a full pair, as long as the two clients report two full orders as the  *)
(* same number); that a successful end leaves no difference between the    *)
(* legs, when a step of Binance and a contract of OKX are one base unit;   *)
(* and, whatever the lots, that no order is ever executed beyond its size. *)
(***************************************************************************)
EXTENDS PairedLimit, TLAPS

OrderType == [state : {"none", "open", "gone"}, exec : Int, qty : Int,
              sign : Int, reduce : BOOLEAN]
SeenType == [status : {"new", "partial", "filled", "canceled", "rejected"}, qty : Int]

(* The types the proof needs, and the calls in which execute is running.    *)
Types ==
    /\ stage \in {"idle", "place", "withdraw", "poll", "cancel", "reread"}
    /\ todo \subseteq Ex /\ acked \subseteq Ex
    /\ round \in 0 .. Rounds
    /\ stage # "idle" => round \in 1 .. Rounds
    /\ orders \in [1 .. Rounds -> [Ex -> OrderType]]
    /\ seen \in [Ex -> SeenType]
    /\ hedge \in [Ex -> Int] /\ pos \in [Ex -> Int]

(* An order that was placed has the common quantity, and is open only as    *)
(* long as some of it is left.                                              *)
OrdersInv ==
    \A r \in 1 .. Rounds, ex \in Ex :
        /\ orders[r][ex].state # "none" => orders[r][ex].qty = OrderQty(ex, CommonQty)
        /\ orders[r][ex].state = "open" => orders[r][ex].exec # orders[r][ex].qty

(* execute hedges last, after it has placed both orders.                    *)
StageInv ==
    /\ stage # "idle" => \A ex \in Ex : hedge[ex] = 0
    /\ stage # "idle" => \A ex \in acked : orders[round][ex].state # "none"
    /\ stage \in {"poll", "cancel", "reread"} => acked = Ex
    /\ stage = "idle" => acked = {}
    /\ stage = "withdraw" => todo \subseteq acked
    /\ stage \in {"idle", "place", "withdraw"} => seen = [ex \in Ex |-> Unread]

(* A leg read as filled is, and was reported in full.                       *)
SeenInv ==
    \A ex \in Ex : seen[ex].status = "filled" /\ stage # "idle"
        => /\ orders[round][ex].exec = OrderQty(ex, CommonQty)
           /\ orders[round][ex].state = "gone"
           /\ seen[ex].qty = Reported(ex, OrderQty(ex, CommonQty))

PairedInv == Types /\ OrdersInv /\ StageInv /\ SeenInv

-----------------------------------------------------------------------------
(* The types of the constants, from their assumption.                     *)
LEMMA ConstantTypes ==
    /\ Target \in Nat /\ Step \in Nat \ {0} /\ CtVal \in Nat \ {0}
    /\ Rounds \in Nat
  BY PairedAssumption DEF PairedAssumption

(* Positive times positive: the quantity of an order is not zero.         *)
LEMMA ProductPositive ==
    ASSUME NEW a \in Nat \ {0}, NEW b \in Int, b >= 1
    PROVE  a * b \in Int /\ a * b >= 1
  OBVIOUS

(* Every order has a positive whole quantity.                               *)
LEMMA OrderQtyPositive ==
    ASSUME NEW q \in Int, NEW ex \in Ex
    PROVE  OrderQty(ex, q) \in Int /\ OrderQty(ex, q) > 0
<1>1. /\ Bigger(1, q \div Step) \in Int
      /\ Bigger(1, q \div Step) >= 1
  BY ConstantTypes DEF Bigger
<1>2. /\ Contracts(q) \in Int
      /\ Contracts(q) >= 1
  <2>1. 2 * CtVal \in Nat \ {0} /\ 2 * q + CtVal \in Int
    BY ConstantTypes
  <2>2. (2 * q + CtVal) \div (2 * CtVal) \in Int
    BY <2>1
  <2> QED BY <2>2 DEF Contracts, Bigger
<1>3. Steps(q) \in Int /\ Steps(q) >= 1
  BY <1>1, ProductPositive, ConstantTypes DEF Steps
<1>4. CtVal * Contracts(q) \in Int /\ CtVal * Contracts(q) >= 1
  BY <1>2, ProductPositive, ConstantTypes
<1> QED BY <1>3, <1>4 DEF OrderQty

(* The common quantity of the two legs is a whole number.                 *)
LEMMA CommonQtyType == CommonQty \in Int
<1>1. Target \in Int /\ Target \div CtVal \in Int /\ Target \div Step \in Int
  BY ConstantTypes
<1>2. Steps(Target) \in Int
  BY <1>1, ConstantTypes DEF Steps, Bigger
<1>3. CtVal * (Target \div CtVal) \in Int
  BY <1>1, ConstantTypes
<1> QED BY <1>2, <1>3 DEF CommonQty, Smaller

(* A reported quantity is a whole number.                                 *)
LEMMA ReportedType ==
    ASSUME NEW ex \in Ex, NEW n \in Int
    PROVE  Reported(ex, n) \in Int
  BY ConstantTypes DEF Reported

-----------------------------------------------------------------------------
(* The invariant holds at first and is preserved by every action.           *)

(* Nothing is running and nothing was placed at first.                    *)
LEMMA PairedInit == Init => PairedInv
<1> SUFFICES ASSUME Init PROVE PairedInv
  OBVIOUS
<1>1. NoOrder \in OrderType /\ Unread \in SeenType
  BY DEF NoOrder, OrderType, Unread, SeenType
<1>2. Types
  BY <1>1, ConstantTypes DEF Init, Types, Ex
<1>3. OrdersInv
  BY DEF Init, OrdersInv, NoOrder
<1>4. StageInv /\ SeenInv
  BY DEF Init, StageInv, SeenInv, Unread
<1> QED BY <1>2, <1>3, <1>4 DEF PairedInv

(* A fill leaves an order open only as long as some of it is left.        *)
LEMMA FilledOrder ==
    ASSUME NEW o \in OrderType, NEW n \in Int
    PROVE  LET filled == [o EXCEPT !.exec = @ + n,
                                   !.state = IF o.exec + n = o.qty THEN "gone" ELSE "open"]
           IN  /\ filled \in OrderType
               /\ filled.exec = o.exec + n /\ filled.qty = o.qty
               /\ filled.state \in {"gone", "open"}
               /\ filled.state = "open" => filled.exec # filled.qty
<1> DEFINE exec == o.exec + n
           state == IF o.exec + n = o.qty THEN "gone" ELSE "open"
<1>1. exec \in Int /\ state \in {"gone", "open"}
  BY DEF OrderType
<1> HIDE DEF exec, state
<1>2. /\ [o EXCEPT !.exec = exec] \in OrderType
      /\ [o EXCEPT !.exec = exec].exec = exec
      /\ [o EXCEPT !.exec = exec].qty = o.qty
  BY <1>1 DEF OrderType
<1> DEFINE once == [o EXCEPT !.exec = exec]
<1> HIDE DEF once
<1>3. /\ [once EXCEPT !.state = state] \in OrderType
      /\ [once EXCEPT !.state = state].exec = once.exec
      /\ [once EXCEPT !.state = state].qty = once.qty
      /\ [once EXCEPT !.state = state].state = state
  BY <1>1, <1>2 DEF OrderType, once
<1>4. [o EXCEPT !.exec = exec, !.state = state] = [once EXCEPT !.state = state]
  BY DEF once
<1> QED BY <1>1, <1>2, <1>3, <1>4 DEF exec, state, once

(* An exchange fills a lot of an order: what was read as filled is gone.    *)
LEMMA FillKeeps ==
    ASSUME PairedInv, NEW r \in 1 .. Rounds, NEW ex \in Ex, Fill(r, ex)
    PROVE  PairedInv'
<1> DEFINE o == orders[r][ex]
           filled == [o EXCEPT !.exec = @ + Lot(ex),
                               !.state = IF o.exec + Lot(ex) = o.qty THEN "gone" ELSE "open"]
<1> USE DEF PairedInv
<1>1. o \in OrderType /\ o.state = "open" /\ Lot(ex) \in Int
  BY ConstantTypes DEF Fill, Types, IsOpenOrder, Lot
<1>2. /\ filled \in OrderType
      /\ filled.qty = o.qty /\ filled.state \in {"gone", "open"}
      /\ filled.state = "open" => filled.exec # filled.qty
  BY <1>1, FilledOrder
<1>3. orders' = [orders EXCEPT ![r][ex] = filled]
  BY DEF Fill
<1>4. UNCHANGED <<stage, todo, round, acked, seen, hedge>>
  BY DEF Fill, runVars, legVars
<1> HIDE DEF filled
<1>5. \A r1 \in 1 .. Rounds, e1 \in Ex :
         orders'[r1][e1] = IF r1 = r /\ e1 = ex THEN filled ELSE orders[r1][e1]
  BY <1>3 DEF Types
<1>6. Types'
  <2>1. orders' \in [1 .. Rounds -> [Ex -> OrderType]]
    BY <1>2, <1>3 DEF Types
  <2>2. pos' \in [Ex -> Int]
    <3>1. o.sign \in Int
      BY <1>1 DEF OrderType
    <3>2. o.sign * Lot(ex) \in Int
      BY <3>1, <1>1
    <3>3. pos' = [pos EXCEPT ![ex] = @ + o.sign * Lot(ex)]
      BY DEF Fill
    <3> QED BY <3>2, <3>3 DEF Types
  <2> QED BY <2>1, <2>2, <1>4 DEF Types
<1>7. OrdersInv'
  BY <1>1, <1>2, <1>5 DEF OrdersInv
<1>8. StageInv'
  BY <1>2, <1>4, <1>5 DEF StageInv, Types
<1>9. SeenInv'
  BY <1>1, <1>4, <1>5 DEF SeenInv, Types
<1> QED BY <1>6, <1>7, <1>8, <1>9

(* A call begins: the orders of earlier calls stay, or are dropped.         *)
LEMMA BeginKeeps ==
    ASSUME PairedInv, NEW a \in {"open", "close"}, Begin(a)
    PROVE  PairedInv'
<1> USE DEF PairedInv
<1>1. /\ NoOrder \in OrderType /\ NoOrder.state = "none"
      /\ Unread \in SeenType /\ Unread.status = "new"
  BY DEF NoOrder, OrderType, Unread, SeenType
<1>2. \A r \in 1 .. Rounds, ex \in Ex : orders'[r][ex] \in {orders[r][ex], NoOrder}
  BY DEF Begin
<1>3. Types'
  <2>1. orders' \in [1 .. Rounds -> [Ex -> OrderType]]
    BY <1>1, <1>2 DEF Begin, Types
  <2>2. round' \in 1 .. Rounds
    BY ConstantTypes DEF Begin, Types
  <2> QED BY <2>1, <2>2, ConstantTypes DEF Begin, Types, legVars
<1>4. OrdersInv'
  BY <1>1, <1>2 DEF OrdersInv
<1>5. StageInv'
  BY DEF Begin, StageInv, Types, legVars
<1>6. SeenInv'
  BY <1>1 DEF Begin, SeenInv, StageInv, legVars
<1> QED BY <1>3, <1>4, <1>5, <1>6

(* A placement, accepted, lost or refused.                                  *)
LEMMA PlaceKeeps ==
    ASSUME PairedInv, NEW ex \in Ex, Place(ex)
    PROVE  PairedInv'
<1> USE DEF PairedInv
<1> DEFINE o == [state |-> "open", exec |-> 0, qty |-> OrderQty(ex, CommonQty),
                 sign |-> Sign(ex), reduce |-> action = "close"]
<1>1. OrderQty(ex, CommonQty) \in Int /\ OrderQty(ex, CommonQty) > 0
  BY OrderQtyPositive, CommonQtyType
<1>2. o \in OrderType /\ o.state = "open" /\ o.exec # o.qty
      /\ o.qty = OrderQty(ex, CommonQty)
  BY <1>1 DEF OrderType, Sign
<1>3. \/ orders' = orders /\ acked' = acked
      \/ /\ orders' = [orders EXCEPT ![round][ex] = o]
         /\ acked' \in {acked, acked \union {ex}}
  BY DEF Place, Placed
<1> HIDE DEF o
<1>4. /\ UNCHANGED <<stage, round, seen, hedge, pos>>
      /\ stage = "place" /\ todo' \subseteq Ex
  BY DEF Place, Types
<1>5. /\ orders' \in [1 .. Rounds -> [Ex -> OrderType]]
      /\ \A r \in 1 .. Rounds, e \in Ex :
           \/ orders'[r][e] = orders[r][e]
           \/ r = round /\ e = ex /\ orders'[r][e] = o
  <2>1. CASE orders' = orders
    BY <2>1 DEF Types
  <2>2. CASE orders' = [orders EXCEPT ![round][ex] = o]
    BY <1>2, <2>2 DEF Types
  <2> QED BY <1>3, <2>1, <2>2
<1>6. \/ orders' = orders /\ acked' = acked
      \/ orders'[round][ex] = o /\ acked' \in {acked, acked \union {ex}}
  BY <1>3, <1>4 DEF Types
<1>7. Types'
  BY <1>3, <1>4, <1>5 DEF Types
<1>8. OrdersInv'
  BY <1>2, <1>5 DEF OrdersInv
<1>9. StageInv'
  <2>1. round \in 1 .. Rounds
    BY <1>4 DEF Types
  <2>2. \A e \in acked' : orders'[round][e].state # "none"
    BY <1>2, <1>4, <1>5, <1>6, <2>1 DEF StageInv, Types
  <2> QED BY <1>4, <2>2 DEF StageInv
<1>10. SeenInv'
  BY <1>4 DEF SeenInv, StageInv, Unread
<1> QED BY <1>7, <1>8, <1>9, <1>10

(* A cancellation takes an order away or does nothing.                      *)
LEMMA CancelKeeps ==
    ASSUME PairedInv, NEW ex \in Ex, Cancel(ex)
    PROVE  PairedInv'
<1> USE DEF PairedInv
<1> DEFINE o == [orders[round][ex] EXCEPT !.state = "gone"]
<1>1. /\ UNCHANGED <<stage, round, acked, seen, hedge, pos>>
      /\ todo' \subseteq Ex /\ round \in 1 .. Rounds /\ stage # "idle"
  BY DEF Cancel, legVars, Types
<1>2. orders[round][ex] \in OrderType
  BY <1>1 DEF Types
<1>3. /\ o \in OrderType /\ o.state = "gone"
      /\ o.exec = orders[round][ex].exec /\ o.qty = orders[round][ex].qty
  BY <1>2 DEF OrderType
<1>4. orders' = orders \/ orders' = [orders EXCEPT ![round][ex] = o]
  BY DEF Cancel
<1> HIDE DEF o
<1>5. /\ orders' \in [1 .. Rounds -> [Ex -> OrderType]]
      /\ \A r \in 1 .. Rounds, e \in Ex :
           \/ orders'[r][e] = orders[r][e]
           \/ r = round /\ e = ex /\ orders'[r][e] = o
  <2>1. CASE orders' = orders
    BY <2>1 DEF Types
  <2>2. CASE orders' = [orders EXCEPT ![round][ex] = o]
    BY <1>3, <2>2 DEF Types
  <2> QED BY <1>4, <2>1, <2>2
<1>6. Types'
  BY <1>1, <1>5 DEF Types
<1>7. orders[round][ex].state # "none"
  BY <1>1 DEF Cancel, StageInv
<1>8. OrdersInv'
  BY <1>1, <1>3, <1>5, <1>7 DEF OrdersInv
<1>9. StageInv'
  <2>1. todo' \subseteq todo
    BY DEF Cancel
  <2> QED BY <1>1, <1>3, <1>5, <2>1 DEF StageInv, Types
<1>10. SeenInv'
  BY <1>1, <1>3, <1>5 DEF SeenInv
<1> QED BY <1>6, <1>8, <1>9, <1>10

(* A status is read: filled means executed in full, and gone.               *)
LEMMA ReadKeeps ==
    ASSUME PairedInv, NEW ex \in Ex, Read(ex)
    PROVE  PairedInv'
<1> USE DEF PairedInv
<1>1. /\ UNCHANGED <<stage, round, acked, orders, hedge, pos>>
      /\ todo' \subseteq Ex /\ stage \in {"poll", "reread"} /\ round \in 1 .. Rounds
  BY DEF Read, Types
<1> DEFINE o == orders[round][ex]
<1>2. o \in OrderType /\ o.exec \in Int
  BY <1>1 DEF Types, OrderType
<1>3. PICK answer \in Answers(ex) : seen' = [seen EXCEPT ![ex] = answer]
  BY DEF Read
<1>4. \/ answer = [status |-> StatusOf(o), qty |-> Reported(ex, o.exec)]
      \/ answer = [status |-> "rejected", qty |-> 0]
  BY DEF Answers, Order
<1>5. StatusOf(o) \in {"filled", "canceled", "new", "partial"}
  BY DEF StatusOf
<1>6. answer \in SeenType
  <2>1. Reported(ex, o.exec) \in Int
    BY <1>2, ReportedType
  <2> QED BY <1>4, <1>5, <2>1 DEF SeenType
<1>7. answer.status = "filled" => o.exec = o.qty /\ answer.qty = Reported(ex, o.exec)
  BY <1>4 DEF StatusOf
<1>8. o.state \in {"open", "gone"} /\ o.qty = OrderQty(ex, CommonQty)
      /\ (o.state = "open" => o.exec # o.qty)
  <2>1. o.state # "none"
    BY <1>1 DEF StageInv
  <2> QED BY <1>1, <1>2, <2>1 DEF OrdersInv, OrderType
<1>9. Types'
  BY <1>1, <1>3, <1>6 DEF Types
<1>10. OrdersInv' /\ StageInv'
  BY <1>1 DEF OrdersInv, StageInv
<1>11. SeenInv'
  <2> SUFFICES ASSUME NEW e \in Ex, seen'[e].status = "filled"
               PROVE  /\ orders[round][e].exec = OrderQty(e, CommonQty)
                      /\ orders[round][e].state = "gone"
                      /\ seen'[e].qty = Reported(e, OrderQty(e, CommonQty))
    BY <1>1 DEF SeenInv
  <2>1. CASE e = ex
    <3>1. seen'[e] = answer
      BY <1>3, <2>1 DEF Types
    <3> QED BY <1>7, <1>8, <2>1, <3>1
  <2>2. CASE e # ex
    <3>1. seen'[e] = seen[e]
      BY <1>3, <2>2 DEF Types
    <3> QED BY <1>1, <3>1 DEF SeenInv
  <2> QED BY <2>1, <2>2
<1> QED BY <1>9, <1>10, <1>11

(* The steps between the stages, and the deadline.                          *)
LEMMA StagesKeep ==
    ASSUME PairedInv, AllPlaced \/ PollAgain \/ PollingEnds \/ Cancelled \/ Expire
    PROVE  PairedInv'
<1> USE DEF PairedInv
<1>1. Unread \in SeenType /\ Unread.status = "new"
  BY DEF Unread, SeenType
<1>2. CASE AllPlaced
  BY <1>2 DEF AllPlaced, ToWithdraw, legVars, Types, OrdersInv, StageInv, SeenInv
<1>3. CASE Expire
  BY <1>3 DEF Expire, runVars, Types, OrdersInv, StageInv, SeenInv
<1>4. CASE PollingEnds
  BY <1>4 DEF PollingEnds, Unfinished, legVars, Types, OrdersInv, StageInv, SeenInv
<1>5. CASE PollAgain \/ Cancelled
  <2>1. /\ UNCHANGED <<round, acked, orders, hedge, pos>>
        /\ stage \in {"poll", "cancel"} /\ stage' \in {"poll", "reread"} /\ todo' \subseteq Ex
        /\ \E exs \in SUBSET Ex : seen' = Forget(exs)
    BY <1>5 DEF PollAgain, Cancelled, ToReread
  <2>2. /\ seen' \in [Ex -> SeenType]
        /\ \A e \in Ex : seen'[e] \in {seen[e], Unread}
    BY <1>1, <2>1 DEF Forget, Types
  <2>3. Types' /\ OrdersInv' /\ StageInv'
    BY <2>1, <2>2 DEF Types, OrdersInv, StageInv
  <2>4. SeenInv'
    BY <1>1, <2>1, <2>2 DEF SeenInv
  <2> QED BY <2>3, <2>4
<1> QED BY <1>2, <1>3, <1>4, <1>5

(* execute returns or throws.                                               *)
LEMMA LeaveKeeps ==
    ASSUME PairedInv, Leave, UNCHANGED <<round, orders>>,
           hedge' \in [Ex -> Int], pos' \in [Ex -> Int]
    PROVE  PairedInv'
<1> USE DEF PairedInv
<1>1. Unread \in SeenType
  BY DEF Unread, SeenType
<1>2. Types'
  BY <1>1 DEF Leave, Types
<1>3. OrdersInv' /\ StageInv' /\ SeenInv'
  BY DEF Leave, OrdersInv, StageInv, SeenInv
<1> QED BY <1>2, <1>3

(* The hedge is the end of execute and keeps positions whole numbers.     *)
LEMMA HedgeTypes ==
    ASSUME PairedInv, Hedge
    PROVE  /\ Leave /\ UNCHANGED <<round, orders>>
           /\ hedge' \in [Ex -> Int] /\ pos' \in [Ex -> Int]
<1> DEFINE ex == Exposed
           sign == - Sign(ex)
           amount == Smaller(OrderQty(ex, Imbalance), Abs(pos[ex]))
<1>1. ex \in Ex /\ sign \in Int
  BY DEF Exposed, Ex, Sign
<1>2. seen["binance"].qty \in Int /\ seen["okx"].qty \in Int
  BY DEF PairedInv, Types, SeenType, Ex
<1>3. Imbalance \in Int
  BY <1>2 DEF Imbalance, Abs, Bigger
<1>4. pos[ex] \in Int
  BY <1>1 DEF PairedInv, Types
<1>5. amount \in Int
  BY <1>1, <1>3, <1>4, OrderQtyPositive DEF Smaller, Abs, Bigger
<1>6. sign * amount \in Int
  BY <1>1, <1>5
<1>7. \/ UNCHANGED <<hedge, pos>>
      \/ /\ hedge' = [hedge EXCEPT ![ex] = sign * amount]
         /\ pos' = [pos EXCEPT ![ex] = @ + sign * amount]
  BY DEF Hedge
<1>8. Leave /\ UNCHANGED <<round, orders>>
  BY DEF Hedge, Return
<1> HIDE DEF ex, sign, amount
<1>9. hedge' \in [Ex -> Int] /\ pos' \in [Ex -> Int]
  BY <1>4, <1>6, <1>7 DEF PairedInv, Types
<1> QED BY <1>8, <1>9

(* The types, the stages and the statuses are consistent in every state.    *)
THEOREM PairedInvariant == Spec => []PairedInv
<1>1. PairedInv /\ [Next]_vars => PairedInv'
  <2> SUFFICES ASSUME PairedInv, [Next]_vars PROVE PairedInv'
    OBVIOUS
  <2>1. ASSUME NEW a \in {"open", "close"}, Begin(a) PROVE PairedInv'
    BY <2>1, BeginKeeps
  <2>2. ASSUME NEW r \in 1 .. Rounds, NEW ex \in Ex, Fill(r, ex) PROVE PairedInv'
    BY <2>2, FillKeeps
  <2>3. ASSUME NEW ex \in Ex, Place(ex) \/ Cancel(ex) \/ Read(ex) PROVE PairedInv'
    BY <2>3, PlaceKeeps, CancelKeeps, ReadKeeps
  <2>4. CASE AllPlaced \/ PollAgain \/ PollingEnds \/ Cancelled \/ Expire
    BY <2>4, StagesKeep
  <2>5. CASE Reject \/ Finish \/ ReadFails
    BY <2>5, LeaveKeeps DEF Reject, Finish, ReadFails, Return, PairedInv, Types
  <2>6. CASE Hedge
    BY <2>6, HedgeTypes, LeaveKeeps
  <2>7. CASE UNCHANGED vars
    BY <2>7 DEF vars, runVars, legVars, PairedInv, Types, OrdersInv, StageInv, SeenInv
  <2> QED
    BY <2>1, <2>2, <2>3, <2>4, <2>5, <2>6, <2>7 DEF Next, ProgramStep, Done
<1> QED BY PairedInit, <1>1, PTL DEF Spec

-----------------------------------------------------------------------------
(* Two full orders are reported as the same number.                         *)
SameUnit ==
    Reported("binance", OrderQty("binance", CommonQty)) = Reported("okx", OrderQty("okx", CommonQty))

(* They are when a contract of OKX and a step of Binance are one base unit. *)
LEMMA UnitLots == CtVal = 1 /\ Step = 1 /\ CommonQty > 0 => SameUnit
<1> SUFFICES ASSUME CtVal = 1, Step = 1, CommonQty > 0 PROVE SameUnit
  OBVIOUS
<1> DEFINE q == CommonQty
<1>1. q \in Int /\ q > 0
  BY CommonQtyType
<1> HIDE DEF q
<1>2. (2 * q + 1) \div 2 = q /\ q \div 1 = q
  BY <1>1
<1>3. Steps(q) = q /\ Contracts(q) = q
  BY <1>1, <1>2 DEF Steps, Contracts, Bigger
<1>4. OrderQty("binance", q) = q /\ OrderQty("okx", q) = q
  BY <1>1, <1>3 DEF OrderQty
<1>5. Reported("binance", q) = Reported("okx", q)
  BY <1>1, <1>2 DEF Reported
<1> QED BY <1>4, <1>5 DEF SameUnit, q

(* Then two legs read as filled show no imbalance.                          *)
LEMMA FilledLegsMatch ==
    ASSUME SameUnit, PairedInv, stage # "idle", AllFilled
    PROVE  /\ Imbalance = 0
           /\ \A ex \in Ex : orders[round][ex].exec = OrderQty(ex, CommonQty)
<1>1. \A ex \in Ex : /\ orders[round][ex].exec = OrderQty(ex, CommonQty)
                     /\ seen[ex].qty = Reported(ex, OrderQty(ex, CommonQty))
                     /\ seen[ex].qty \in Int
  BY DEF AllFilled, PairedInv, SeenInv, Types, SeenType
<1>2. seen["binance"].qty = seen["okx"].qty /\ seen["binance"].qty \in Int
  BY <1>1 DEF SameUnit, Ex
<1> QED BY <1>1, <1>2 DEF Imbalance, Abs, Bigger

(* The only step that opens the store is the end of a round that filled     *)
(* both orders, and it does not hedge.                                      *)
LEMMA OpeningStep ==
    ASSUME SameUnit, PairedInv, [Next]_vars, ~ isOpen, isOpen'
    PROVE  /\ stage # "idle" /\ AllFilled
           /\ UNCHANGED <<round, orders, hedge>>
<1>1. CASE Reject
  BY <1>1 DEF Reject, Return, RecordsOpen
<1>2. CASE Finish
  BY <1>2 DEF Finish, Return, RecordsOpen
<1>3. CASE Hedge
  <2>1. stage # "idle" /\ Imbalance > 0
    BY <1>3 DEF Hedge
  <2>2. AllFilled
    BY <1>3 DEF Hedge, Return, RecordsOpen
  <2>3. Imbalance = 0
    BY <2>1, <2>2, FilledLegsMatch
  <2> QED BY <2>1, <2>3
<1>4. CASE UNCHANGED isOpen
  BY <1>4
<1>5. Reject \/ Finish \/ Hedge \/ UNCHANGED isOpen
  BY DEF Next, ProgramStep, Done, Begin, Fill, Place, AllPlaced, Cancel, Read, ReadFails, Expire,
         PollAgain, PollingEnds, Cancelled, vars
<1> QED BY <1>1, <1>2, <1>3, <1>4, <1>5

(* In one unit, a recorded open is a full pair, whatever the quantity, the  *)
(* number of calls, the faults and the interleaving.                        *)
THEOREM OpenIsPairedInOneUnit == ASSUME SameUnit PROVE Spec => OpenIsPaired
<1> DEFINE Paired == \A ex \in Ex : ~ isOpen /\ isOpen' => /\ Order(ex)'.exec = OrderQty(ex, CommonQty)
                                                        /\ hedge'[ex] = 0
<1>1. PairedInv /\ [Next]_vars => [Paired]_vars
  <2> SUFFICES ASSUME PairedInv, [Next]_vars, ~ isOpen, isOpen', NEW ex \in Ex
               PROVE  Order(ex)'.exec = OrderQty(ex, CommonQty) /\ hedge'[ex] = 0
    OBVIOUS
  <2>1. stage # "idle" /\ AllFilled /\ UNCHANGED <<round, orders, hedge>>
    BY OpeningStep
  <2>2. orders[round][ex].exec = OrderQty(ex, CommonQty)
    BY <2>1, FilledLegsMatch
  <2>3. hedge[ex] = 0
    BY <2>1 DEF PairedInv, StageInv
  <2> QED BY <2>1, <2>2, <2>3 DEF Order
<1> QED BY <1>1, PairedInvariant, PTL DEF Spec, OpenIsPaired

(* In one unit, the expectation of the test holds in general: two orders    *)
(* executed in full are never hedged.                                       *)
THEOREM FilledIsNotHedgedInOneUnit == ASSUME SameUnit PROVE Spec => FilledIsNotHedged
<1>1. PairedInv /\ [Next]_vars => (Returns /\ AllFilled => ~ result'[1].hedged)
  <2> SUFFICES ASSUME PairedInv, [Next]_vars, Returns, AllFilled
               PROVE  ~ result'[1].hedged
    OBVIOUS
  <2>1. Reject \/ Finish \/ Hedge
    BY DEF Returns, Next, ProgramStep, Done, Begin, Fill, Place, AllPlaced, Cancel, Read, ReadFails,
           Expire, PollAgain, PollingEnds, Cancelled, vars
  <2>2. ASSUME Hedge PROVE FALSE
    <3>1. stage # "idle" /\ Imbalance > 0
      BY <2>2 DEF Hedge
    <3>2. Imbalance = 0
      BY <3>1, FilledLegsMatch
    <3> QED BY <3>1, <3>2
  <2>3. CASE Reject
    BY <2>3 DEF Reject, Return
  <2>4. CASE Finish
    <3>1. Return(AllFilled, ~ AllFilled, FALSE)
      BY <2>4 DEF Finish
    <3>2. result' = <<[ok |-> AllFilled, partialFill |-> ~ AllFilled, hedged |-> FALSE]>>
      BY <3>1 DEF Return
    <3> QED BY <3>2
  <2> QED BY <2>1, <2>2, <2>3, <2>4
<1> QED BY <1>1, PairedInvariant, PTL DEF Spec, FilledIsNotHedged

-----------------------------------------------------------------------------
(* What the end of execute leaves on the exchanges. *)

(* The orders of the call have its direction, and later calls have none.    *)
DirectionInv ==
    /\ \A r \in 1 .. Rounds, ex \in Ex : r > round => orders[r][ex].state = "none"
    /\ stage # "idle" => \A ex \in Ex :
           orders[round][ex].state # "none" => orders[round][ex].sign = Sign(ex)

(* A leg read as filled or cancelled executes nothing any more, so that what*)
(* was reported of it is the last word.                                     *)
FinalInv ==
    stage # "idle" => \A ex \in Ex : seen[ex].status \in {"filled", "canceled"}
        => /\ orders[round][ex].state = "gone"
           /\ seen[ex].qty = Reported(ex, orders[round][ex].exec)

(* A leg read as open after the cancels is open, or was filled since.       *)
OpenInv ==
    stage = "reread" => \A ex \in Ex \ todo : seen[ex].status \in {"new", "partial"}
        => \/ orders[round][ex].state = "open"
           \/ orders[round][ex].exec = orders[round][ex].qty

BalanceInv == DirectionInv /\ FinalInv /\ OpenInv

-----------------------------------------------------------------------------
(* Nothing is running at first. *)
LEMMA BalanceInit == Init => BalanceInv
BY DEF Init, BalanceInv, DirectionInv, FinalInv, OpenInv, NoOrder

(* A fill leaves the direction of an order, and takes it away only when all *)
(* of it is executed.                                                       *)
LEMMA FilledFields ==
    ASSUME NEW o \in OrderType, NEW n \in Int
    PROVE  LET filled == [o EXCEPT !.exec = @ + n,
                                   !.state = IF o.exec + n = o.qty THEN "gone" ELSE "open"]
           IN  /\ filled.sign = o.sign /\ filled.state # "none"
               /\ filled.state = "open" \/ filled.exec = filled.qty
<1> DEFINE exec == o.exec + n
           state == IF o.exec + n = o.qty THEN "gone" ELSE "open"
           once == [o EXCEPT !.exec = exec]
<1>1. state \in {"gone", "open"} /\ (state = "open" \/ exec = o.qty)
  OBVIOUS
<1> HIDE DEF exec, state
<1>2. /\ DOMAIN o = {"state", "exec", "qty", "sign", "reduce"}
  BY DEF OrderType
<1>3. /\ once.exec = exec /\ once.sign = o.sign /\ once.qty = o.qty
      /\ DOMAIN once = DOMAIN o
  BY <1>2
<1> HIDE DEF once
<1>4. /\ [once EXCEPT !.state = state].exec = once.exec
      /\ [once EXCEPT !.state = state].sign = once.sign
      /\ [once EXCEPT !.state = state].qty = once.qty
      /\ [once EXCEPT !.state = state].state = state
  BY <1>2, <1>3
<1>5. [o EXCEPT !.exec = exec, !.state = state] = [once EXCEPT !.state = state]
  BY DEF once
<1> QED  BY <1>1, <1>3, <1>4, <1>5 DEF exec, state

(* A fill disturbs no leg whose status was final.                           *)
LEMMA FillBalances ==
    ASSUME PairedInv, BalanceInv, NEW r \in 1 .. Rounds, NEW ex \in Ex, Fill(r, ex)
    PROVE  BalanceInv'
<1> DEFINE o == orders[r][ex]
           filled == [o EXCEPT !.exec = @ + Lot(ex),
                               !.state = IF o.exec + Lot(ex) = o.qty THEN "gone" ELSE "open"]
<1> USE DEF PairedInv
<1>1. o \in OrderType /\ o.state = "open" /\ Lot(ex) \in Int
  BY ConstantTypes DEF Fill, Types, IsOpenOrder, Lot
<1>2. /\ filled.sign = o.sign /\ filled.state # "none"
      /\ filled.state = "open" \/ filled.exec = filled.qty
  BY <1>1, FilledFields
<1>3. /\ orders' = [orders EXCEPT ![r][ex] = filled]
      /\ UNCHANGED <<stage, todo, round, action, acked, seen>>
  BY DEF Fill, runVars, legVars
<1> HIDE DEF filled
<1>4. \A r1 \in 1 .. Rounds, e1 \in Ex :
         orders'[r1][e1] = IF r1 = r /\ e1 = ex THEN filled ELSE orders[r1][e1]
  BY <1>3 DEF Types
<1>5. round' = round /\ (stage # "idle" => round \in 1 .. Rounds)
  BY <1>3 DEF Types
<1>6. DirectionInv'
  BY <1>1, <1>2, <1>3, <1>4, <1>5 DEF BalanceInv, DirectionInv, Sign
<1>7. FinalInv'
  BY <1>1, <1>3, <1>4, <1>5 DEF BalanceInv, FinalInv
<1>8. OpenInv'
  BY <1>2, <1>3, <1>4, <1>5 DEF BalanceInv, OpenInv
<1> QED  BY <1>6, <1>7, <1>8 DEF BalanceInv

(* A call begins without an order of its own.                               *)
LEMMA BeginBalances ==
    ASSUME PairedInv, BalanceInv, NEW a \in {"open", "close"}, Begin(a)
    PROVE  BalanceInv'
<1> USE DEF PairedInv
<1>1. \A r \in 1 .. Rounds, ex \in Ex :
         orders'[r][ex] = IF orders[r][ex].state = "open" THEN orders[r][ex] ELSE NoOrder
  BY DEF Begin, IsOpenOrder
<1>2. /\ round \in Int /\ round' = round + 1 /\ round' \in 1 .. Rounds
      /\ stage' = "place" /\ \A ex \in Ex : seen'[ex].status = "new"
  BY ConstantTypes DEF Begin, legVars, Types, StageInv, Unread
<1>3. \A r \in 1 .. Rounds, ex \in Ex : r >= round' => orders'[r][ex].state = "none"
  BY <1>1, <1>2 DEF BalanceInv, DirectionInv, NoOrder
<1> QED  BY <1>2, <1>3 DEF BalanceInv, DirectionInv, FinalInv, OpenInv

(* A placement goes in the direction of the call.                           *)
LEMMA PlaceBalances ==
    ASSUME PairedInv, BalanceInv, NEW ex \in Ex, Place(ex)
    PROVE  BalanceInv'
<1> USE DEF PairedInv
<1> DEFINE o == [state |-> "open", exec |-> 0, qty |-> OrderQty(ex, CommonQty),
                 sign |-> Sign(ex), reduce |-> action = "close"]
<1>1. o.sign = Sign(ex)
  OBVIOUS
<1>2. orders' = orders \/ orders' = [orders EXCEPT ![round][ex] = o]
  BY DEF Place, Placed
<1> HIDE DEF o
<1>3. /\ UNCHANGED <<stage, round, action, seen>>
      /\ stage = "place" /\ round \in 1 .. Rounds /\ \A e \in Ex : seen[e].status = "new"
  <2>1. UNCHANGED <<stage, round, action, seen>> /\ stage = "place"
    BY DEF Place
  <2>2. round \in 1 .. Rounds
    BY <2>1 DEF Types
  <2>3. seen = [e \in Ex |-> Unread] /\ Unread.status = "new"
    BY <2>1 DEF StageInv, Unread
  <2> QED  BY <2>1, <2>2, <2>3
<1>4. \A r \in 1 .. Rounds, e \in Ex :
         \/ orders'[r][e] = orders[r][e]
         \/ r = round /\ e = ex /\ orders'[r][e] = o
  <2>1. CASE orders' = orders
    BY <2>1
  <2>2. CASE orders' = [orders EXCEPT ![round][ex] = o]
    BY <2>2 DEF Types
  <2> QED  BY <1>2, <2>1, <2>2
<1>5. DirectionInv'
  BY <1>1, <1>3, <1>4 DEF BalanceInv, DirectionInv, Sign
<1> QED  BY <1>3, <1>5 DEF BalanceInv, FinalInv, OpenInv

(* A cancellation keeps what was executed, and comes before the statuses    *)
(* are read again.                                                          *)
LEMMA CancelBalances ==
    ASSUME PairedInv, BalanceInv, NEW ex \in Ex, Cancel(ex)
    PROVE  BalanceInv'
<1> USE DEF PairedInv
<1> DEFINE o == [orders[round][ex] EXCEPT !.state = "gone"]
<1>1. /\ UNCHANGED <<stage, round, action, acked, seen>>
      /\ round \in 1 .. Rounds /\ stage \in {"withdraw", "cancel"} /\ ex \in acked
  BY DEF Cancel, legVars, Types, StageInv
<1>2. orders[round][ex] \in OrderType /\ orders[round][ex].state # "none"
  BY <1>1 DEF Types, StageInv
<1>3. /\ o.state = "gone"
      /\ o.exec = orders[round][ex].exec /\ o.sign = orders[round][ex].sign
  BY <1>2 DEF OrderType
<1>4. orders' = orders \/ orders' = [orders EXCEPT ![round][ex] = o]
  BY DEF Cancel
<1> HIDE DEF o
<1>5. \A r \in 1 .. Rounds, e \in Ex :
         \/ orders'[r][e] = orders[r][e]
         \/ r = round /\ e = ex /\ orders'[r][e] = o
  <2>1. CASE orders' = orders
    BY <2>1
  <2>2. CASE orders' = [orders EXCEPT ![round][ex] = o]
    BY <2>2 DEF Types
  <2> QED  BY <1>4, <2>1, <2>2
<1>6. DirectionInv'
  BY <1>1, <1>2, <1>3, <1>5 DEF BalanceInv, DirectionInv, Sign
<1>7. FinalInv'
  BY <1>1, <1>3, <1>5 DEF BalanceInv, FinalInv
<1> QED  BY <1>1, <1>6, <1>7 DEF BalanceInv, OpenInv

(* A status that is final is read of an order that is gone.                 *)
LEMMA ReadBalances ==
    ASSUME PairedInv, BalanceInv, NEW ex \in Ex, Read(ex)
    PROVE  BalanceInv'
<1> USE DEF PairedInv
<1> DEFINE o == orders[round][ex]
<1>1. /\ UNCHANGED <<stage, round, action, orders>>
      /\ todo' = todo \ {ex} /\ stage \in {"poll", "reread"} /\ round \in 1 .. Rounds
  BY DEF Read, Types
<1>2. o \in OrderType /\ o.state \in {"open", "gone"}
      /\ (o.state = "open" => o.exec # o.qty)
  <2>1. o \in OrderType /\ o.state # "none"
    BY <1>1 DEF Types, StageInv
  <2> QED  BY <1>1, <2>1 DEF OrdersInv, OrderType
<1>3. PICK answer \in Answers(ex) : seen' = [seen EXCEPT ![ex] = answer]
  BY DEF Read
<1>4. \/ answer.status = StatusOf(o) /\ answer.qty = Reported(ex, o.exec)
      \/ answer.status = "rejected"
  <2>1. \/ answer = [status |-> StatusOf(o), qty |-> Reported(ex, o.exec)]
        \/ answer = [status |-> "rejected", qty |-> 0]
    BY DEF Answers, Order
  <2> QED  BY <2>1
<1>5. /\ answer.status \in {"filled", "canceled"}
           => o.state = "gone" /\ answer.qty = Reported(ex, o.exec)
      /\ answer.status \in {"new", "partial"} => o.state = "open"
  BY <1>2, <1>4 DEF StatusOf, IsOpenOrder
<1>6. \A e \in Ex : seen'[e] = IF e = ex THEN answer ELSE seen[e]
  BY <1>3 DEF Types
<1>7. DirectionInv'
  BY <1>1 DEF BalanceInv, DirectionInv, Sign
<1>8. FinalInv'
  BY <1>1, <1>5, <1>6 DEF BalanceInv, FinalInv
<1>9. OpenInv'
  BY <1>1, <1>5, <1>6 DEF BalanceInv, OpenInv
<1> QED  BY <1>7, <1>8, <1>9 DEF BalanceInv

(* The steps between the stages: what was read before the cancels is        *)
(* forgotten, and nothing is read yet when reading again begins.            *)
LEMMA StagesBalance ==
    ASSUME PairedInv, BalanceInv, AllPlaced \/ PollAgain \/ PollingEnds \/ Cancelled \/ Expire
    PROVE  BalanceInv'
<1> USE DEF PairedInv
<1>1. /\ UNCHANGED <<round, action, orders>>
      /\ stage # "idle" /\ (stage' = stage \/ stage' # "idle")
      /\ stage' = "reread" => todo' = Ex \/ UNCHANGED <<stage, todo, seen>>
      /\ \A ex \in Ex : seen'[ex] = seen[ex] \/ seen'[ex] = Unread
  BY DEF AllPlaced, PollAgain, PollingEnds, Cancelled, Expire, runVars, legVars, Forget, ToReread
<1>2. DirectionInv'
  BY <1>1 DEF BalanceInv, DirectionInv, Sign
<1>3. FinalInv'
  BY <1>1 DEF BalanceInv, FinalInv, Unread
<1>4. OpenInv'
  BY <1>1 DEF BalanceInv, OpenInv
<1> QED  BY <1>2, <1>3, <1>4 DEF BalanceInv

(* execute returns or throws, and there is nothing left to speak of.        *)
LEMMA LeaveBalances ==
    ASSUME BalanceInv, Leave, UNCHANGED <<round, orders>>
    PROVE  BalanceInv'
BY DEF Leave, BalanceInv, DirectionInv, FinalInv, OpenInv

(* Directions and statuses are consistent with the orders in every state.   *)
THEOREM BalanceInvariant == Spec => [](PairedInv /\ BalanceInv)
<1>1. PairedInv /\ BalanceInv /\ [Next]_vars => BalanceInv'
  <2> SUFFICES ASSUME PairedInv, BalanceInv, [Next]_vars PROVE BalanceInv'
    OBVIOUS
  <2>1. ASSUME NEW a \in {"open", "close"}, Begin(a) PROVE BalanceInv'
    BY <2>1, BeginBalances
  <2>2. ASSUME NEW r \in 1 .. Rounds, NEW ex \in Ex, Fill(r, ex) PROVE BalanceInv'
    BY <2>2, FillBalances
  <2>3. ASSUME NEW ex \in Ex, Place(ex) \/ Cancel(ex) \/ Read(ex) PROVE BalanceInv'
    BY <2>3, PlaceBalances, CancelBalances, ReadBalances
  <2>4. CASE AllPlaced \/ PollAgain \/ PollingEnds \/ Cancelled \/ Expire
    BY <2>4, StagesBalance
  <2>5. CASE Reject \/ Finish \/ ReadFails \/ Hedge
    BY <2>5, LeaveBalances DEF Reject, Finish, ReadFails, Hedge, Return
  <2>6. CASE UNCHANGED vars
    BY <2>6 DEF vars, runVars, legVars, BalanceInv, DirectionInv, FinalInv, OpenInv, Sign
  <2> QED
    BY <2>1, <2>2, <2>3, <2>4, <2>5, <2>6 DEF Next, ProgramStep, Done
<1> QED  BY BalanceInit, PairedInvariant, <1>1, PTL DEF Spec

-----------------------------------------------------------------------------
UnitLot == CtVal = 1 /\ Step = 1

(* What was executed is reported as it is, and a quantity ordered as it is. *)
LEMMA UnitsAgree ==
    ASSUME UnitLot, NEW ex \in Ex, NEW n \in Int
    PROVE  /\ Reported(ex, n) = n
           /\ n > 0 => OrderQty(ex, n) = n
<1>1. n \div 1 = n /\ (2 * n + 1) \div 2 = n
  OBVIOUS
<1>2. n > 0 => Steps(n) = n /\ Contracts(n) = n
  BY <1>1 DEF UnitLot, Steps, Contracts, Bigger
<1> QED  BY <1>1, <1>2 DEF UnitLot, Reported, OrderQty

(* The two legs go in opposite directions.                                  *)
LEMMA OppositeSigns ==
    /\ Sign("binance") \in {1, -1} /\ Sign("okx") = - Sign("binance")
<1>1. Buyer = "binance" \/ Buyer = "okx"
  BY PairedAssumption DEF Ex
<1>2. CASE Buyer = "binance"
  BY <1>2 DEF Sign
<1>3. CASE Buyer = "okx"
  BY <1>3 DEF Sign
<1> QED  BY <1>1, <1>2, <1>3

(* Both full orders are reported as the same number.                        *)
LEMMA UnitIsSame == UnitLot => SameUnit
<1> SUFFICES ASSUME UnitLot PROVE SameUnit
  OBVIOUS
<1> DEFINE q == CommonQty
           n == Bigger(1, q)
<1>1. q \in Int /\ n \in Int
  BY CommonQtyType DEF Bigger
<1>2. Steps(q) = n /\ Contracts(q) = n
  <2>1. q \div 1 = q /\ (2 * q + 1) \div 2 = q
    BY <1>1
  <2> QED  BY <1>1, <2>1 DEF UnitLot, Steps, Contracts
<1>3. OrderQty("binance", q) = n /\ OrderQty("okx", q) = n
  BY <1>1, <1>2 DEF OrderQty, UnitLot
<1> QED  BY <1>1, <1>3, UnitsAgree DEF SameUnit, Ex

(* With both legs read as final, what they executed is what is compared, and*)
(* the legs go against each other.                                          *)
LEMMA FinalLegs ==
    ASSUME UnitLot, PairedInv, BalanceInv, stage = "reread",
           \A ex \in Ex : seen[ex].status \in {"filled", "canceled"},
           NEW b, b = orders[round]["binance"], NEW k, k = orders[round]["okx"]
    PROVE  /\ b.exec \in Int /\ k.exec \in Int
           /\ seen["binance"].qty = b.exec /\ seen["okx"].qty = k.exec
           /\ b.sign = Sign("binance") /\ k.sign = Sign("okx")
<1> USE DEF PairedInv
<1>1. round \in 1 .. Rounds
  BY DEF Types
<1>2. b \in OrderType /\ k \in OrderType
  BY <1>1 DEF Types, Ex
<1>3. b.exec \in Int /\ k.exec \in Int
  BY <1>2 DEF OrderType
<1>4. /\ b.state = "gone" /\ k.state = "gone"
      /\ seen["binance"].qty = Reported("binance", b.exec)
      /\ seen["okx"].qty = Reported("okx", k.exec)
  BY DEF BalanceInv, FinalInv, Ex
<1>5. Reported("binance", b.exec) = b.exec /\ Reported("okx", k.exec) = k.exec
  BY <1>3, UnitsAgree DEF Ex
<1>6. b.sign = Sign("binance") /\ k.sign = Sign("okx")
  BY <1>4 DEF BalanceInv, DirectionInv, Ex
<1> QED  BY <1>3, <1>4, <1>5, <1>6

(* Without a difference there is nothing to hedge.                          *)
LEMMA FinishBalances ==
    ASSUME UnitLot, PairedInv, BalanceInv, stage = "reread", Imbalance = 0,
           \A ex \in Ex : seen[ex].status \in {"filled", "canceled"},
           UNCHANGED <<round, orders, hedge>>
    PROVE  Net' = 0
<1> DEFINE b == orders[round]["binance"]
           k == orders[round]["okx"]
           s == Sign("binance")
<1>1. /\ b.exec \in Int /\ k.exec \in Int
      /\ seen["binance"].qty = b.exec /\ seen["okx"].qty = k.exec
      /\ b.sign = Sign("binance") /\ k.sign = Sign("okx")
  BY FinalLegs
<1>2. b.sign = s /\ k.sign = - s /\ s \in {1, -1}
  BY <1>1, OppositeSigns
<1>3. hedge["binance"] = 0 /\ hedge["okx"] = 0
  BY DEF PairedInv, StageInv, Ex
<1>4. Net' = (b.sign * b.exec + hedge["binance"]) + (k.sign * k.exec + hedge["okx"])
  BY DEF Net, Order
<1> HIDE DEF b, k, s
<1>5. b.exec = k.exec
  BY <1>1 DEF Imbalance, Abs, Bigger
<1> QED  BY <1>1, <1>2, <1>3, <1>4, <1>5

(* The hedge takes away the difference, or all there is of the leg ahead.   *)
LEMMA HedgeBalances ==
    ASSUME UnitLot, PairedInv, BalanceInv, stage = "reread", Imbalance > 0,
           \A ex \in Ex : seen[ex].status \in {"filled", "canceled"},
           NEW amount, amount = Smaller(OrderQty(Exposed, Imbalance), Abs(pos[Exposed])),
           Reduces(Exposed, - Sign(Exposed)),
           hedge' = [hedge EXCEPT ![Exposed] = (- Sign(Exposed)) * amount],
           pos' = [pos EXCEPT ![Exposed] = @ + (- Sign(Exposed)) * amount],
           UNCHANGED <<round, orders>>
    PROVE  Net' = 0 \/ pos'[Exposed] = 0
<1> DEFINE b == orders[round]["binance"]
           k == orders[round]["okx"]
           s == Sign("binance")
<1> USE DEF PairedInv
<1>1. /\ b.exec \in Int /\ k.exec \in Int
      /\ seen["binance"].qty = b.exec /\ seen["okx"].qty = k.exec
      /\ b.sign = Sign("binance") /\ k.sign = Sign("okx")
  BY FinalLegs
<1>2. b.sign = s /\ k.sign = - s /\ s \in {1, -1}
  BY <1>1, OppositeSigns
<1>3. hedge \in [Ex -> Int] /\ pos \in [Ex -> Int] /\ \A ex \in Ex : hedge[ex] = 0
  BY DEF Types, StageInv
<1>4. Net' = (b.sign * b.exec + hedge'["binance"]) + (k.sign * k.exec + hedge'["okx"])
  BY DEF Net, Order
<1> HIDE DEF b, k, s
<1>5. Imbalance \in Int /\ OrderQty(Exposed, Imbalance) = Imbalance /\ Exposed \in Ex
  <2>1. Imbalance \in Int /\ Exposed \in Ex
    BY <1>1 DEF Imbalance, Abs, Bigger, Exposed, Ex
  <2> QED  BY <2>1, UnitsAgree
<1>6. CASE Exposed = "binance"
  <2>1. Imbalance = b.exec - k.exec
    BY <1>1, <1>6 DEF Imbalance, Abs, Bigger, Exposed
  <2>2. hedge'["binance"] = (- s) * amount /\ hedge'["okx"] = 0
    BY <1>3, <1>6 DEF Ex, s
  <2>3. pos'["binance"] = pos["binance"] + (- s) * amount /\ pos["binance"] \in Int
    BY <1>3, <1>6 DEF Ex, s
  <2>4. (- s) * pos["binance"] < 0
    BY <1>6 DEF Reduces, s
  <2>5. CASE amount = Imbalance
    BY <1>1, <1>2, <1>4, <2>1, <2>2, <2>5
  <2>6. CASE amount = Abs(pos["binance"])
    BY <1>2, <1>6, <2>3, <2>4, <2>6 DEF Abs, Bigger
  <2> QED  BY <1>5, <1>6, <2>5, <2>6 DEF Smaller
<1>7. CASE Exposed = "okx"
  <2>1. Imbalance = k.exec - b.exec
    BY <1>1, <1>7 DEF Imbalance, Abs, Bigger, Exposed
  <2>2. Sign("okx") = - s
    BY OppositeSigns DEF s
  <2>3. hedge'["okx"] = s * amount /\ hedge'["binance"] = 0
    BY <1>2, <1>3, <1>7, <2>2 DEF Ex
  <2>4. pos'["okx"] = pos["okx"] + s * amount /\ pos["okx"] \in Int
    BY <1>2, <1>3, <1>7, <2>2 DEF Ex
  <2>5. s * pos["okx"] < 0
    BY <1>2, <1>7, <2>2, <2>4 DEF Reduces
  <2>6. CASE amount = Imbalance
    BY <1>1, <1>2, <1>4, <2>1, <2>3, <2>6
  <2>7. CASE amount = Abs(pos["okx"])
    BY <1>2, <1>7, <2>4, <2>5, <2>7 DEF Abs, Bigger
  <2> QED  BY <1>5, <1>7, <2>6, <2>7 DEF Smaller
<1> QED  BY <1>5, <1>6, <1>7 DEF Ex
(* What Return leaves to the caller.                                        *)
LEMMA ResultOf ==
    ASSUME NEW ok, NEW partialFill, NEW hedged, Return(ok, partialFill, hedged)
    PROVE  result'[1].ok = ok
<1>1. result' = <<[ok |-> ok, partialFill |-> partialFill, hedged |-> hedged]>>
  BY DEF Return
<1> QED  BY <1>1

(* However fills, cancels and reads interleave, and whatever fails: when    *)
(* execute returns ok, no leg that it reports as open has been cancelled,   *)
(* and with both legs reported filled or cancelled nothing of the call is   *)
(* open and the two sides executed the same, the hedge included, unless the *)
(* leg that was ahead is flat.                                              *)
THEOREM OkIsBalancedInOneUnit == ASSUME UnitLot PROVE Spec => OkIsBalanced
<1> DEFINE Balanced ==
        /\ \A ex \in Unfinished : StatusOf(Order(ex)) # "canceled"
        /\ (\A ex \in Ex : seen[ex].status \in {"filled", "canceled"})
              => /\ \A ex \in Ex : ~ IsOpenOrder(Order(ex)')
                 /\ Net' = 0 \/ pos'[Exposed] = 0
<1>1. PairedInv /\ BalanceInv /\ [Next]_vars => (Returns /\ result'[1].ok => Balanced)
  <2> SUFFICES ASSUME PairedInv, BalanceInv, [Next]_vars, Returns, result'[1].ok
               PROVE  Balanced
    OBVIOUS
  <2>1. Finish \/ Hedge
    <3>1. Reject \/ Finish \/ Hedge
      BY DEF Returns, Next, ProgramStep, Done, Begin, Fill, Place, AllPlaced, Cancel, Read,
             ReadFails, Expire, PollAgain, PollingEnds, Cancelled, vars
    <3>2. CASE Reject
      BY <3>2, ResultOf DEF Reject
    <3> QED  BY <3>1, <3>2
  <2>2. /\ stage = "reread" /\ todo = {} /\ UNCHANGED <<round, orders>>
        /\ acked = Ex /\ round \in 1 .. Rounds
    BY <2>1 DEF Finish, Hedge, Return, PairedInv, StageInv, Types
  <2>3. \A ex \in Unfinished : StatusOf(Order(ex)) # "canceled"
    BY <2>2 DEF Unfinished, BalanceInv, OpenInv, StatusOf, IsOpenOrder, Order
  <2>4. ASSUME \A ex \in Ex : seen[ex].status \in {"filled", "canceled"}
        PROVE  /\ \A ex \in Ex : ~ IsOpenOrder(Order(ex)')
               /\ Net' = 0 \/ pos'[Exposed] = 0
    <3>1. \A ex \in Ex : orders[round][ex].state = "gone"
      BY <2>2, <2>4 DEF BalanceInv, FinalInv
    <3>2. \A ex \in Ex : ~ IsOpenOrder(Order(ex)')
      BY <2>2, <3>1 DEF IsOpenOrder, Order
    <3>3. CASE Finish
      BY <2>2, <2>4, <3>2, <3>3, FinishBalances DEF Finish
    <3>4. CASE Hedge
      <4>1. Imbalance > 0
        BY <3>4 DEF Hedge
      <4>2. ~ AllFilled
        BY <2>2, <4>1, UnitIsSame, FilledLegsMatch
      <4> DEFINE amount == Smaller(OrderQty(Exposed, Imbalance), Abs(pos[Exposed]))
      <4>3. ~ Return(AllFilled, ~ AllFilled, FALSE)
        <5>1. Return(AllFilled, ~ AllFilled, FALSE) => result'[1].ok = AllFilled
          BY ResultOf
        <5> QED  BY <4>2, <5>1
      <4>4. /\ Reduces(Exposed, - Sign(Exposed))
            /\ hedge' = [hedge EXCEPT ![Exposed] = (- Sign(Exposed)) * amount]
            /\ pos' = [pos EXCEPT ![Exposed] = @ + (- Sign(Exposed)) * amount]
        BY <3>4, <4>3 DEF Hedge
      <4> HIDE DEF amount
      <4>5. Net' = 0 \/ pos'[Exposed] = 0
        BY <2>2, <2>4, <4>1, <4>4, HedgeBalances DEF amount
      <4> QED  BY <3>2, <4>5
    <3> QED  BY <2>1, <3>2, <3>3, <3>4
  <2> QED  BY <2>3, <2>4
<1>2. PairedInv /\ BalanceInv /\ [Next]_vars => [Returns /\ result'[1].ok => Balanced]_vars
  BY <1>1
<1> QED  BY <1>2, BalanceInvariant, PTL DEF Spec, OkIsBalanced

-----------------------------------------------------------------------------
(* Fills come in lots, and an order is a number of lots: that is why the    *)
(* last fill ends an order exactly, and none goes beyond it.                *)
InLots(ex, o) ==
    \E m, n \in Nat : /\ o.exec = Lot(ex) * m /\ o.qty = Lot(ex) * n
                      /\ m <= n /\ (o.state = "open" => m < n)

LotsInv == \A r \in 1 .. Rounds, ex \in Ex : InLots(ex, orders[r][ex])

FlagsInv ==
    /\ stage = "idle" => todo = {}
    /\ action \in {"open", "close"} /\ expired \in BOOLEAN /\ isOpen \in BOOLEAN

CountInv == LotsInv /\ FlagsInv

LEMMA LotTimes ==
    ASSUME NEW l \in Nat \ {0}, NEW m \in Nat, NEW n \in Nat, m < n
    PROVE  l * m \in Nat /\ l * n \in Nat /\ l * m + l = l * (m + 1) /\ l * m < l * n
<1>1. l * m \in Nat /\ l * n \in Nat /\ l * m + l = l * (m + 1)
  OBVIOUS
<1>2. n - m \in Nat \ {0} /\ l * n = l * m + l * (n - m)
  OBVIOUS
<1>3. l * (n - m) >= 1
  BY <1>2, ProductPositive
<1>4. PICK d \in Int : d = l * (n - m)
  BY <1>2
<1> QED BY <1>1, <1>2, <1>3, <1>4

LEMMA LotType == \A ex \in Ex : Lot(ex) \in Nat \ {0}
  BY ConstantTypes DEF Lot

LEMMA NoOrderInLots == \A ex \in Ex : InLots(ex, NoOrder)
<1> SUFFICES ASSUME NEW ex \in Ex PROVE InLots(ex, NoOrder)
  OBVIOUS
<1>1. NoOrder.exec = Lot(ex) * 0 /\ NoOrder.qty = Lot(ex) * 0 /\ NoOrder.state # "open"
  BY LotType DEF NoOrder
<1> QED BY <1>1 DEF InLots

(* A new order is at least one lot.                                         *)
LEMMA OrderInLots ==
    ASSUME NEW q \in Int, NEW ex \in Ex
    PROVE  \E n \in Nat \ {0} : OrderQty(ex, q) = Lot(ex) * n
<1>1. Bigger(1, q \div Step) \in Nat \ {0}
  BY ConstantTypes DEF Bigger
<1>2. Contracts(q) \in Nat \ {0}
  <2>1. 2 * CtVal \in Nat \ {0} /\ 2 * q + CtVal \in Int
    BY ConstantTypes
  <2>2. (2 * q + CtVal) \div (2 * CtVal) \in Int
    BY <2>1
  <2> QED BY <2>2 DEF Contracts, Bigger
<1>3. CASE ex = "binance"
  BY <1>1, <1>3 DEF OrderQty, Steps, Lot
<1>4. CASE ex # "binance"
  BY <1>2, <1>4 DEF OrderQty, Lot
<1> QED BY <1>3, <1>4

LEMMA CountInit == Init => CountInv
<1> SUFFICES ASSUME Init PROVE CountInv
  OBVIOUS
<1>1. LotsInv
  BY NoOrderInLots DEF Init, LotsInv
<1>2. FlagsInv
  BY DEF Init, FlagsInv
<1> QED BY <1>1, <1>2 DEF CountInv

(* The order after a fill, a cancellation or a placement.                   *)
LEMMA FillInLots ==
    ASSUME PairedInv, LotsInv, NEW r \in 1 .. Rounds, NEW ex \in Ex, Fill(r, ex)
    PROVE  LotsInv'
<1> DEFINE o == orders[r][ex]
           filled == [o EXCEPT !.exec = @ + Lot(ex),
                               !.state = IF o.exec + Lot(ex) = o.qty THEN "gone" ELSE "open"]
<1>1. o \in OrderType /\ o.state = "open" /\ Lot(ex) \in Nat \ {0} /\ Lot(ex) \in Int
  BY LotType DEF Fill, PairedInv, Types, IsOpenOrder
<1>2. filled.exec = o.exec + Lot(ex) /\ filled.qty = o.qty
      /\ (filled.state = "open" => filled.exec # filled.qty)
  BY <1>1, FilledOrder
<1>3. orders' = [orders EXCEPT ![r][ex] = filled]
  BY DEF Fill
<1> HIDE DEF filled
<1>4. \A r1 \in 1 .. Rounds, e1 \in Ex :
         orders'[r1][e1] = IF r1 = r /\ e1 = ex THEN filled ELSE orders[r1][e1]
  BY <1>3 DEF PairedInv, Types
<1>5. PICK m \in Nat, n \in Nat :
         /\ o.exec = Lot(ex) * m /\ o.qty = Lot(ex) * n
         /\ m <= n /\ (o.state = "open" => m < n)
  BY DEF LotsInv, InLots
<1>6. filled.exec = Lot(ex) * (m + 1) /\ filled.qty = Lot(ex) * n
  BY <1>1, <1>2, <1>5, LotTimes
<1>7. filled.state = "open" => m + 1 # n
  BY <1>2, <1>6
<1>8. m + 1 \in Nat /\ m + 1 <= n /\ (filled.state = "open" => m + 1 < n)
  BY <1>1, <1>5, <1>7
<1>9. InLots(ex, filled)
  BY <1>5, <1>6, <1>8 DEF InLots
<1> QED BY <1>4, <1>9 DEF LotsInv

LEMMA PlaceInLots ==
    ASSUME PairedInv, LotsInv, NEW ex \in Ex, Place(ex)
    PROVE  LotsInv'
<1> DEFINE o == [state |-> "open", exec |-> 0, qty |-> OrderQty(ex, CommonQty),
                 sign |-> Sign(ex), reduce |-> action = "close"]
<1>1. InLots(ex, o)
  <2>1. PICK n \in Nat \ {0} : OrderQty(ex, CommonQty) = Lot(ex) * n
    BY OrderInLots, CommonQtyType
  <2>2. o.exec = 0 /\ o.qty = Lot(ex) * n /\ 0 = Lot(ex) * 0
    BY <2>1, LotType
  <2>3. 0 \in Nat /\ n \in Nat /\ 0 < n
    OBVIOUS
  <2> HIDE DEF o
  <2> QED BY <2>2, <2>3 DEF InLots
<1>2. orders' = orders \/ orders' = [orders EXCEPT ![round][ex] = o]
  BY DEF Place, Placed
<1> HIDE DEF o
<1>3. \A r \in 1 .. Rounds, e \in Ex : orders'[r][e] = orders[r][e] \/ (e = ex /\ orders'[r][e] = o)
  <2>1. CASE orders' = orders
    BY <2>1
  <2>2. CASE orders' = [orders EXCEPT ![round][ex] = o]
    BY <2>2 DEF PairedInv, Types
  <2> QED BY <1>2, <2>1, <2>2
<1> QED BY <1>1, <1>3 DEF LotsInv

LEMMA CancelInLots ==
    ASSUME PairedInv, LotsInv, NEW ex \in Ex, Cancel(ex)
    PROVE  LotsInv'
<1> DEFINE o == [orders[round][ex] EXCEPT !.state = "gone"]
<1>1. round \in 1 .. Rounds
  BY DEF Cancel, PairedInv, Types
<1>2. orders[round][ex] \in OrderType
  BY <1>1 DEF PairedInv, Types
<1>3. o.state = "gone" /\ o.exec = orders[round][ex].exec /\ o.qty = orders[round][ex].qty
  BY <1>2 DEF OrderType
<1>4. orders' = orders \/ orders' = [orders EXCEPT ![round][ex] = o]
  BY DEF Cancel
<1> HIDE DEF o
<1>5. InLots(ex, o)
  BY <1>1, <1>3 DEF LotsInv, InLots
<1>6. \A r \in 1 .. Rounds, e \in Ex : orders'[r][e] = orders[r][e] \/ (e = ex /\ orders'[r][e] = o)
  <2>1. CASE orders' = orders
    BY <2>1
  <2>2. CASE orders' = [orders EXCEPT ![round][ex] = o]
    BY <2>2 DEF PairedInv, Types
  <2> QED BY <1>4, <2>1, <2>2
<1> QED BY <1>5, <1>6 DEF LotsInv

LEMMA LotsStep == PairedInv /\ LotsInv /\ [Next]_vars => LotsInv'
<1> SUFFICES ASSUME PairedInv, LotsInv, [Next]_vars PROVE LotsInv'
  OBVIOUS
<1>1. ASSUME UNCHANGED orders PROVE LotsInv'
  BY <1>1 DEF LotsInv
<1>2. ASSUME NEW a \in {"open", "close"}, Begin(a) PROVE LotsInv'
  <2>1. \A r \in 1 .. Rounds, ex \in Ex : orders'[r][ex] \in {orders[r][ex], NoOrder}
    BY <1>2 DEF Begin
  <2> QED BY <2>1, NoOrderInLots DEF LotsInv
<1>3. ASSUME NEW r \in 1 .. Rounds, NEW ex \in Ex, Fill(r, ex) PROVE LotsInv'
  BY <1>3, FillInLots
<1>4. ASSUME NEW ex \in Ex, Place(ex) PROVE LotsInv'
  BY <1>4, PlaceInLots
<1>5. ASSUME NEW ex \in Ex, Cancel(ex) PROVE LotsInv'
  BY <1>5, CancelInLots
<1>6. ASSUME NEW ex \in Ex, Read(ex) PROVE LotsInv'
  BY <1>1, <1>6 DEF Read
<1>7. CASE \/ AllPlaced \/ PollAgain \/ PollingEnds \/ Cancelled \/ Expire
           \/ Reject \/ Finish \/ ReadFails \/ Hedge \/ UNCHANGED vars
  BY <1>1, <1>7 DEF AllPlaced, PollAgain, PollingEnds, Cancelled, Expire, Reject, Finish,
                    ReadFails, Hedge, vars
<1> QED BY <1>2, <1>3, <1>4, <1>5, <1>6, <1>7 DEF Next, ProgramStep, Done

LEMMA FlagsStep == FlagsInv /\ [Next]_vars => FlagsInv'
<1> SUFFICES ASSUME FlagsInv, [Next]_vars PROVE FlagsInv'
  OBVIOUS
<1>1. ASSUME NEW a \in {"open", "close"}, Begin(a) PROVE FlagsInv'
  BY <1>1 DEF Begin, FlagsInv, legVars
<1>2. ASSUME NEW r \in 1 .. Rounds, NEW ex \in Ex, Fill(r, ex) PROVE FlagsInv'
  BY <1>2 DEF Fill, FlagsInv, runVars, legVars
<1>3. ASSUME NEW ex \in Ex, Place(ex) \/ Cancel(ex) \/ Read(ex) PROVE FlagsInv'
  BY <1>3 DEF Place, Cancel, Read, FlagsInv, legVars
<1>4. CASE AllPlaced \/ PollAgain \/ PollingEnds \/ Cancelled
  BY <1>4 DEF AllPlaced, PollAgain, PollingEnds, Cancelled, FlagsInv, legVars
<1>5. CASE Expire \/ UNCHANGED vars
  BY <1>5 DEF Expire, vars, runVars, legVars, FlagsInv
<1>6. CASE ReadFails
  BY <1>6 DEF ReadFails, Leave, FlagsInv
<1>7. ASSUME NEW ok, NEW partialFill, NEW hedged, Return(ok, partialFill, hedged),
             ok \in BOOLEAN, partialFill \in BOOLEAN, hedged \in BOOLEAN
      PROVE  FlagsInv'
  <2>1. stage' = "idle" /\ todo' = {} /\ expired' = FALSE /\ action' = action
    BY <1>7 DEF Return, Leave
  <2>2. isOpen' \in BOOLEAN
    BY <1>7 DEF Return, RecordsOpen, FlagsInv
  <2> QED BY <2>1, <2>2 DEF FlagsInv
<1>8. AllFilled \in BOOLEAN /\ (~ AllFilled) \in BOOLEAN
  BY DEF AllFilled
<1>9. CASE Reject
  BY <1>7, <1>9 DEF Reject
<1>10. CASE Finish
  BY <1>7, <1>8, <1>10 DEF Finish
<1>11. CASE Hedge
  BY <1>7, <1>8, <1>11 DEF Hedge
<1> QED BY <1>1, <1>2, <1>3, <1>4, <1>5, <1>6, <1>9, <1>10, <1>11 DEF Next, ProgramStep, Done

LEMMA PairedTypes == PairedInv /\ CountInv => TypeOK
<1> SUFFICES ASSUME PairedInv, CountInv PROVE TypeOK
  OBVIOUS
<1>1. ASSUME NEW r \in 1 .. Rounds, NEW ex \in Ex
      PROVE  /\ orders[r][ex].state \in {"none", "open", "gone"}
             /\ orders[r][ex].exec \in 0 .. orders[r][ex].qty
             /\ IsOpenOrder(orders[r][ex]) => orders[r][ex].exec < orders[r][ex].qty
  <2>1. orders[r][ex] \in OrderType
    BY DEF PairedInv, Types
  <2>2. PICK m \in Nat, n \in Nat :
           /\ orders[r][ex].exec = Lot(ex) * m /\ orders[r][ex].qty = Lot(ex) * n
           /\ m <= n /\ (orders[r][ex].state = "open" => m < n)
    BY DEF CountInv, LotsInv, InLots
  <2>3. CASE m < n
    <3>1. orders[r][ex].exec \in Nat /\ orders[r][ex].qty \in Nat
          /\ orders[r][ex].exec < orders[r][ex].qty
      BY <2>2, <2>3, LotType, LotTimes
    <3> QED BY <2>1, <3>1 DEF OrderType
  <2>4. CASE m = n
    <3>1. Lot(ex) * n \in Nat
      BY LotType
    <3> QED BY <2>1, <2>2, <2>4, <3>1 DEF OrderType, IsOpenOrder
  <2> QED BY <2>2, <2>3, <2>4
<1>2. \A ex \in Ex : seen[ex].status \in {"new", "partial", "filled", "canceled", "rejected"}
  BY DEF PairedInv, Types, SeenType
<1> QED BY <1>1, <1>2 DEF PairedInv, Types, StageInv, CountInv, FlagsInv, TypeOK

(* No order is executed beyond its size, and one that is open has something *)
(* left, whatever the step and the contract value: execute compares sizes   *)
(* and fills in different units, and the exchanges fill by the lot.         *)
THEOREM PairedTypeOK == Spec => []TypeOK
<1>1. CountInv /\ PairedInv /\ [Next]_vars => CountInv'
  BY LotsStep, FlagsStep DEF CountInv
<1>2. Spec => []CountInv
  BY CountInit, PairedInvariant, <1>1, PTL DEF Spec
<1> QED BY <1>2, PairedInvariant, PairedTypes, PTL
=============================================================================
