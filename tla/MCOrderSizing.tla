--------------------------- MODULE MCOrderSizing ---------------------------
(***************************************************************************)
(* Quantities in hundredths: a step of the key, of Binance and a contract  *)
(* of OKX that do not divide one another, so that every rounding bites;    *)
(* prices on grids of 2 and 3, and two snapshots of which the second has   *)
(* moved up.                                                               *)
(***************************************************************************)
EXTENDS OrderSizing

Quote(bnBid, bnAsk, okxBid, okxAsk) ==
    [ex \in Exchanges |-> IF ex = "bn" THEN [bid |-> bnBid, ask |-> bnAsk]
                                       ELSE [bid |-> okxBid, ask |-> okxAsk]]
MCQuotes == {Quote(20000, 20004, 19990, 19995), Quote(20006, 20009, 20010, 20011)}
MCTicks == [ex \in Exchanges |-> IF ex = "bn" THEN 2 ELSE 3]
=============================================================================
