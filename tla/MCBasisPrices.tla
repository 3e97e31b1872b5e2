--------------------------- MODULE MCBasisPrices ---------------------------
(***************************************************************************)
(* The order session, or the screens with the price subscription behind    *)
(* them, one of them at a time: of the prices the session reads only       *)
(* whether they are usable, which BasisOrder lets change at any moment, and*)
(* of the session the screens show only its texts.  The other is at rest,  *)
(* the session idle, the subscription closed.                              *)
(*                                                                         *)
(* Screens: two symbols, a search that matches both, one or neither.       *)
(***************************************************************************)
EXTENDS MCBasisOrder, PriceFeed

VARIABLE part

MCSearches == {Symbols, {2}, {}}

PricesAtRest ==
    /\ nats = "closed"
    /\ found = {} /\ search = Symbols /\ cursor = 0
    /\ view = "SYMBOL_SELECT" /\ chosen = Configured
    /\ discovery = [sub |-> FALSE, running |-> FALSE, lost |-> 0, ending |-> 0]
    /\ active = Configured /\ prices = None /\ held = FALSE /\ late = {}
    /\ snapshot = None /\ positions = None /\ asked = {}

MCInit ==
    \/ part = "session" /\ Init /\ PricesAtRest
    \/ part = "prices" /\ Init /\ PriceInit

PricesAreClosed == nats = "closed" /\ UNCHANGED priceVars

MCNext ==
    /\ UNCHANGED part
    /\ \/ part = "session" /\ Next /\ UNCHANGED priceVars
       \/ part = "prices" /\ (PriceNext \/ PricesAreClosed) /\ UNCHANGED vars

MCSpec == MCInit /\ [][MCNext]_<<part, vars, priceVars>> /\ Fairness /\ PriceFairness
=============================================================================
