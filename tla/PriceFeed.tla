------------------------------ MODULE PriceFeed ------------------------------
(***************************************************************************)
(* What basis-cli shows: SpreadSubscriber (nats/spreadSubscriber.ts) with  *)
(* its two subscriptions - a wildcard one that discovers symbols and one   *)
(* for the prices of the active symbol -, the snapshot of PriceFeed and the*)
(* screens of AppStateManager, which start and stop them.                  *)
(*                                                                         *)
(* A subscription is read by a loop of its own.  The loop hands control    *)
(* back at every hundredth message, keys are handled then, and messages    *)
(* that were buffered are still handled after an unsubscribe.  So a loop   *)
(* ends some time after its subscription.                                  *)
(*                                                                         *)
(* Abstractions.  A symbol is a number, in the order of the list.  Of a    *)
(* snapshot only its symbol is kept, of the search input what it matches.  *)
(* The session is IDLE when the user goes back (keyHandler.ts sees to it). *)
(* A connect() that fails ends the program and is left out.                *)
(***************************************************************************)
EXTENDS Integers, FiniteSets

CONSTANTS
    Symbols,    \* the symbols the monitor publishes
    Configured, \* the symbol of NATS_SUBJECT and --symbol
    Searches,   \* the sets of symbols a search input may match
    MaxEnding   \* bound: discovery loops that outlive their subscription

None == 0

ASSUME PriceAssumption ==
    /\ IsFiniteSet(Symbols) /\ Symbols \subseteq Nat \ {0}
    /\ Configured \in Symbols
    /\ Searches \subseteq SUBSET Symbols /\ Symbols \in Searches
    /\ MaxEnding \in Nat

VARIABLES
    nats,      \* connecting, up, down or closed
    found,     \* symbolList
    search,    \* what searchInput matches; all of them when it is empty
    cursor,    \* selectedIndex
    view,      \* SYMBOL_SELECT or DASHBOARD
    chosen,    \* state.symbol
    discovery, \* discoverySub, discoveryRunning, and the loops behind them
    active,    \* activeSymbol
    prices,    \* the symbol of priceSub
    held,      \* its loop has handed back control, with messages to come
    late,      \* symbols of loops that outlive their subscription
    snapshot,  \* the symbol of the snapshot in PriceFeed
    positions, \* the symbol of the positions shown
    asked      \* symbols of the position polls in flight

screenVars == <<found, search, cursor, view, chosen>>
loopVars == <<discovery, active, prices, held, late>>
priceVars == <<nats, screenVars, loopVars, snapshot, positions, asked>>

PriceInit ==
    /\ nats = "connecting"
    /\ found = {} /\ search = Symbols /\ cursor = 0
    /\ view = "SYMBOL_SELECT" /\ chosen = Configured
    /\ discovery = [sub |-> FALSE, running |-> FALSE, lost |-> 0, ending |-> 0]
    /\ active = Configured /\ prices = None /\ held = FALSE /\ late = {}
    /\ snapshot = None /\ positions = None /\ asked = {}

-----------------------------------------------------------------------------
(* The two subscriptions. *)

(* Mutant: the flag is trusted to be true of a paused discovery as well. *)
PausedLeavesFlag(d) ==
    IF d.sub THEN [d EXCEPT !.sub = FALSE, !.ending = @ + 1] ELSE d

(* pauseDiscovery *)
Paused(d) ==
    [d EXCEPT !.sub = FALSE, !.running = FALSE,
              !.ending = IF d.sub THEN @ + 1 ELSE @]

(* resumeDiscovery: a handle that is still there would be overwritten.      *)
Resumed(d) ==
    IF d.running THEN d
    ELSE [d EXCEPT !.sub = TRUE, !.running = TRUE, !.lost = IF d.sub THEN @ + 1 ELSE @]

(* unsubscribe: a loop that has been held back goes on for a while.         *)
Outliving == IF prices # None /\ held THEN late \union {prices} ELSE late

Connect ==
    /\ nats = "connecting"
    /\ nats' = "up"
    /\ discovery' = Resumed(discovery)
    /\ prices' = active
    /\ UNCHANGED <<screenVars, active, held, late, snapshot, positions, asked>>

(* The client library subscribes again after a lost connection.             *)
LoseNats ==
    /\ nats = "up"
    /\ nats' = "down"
    /\ UNCHANGED <<screenVars, loopVars, snapshot, positions, asked>>

RegainNats ==
    /\ nats = "down"
    /\ nats' = "up"
    /\ UNCHANGED <<screenVars, loopVars, snapshot, positions, asked>>

(* close() of a shutdown: every loop breaks at its next message.            *)
CloseSubscriber ==
    /\ nats \in {"up", "down"}
    /\ nats' = "closed"
    /\ discovery' = Paused(discovery)
    /\ prices' = None /\ held' = FALSE /\ late' = {} /\ asked' = {}
    /\ UNCHANGED <<screenVars, active, snapshot, positions>>

-----------------------------------------------------------------------------
(* The symbol list and its cursor. *)

Filtered == found \intersect search

InRange(index, list) ==
    IF index < Cardinality(list) THEN index
    ELSE IF list = {} THEN 0 ELSE Cardinality(list) - 1

(* The list is sorted: the symbol under the cursor has so many before it.   *)
UnderCursor == CHOOSE s \in Filtered : Cardinality({t \in Filtered : t < s}) = cursor

(* addDiscoveredSymbol, by the live loop or by one that is ending.          *)
Discover(s) ==
    /\ nats = "up" /\ (discovery.sub \/ discovery.ending > 0)
    /\ found' = found \union {s}
    /\ cursor' = InRange(cursor, found' \intersect search)
    /\ UNCHANGED <<nats, search, view, chosen, loopVars, snapshot, positions, asked>>

(* The end of any discovery loop, whoever has resumed since.                *)
DiscoveryEnds ==
    /\ discovery.ending > 0
    /\ discovery' = [discovery EXCEPT !.ending = @ - 1, !.running = FALSE]
    /\ UNCHANGED <<nats, screenVars, active, prices, held, late, snapshot, positions, asked>>

(* A key of the search input, or Escape, which empties it.                  *)
Search(q) ==
    /\ view = "SYMBOL_SELECT" /\ q # search
    /\ search' = q
    /\ cursor' = 0
    /\ UNCHANGED <<nats, found, view, chosen, loopVars, snapshot, positions, asked>>

MoveCursor(delta) ==
    /\ view = "SYMBOL_SELECT" /\ Filtered # {}
    /\ cursor' = (cursor + delta) % Cardinality(Filtered)
    /\ UNCHANGED <<nats, found, search, view, chosen, loopVars, snapshot, positions, asked>>

-----------------------------------------------------------------------------
(* From one screen to the other. *)

(* selectSymbol: the snapshot is cleared, discovery paused, the price       *)
(* subscription switched (to nothing yet while NATS is connecting), and the *)
(* positions are asked for.                                                 *)
Select ==
    /\ view = "SYMBOL_SELECT" /\ Filtered # {} /\ nats # "closed"
    /\ discovery.ending < MaxEnding
    /\ view' = "DASHBOARD"
    /\ chosen' = UnderCursor /\ active' = UnderCursor
    /\ snapshot' = None /\ positions' = None
    /\ discovery' = Paused(discovery)
    /\ prices' = IF nats = "connecting" THEN None ELSE UnderCursor
    /\ held' = FALSE /\ late' = Outliving
    /\ asked' = asked \union {UnderCursor}
    /\ UNCHANGED <<nats, found, search, cursor>>

(* goBack: the price subscription stays.                                    *)
GoBack ==
    /\ view = "DASHBOARD" /\ nats # "closed"
    /\ view' = "SYMBOL_SELECT"
    /\ search' = Symbols
    /\ cursor' = InRange(cursor, found)
    /\ snapshot' = None /\ positions' = None
    /\ discovery' = IF nats = "connecting" THEN discovery ELSE Resumed(discovery)
    /\ UNCHANGED <<nats, found, chosen, active, prices, held, late, asked>>

-----------------------------------------------------------------------------
(* Prices: the loop compares a message with the symbol it was started for,  *)
(* not with the active one.                                                 *)

PriceArrives ==
    /\ nats = "up" /\ prices # None /\ ~ held
    /\ snapshot' = prices
    /\ UNCHANGED <<nats, screenVars, loopVars, positions, asked>>

PriceHeldBack ==
    /\ nats = "up" /\ prices # None /\ ~ held
    /\ held' = TRUE
    /\ UNCHANGED <<nats, screenVars, discovery, active, prices, late, snapshot, positions, asked>>

PriceGoesOn ==
    /\ held
    /\ snapshot' = prices /\ held' = FALSE
    /\ UNCHANGED <<nats, screenVars, discovery, active, prices, late, positions, asked>>

(* Mutant: the loop of a symbol that was left goes on for ever. *)
LatePriceGoesOn(s) ==
    /\ s \in late
    /\ snapshot' = s
    /\ UNCHANGED <<nats, screenVars, loopVars, positions, asked>>

(* What was left of a loop's batch.                                         *)
LatePrice(s) ==
    /\ s \in late
    /\ snapshot' = s /\ late' = late \ {s}
    /\ UNCHANGED <<nats, screenVars, discovery, active, prices, held, positions, asked>>

-----------------------------------------------------------------------------
(* Positions: polled while the dashboard is open, and applied if it still   *)
(* shows the symbol that was asked for.                                     *)

AskPositions ==
    /\ view = "DASHBOARD" /\ nats # "closed" /\ chosen \notin asked
    /\ asked' = asked \union {chosen}
    /\ UNCHANGED <<nats, screenVars, loopVars, snapshot, positions>>

Applies(s) == chosen = s /\ view = "DASHBOARD"

PositionsAnswered(s) ==
    /\ s \in asked
    /\ asked' = asked \ {s}
    /\ positions' = IF Applies(s) THEN s ELSE positions
    /\ UNCHANGED <<nats, screenVars, loopVars, snapshot>>

PositionsFail(s) ==
    /\ s \in asked
    /\ asked' = asked \ {s}
    /\ UNCHANGED <<nats, screenVars, loopVars, snapshot, positions>>

PriceNext ==
    \/ Connect \/ LoseNats \/ RegainNats \/ CloseSubscriber
    \/ DiscoveryEnds \/ Select \/ GoBack
    \/ PriceArrives \/ PriceHeldBack \/ PriceGoesOn \/ AskPositions
    \/ \E q \in Searches : Search(q)
    \/ \E delta \in {-1, 1} : MoveCursor(delta)
    \/ \E s \in Symbols :
         Discover(s) \/ LatePrice(s) \/ PositionsAnswered(s) \/ PositionsFail(s)

PriceSpec == PriceInit /\ [][PriceNext]_priceVars

(* The monitor goes on publishing; loops that handed back control go on.    *)
PriceFairness ==
    /\ WF_priceVars(Connect) /\ WF_priceVars(PriceGoesOn)
    /\ SF_priceVars(PriceArrives)
    /\ \A s \in Symbols : WF_priceVars(LatePrice(s))

-----------------------------------------------------------------------------
(* Types, and what the subscriptions, the cursor and the positions owe to   *)
(* the screens: no subscription is lost sight of although an old loop may   *)
(* have reset discoveryRunning after a resume, discovery is on wherever the *)
(* user may pick a symbol, prices are those of the active symbol, the cursor*)
(* is on a symbol of the list, and positions are of the symbol shown.       *)
ScreensAreServed ==
    /\ nats \in {"connecting", "up", "down", "closed"}
    /\ found \subseteq Symbols /\ search \in Searches
    /\ cursor \in Nat /\ (Filtered # {} => cursor < Cardinality(Filtered))
    /\ discovery.lost = 0
    /\ view = "SYMBOL_SELECT" /\ nats \in {"up", "down"} => discovery.sub
    /\ nats \in {"up", "down"} => prices = active
    /\ view = "DASHBOARD" => active = chosen
    /\ positions = IF view = "DASHBOARD" /\ positions # None THEN chosen ELSE None
    /\ late \subseteq Symbols /\ asked \subseteq Symbols /\ snapshot \in Symbols \union {None}

(* On a dashboard that stays open the price shown becomes the chosen        *)
(* symbol's and stays so: what an old loop still had to say is over some    *)
(* time, although nothing compares it with the symbol on the screen.        *)
PriceComesRight ==
    <>[](view = "DASHBOARD" /\ nats = "up") => <>[](snapshot = chosen)
=============================================================================
