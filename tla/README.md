# Formal models of bp-monitor

bp-monitor watches the spread of perpetual futures between Binance and OKX,
publishes spread events over NATS, and has programs that act on them: a trading
engine, a manual trader, an order CLI, an alert hub with a menu-bar client, and
a news feed. This directory holds TLA+ models of the parts in which order,
failure and concurrency matter, the TLC configurations that check them on small
instances, and proofs that TLAPS checks for every value of the constants.
Everything is TypeScript on one event loop per process (the monitor adds worker
threads), so **a stretch of code between two `await`s is one action**; what may
happen between them — keys, timers, answers, messages, fills, crashes — is a
disjunct of its own. Paths below are relative to the repository root.

```
tlc  -workers 2 -config MCPaired.cfg MCPairedLimit.tla   # one run
tlapm PairedLimitProofs.tla                               # one set of proofs
```

`PROJECT.json` lists the components, the runs, for every definition the source
lines it models ("map"), the hazards of the code with the properties that watch
them, and for every property a mutant: a plausible bug of the code that makes
TLC find the property violated.

## 1. Inventory

### Monitor (`src/`)

| part | state | operations | what is hard |
|---|---|---|---|
| main thread (`index.ts`, `universe/`, `discovery/`) | symbols, their assignment to workers, health of each worker | start, discovery on an interval, PUT /config/symbols, messages of workers, exit of a worker, shutdown | three sources of the symbol list race; a worker that dies is not replaced |
| worker (`worker/monitorWorker.ts`) | config, running flag, maps per symbol: last signature, rate window, sampled bucket, snapshots in flight | `start`, `applyConfig`, one loop per exchange, `handleDelta`, `pipelineEvent`, `recoverSnapshot`, retention | early returns in an order that matters; inserts and snapshots run in the background |
| connectors (`connectors/`) | socket, closing flag, reconnect timer, conflating queue | connect, close, message, reconnect, snapshot | a timer or a socket of an earlier life |
| ingestor, spread, utils | top of book per exchange and symbol, conflating queue, limiter, `withTimeout` | upsert, push/shift, run | sequence gaps, staleness, give-up without cancel |
| storage (`storage/postgresRepository.ts`) | the pool | insert, purge | time-outs that write all the same |
| candidate board (`control/basisCandidatesService.ts`, `fundingRatesService.ts`, `recommendedCandidates.ts`, `basisCandidatesPage.ts`, `strategy/basisCandidateEngine.ts`) | cache of funding rates, fetches in flight; in the page the view, the form and the rows | list, qualify, show; polls and clicks of the page | refreshes overlap and are not sequenced; a fetch is shared by those who asked at different times |
| timeline (`control/timelinePage.ts`, `spreadReadRepository.ts`) | in the page the symbol, the pairs, the chart, the poller | start, change of symbol, change of pair, refresh | selections are read again after each await |
| back test (`strategy/meanReversion.ts`) | position, hold, three sums | one bar | four reasons to leave a position; a step is booked to the regime of the bar before it |

*Correct means*: an event goes out for what the filters let through, at the rate
the limit allows; the sampling bucket that is marked has a row or will have; the symbols that are
assigned are the ones subscribed to; the pages end up showing what is selected
and stored; the sums of a back test agree.

### arb-engine (`apps/arb-engine/`)

| part | state | operations | what is hard |
|---|---|---|---|
| trading loop (`index.ts`, `strategy/`, `risk/`, `execution/router.ts`) | positions recorded open per symbol and direction, risk mode, symbols | take an event, evaluate, price, send both legs, record | the control API and the reconciler run between the loop's awaits |
| reconciler (`position/`) | none of its own | read both exchanges, overwrite the recorded positions, on an interval | answers older than what they overwrite |
| control API | — | PUT mode, symbols, thresholds | |
| paired limit executor | two orders and their statuses | place, withdraw, poll, cancel, re-read, hedge | fills at any moment, one step of several failing, two units of quantity |
| trader TUI (`cli/`) | recorded position | open, close | which outcomes count as a position |
| exchange clients | symbol filters | orders, positions, statuses | rounding, units |

*Correct means*: what is open is not opened again, no second open on a naked
leg, the record ends up agreeing with the exchanges, a low spread closes, a
successful paired order is balanced.

### basis-cli (`apps/basis-cli/`)

`OrderManager` keeps a phase (IDLE, PLACING, MONITORING, FILLED, CANCELLED,
TIMEOUT), two legs, a poll handle, a time-out handle and one-shot timers;
`index.ts` and `tui/` call it on keys. It places two limit orders that cross the spread by the slippage asked for, polls
them, amends or takes the market with a leg whose partner filled
(`singleLegProtection`), cancels on key, time-out and shutdown, and takes over open
orders it finds (`recoverOpenOrders`). The hard part is that every call awaits
an exchange, while the handles, timers and leg objects it will write to are
replaced by other calls. `SpreadSubscriber` has two NATS subscriptions, one
that discovers symbols and one for the prices of the active symbol, each read by a loop that
yields and may outlive its subscription; `AppStateManager` starts and stops
them as the screens change and polls positions. Quantities and prices are
rounded to lots and ticks in several places, in floating point. *Correct means*:
no order works that nobody watches, one order per exchange, the market is the last resort,
every session ends; the screens show the chosen symbol; the orders have the size
and price that was asked for.

### alert-hub and alert-bar (`apps/alert-hub/`, `apps/alert-bar/`, `sdks/alert-sdk/`)

The hub keeps a ring of alerts in two containers (`AlertStore`: a map and an
array), takes alerts over HTTP and NATS, acknowledgements over HTTP, and tells
sockets of both (snapshot first). The bar keeps its own bounded map, fed by the
socket, by a periodic GET and by the answers of its own acknowledgements; the
three are not ordered. *Correct means*: the containers agree, an acknowledgement
is not forgotten while the alert is retained, a high alert is notified although
the socket lost it, the view converges.

### news-feed (`apps/news-feed/`)

`BweNewsSource` follows one publisher over a WebSocket and over HTTP polls (one at
the start, then whenever the socket is down or silent) at the same time; polls
overlap and have no time-out. A ring of seen keys, in two containers, and the second of the
last item emitted are its memory. `index.ts` turns the items with a watched coin into alerts.
*Correct means*: an item is fired once, and the newest one is fired in the end.

### How the parts interact

Worker → NATS JetStream → arb-engine's subscription and basis-cli's price feed;
arb-engine and basis-cli → exchanges over HTTP; any producer → alert-hub →
alert-bar. arb-engine's loop, reconciler and control API share one `StateStore`
and one config object. The programs share no other state: a component model that
treats its inputs as arbitrary is sound for the composition, so each component
has one model together with the peers it shares state or a protocol with.

## 2. Modules

| module | models | composition |
|---|---|---|
| `AlertLog` | what the hub promises of its memory: a bounded log | abstract specification |
| `AlertStore` | `store/alertStore.ts` | instantiates `AlertLog` under a refinement mapping |
| `AlertSystem` | hub servers, socket, alert-bar | extends `AlertStore` |
| `BasisOrder` | `OrderManager`, the screens that call it, two exchanges | |
| `ArbEngine` | loop, signal engine, guard, router, reconciler, control API, two exchanges | |
| `PairedLimit` | `PairedLimitExecutor` with both exchanges, `executeAction` of the TUI | |
| `NewsFeed` | `bweNews.ts`, the filter of `index.ts`, the publisher | runs beside `AlertSystem` |
| `PriceFeed` | `spreadSubscriber.ts`, `priceFeed.ts`, `appState.ts`, the screens' keys | runs beside `BasisOrder` |
| `OrderSizing` | parameters of the dashboard, `limitOrderPricer.ts`, lots and ticks of both clients | runs beside `BasisOrder` |
| `MonitorPipeline` | one worker's queues, tops, recovery, pipeline, inserts, for one symbol | runs beside `ArbEngine` |
| `MonitorWorkers` | main thread, start and updates of the workers, life of the connectors' sockets | |
| `BasisEngine` | `evaluateSymbol` and what it calls, a pure algorithm | |
| `BasisCandidates` | the board: service, cache, recommended view, routes, page | extends `BasisEngine` |
| `TimelinePage` | the page and the two routes it asks | |
| `MeanReversion` | `evaluateMeanReversion`, one action per bar | |
| `ArrayFilter` | `Array.prototype.filter`, as a recursive function | extended by `AlertStore`, `NewsFeed`, `MonitorWorkers` |
| `ArrayProofs` | lemmas: induction over positions, filters, ranks in a finite set | cited by the proofs below |
| `AlertSystemProofs`, `NewsFeedProofs`, `MonitorPipelineProofs`, `MonitorWorkersProofs`, `ArbEngineProofs`, `PairedLimitProofs`, `BasisCliProofs` | theorems | extend their components: `NewsFeedProofs` the feed beside the hub, `MonitorWorkersProofs` also `MeanReversion`, `BasisCliProofs` the three modules of basis-cli |
| `MC*` | constants for TLC | extend their component, or several |

**Several components in one MC module.** `MCAlertFeed`, `MCBasisPrices`,
`MCBasisSizing`, `MCMonitorWorkers` and `MCSpreadEvents` hold two to four components that share no state
the models keep, and explore them side by side: a variable `part`
says which of them a behaviour is about, the initial state starts that one and puts the
others at rest, and the next-state relation steps that one alone. A part at rest has no
step that fairness could ask for (its servers are closed, its pages shut, its
workers dead), and its invariants hold in the state it rests in. The state
space is the sum of the parts', not their product; what a property says of a part is the
same as in a run of its own. Nothing is shown about interaction of the parts, and
nothing needs to be: the feed posts to the hub like any client, the session only asks
whether a price is usable (which `BasisOrder` lets change at any moment), the pages only read,
and the engine takes any event, whatever the worker publishes: NATS between them keeps no promise.

Definitions marked "mutant" in a module are not part of its specification.

### AlertStore, AlertLog, AlertSystem

`order` and `byId` are the array and the map of `AlertStore`; `UpsertNew`,
`UpsertKnown`, `AckFirst`, `AckAgain` are the branches of `upsert` and `ack`,
`List` is `list`. `AlertLog` has one sequence of alerts. The refinement mapping
is `log <- [i |-> byId[order[i]]]`: it is well defined only because the
containers agree, which is why `StoreInv` comes first in the proof.

`AlertSystem` adds `hub` (up or down; the store is memory only), `link` and
`wire` (one client's socket), the bar's `items` and `notified`, and `call`, the
bar's HTTP requests (sent, answered at the hub, applied by the bar — three
separate steps, so that a GET may be overtaken by a broadcast or an
acknowledgement). `Post`, `AckAtHub`, `Connect` are the hub's handlers with
their broadcast; `Deliver`, `ApplySync`, `ApplyAck` are `onWsEvent`,
`syncFromHub`, `ackAlert`, with the trim to `MAX_ITEMS`.

### BasisOrder

`task` holds the calls that await an exchange: `exec` (`execute`), `poll`,
`protect` (`singleLegProtection`), `cancel` (`cancelAll` with what its caller
does next: key, amend, time-out, quit) and `recover`. A task remembers the leg
objects it will write to; `Detach` marks those the session has replaced since,
since writes to them are seen by nobody. `polling` and `timeout` distinguish the
handle that the manager holds from those it has lost track of (`startPolling`
overwrites a handle; `recoverOpenOrders` does not set a time-out). The 500, 1500
and 2000 ms timers count down in ticks of 500 ms; poll interval, order time-out
and grace period may elapse whenever armed. A status is read at any moment
between the question and its answer. `misread` is a history variable: the legs that say
filled because `poll()` applied the answer about an order that the leg had before
(`PollAnswered` puts them in; whatever writes the leg next takes them out).

### PriceFeed

`discovery` holds the handle and the flag (`discoverySub`, `discoveryRunning`), `ending` counts
the loops whose subscription is gone: `DiscoveryEnds` is the `finally` of any of
them and resets the flag, whoever has resumed since. `prices` is the symbol of the price
subscription, `held` says that its loop has yielded in the middle of a batch;
`Outliving` then leaves its symbol in `late`, and `LatePrice` is the message it still
handles. `Select` and `GoBack` are `selectSymbol` and `goBack` with all they stop, start
and clear; `Applies` is the comparison made when positions are answered. `lost` counts
subscriptions whose handle was overwritten, which the code must never do.

### OrderSizing

An order is its side, size and price together with the quote it was priced at. A
value that is on the grid may come out a hair to either side of it in binary floating
point, so `Floors` and `Ceilings` have two results there; the rounding is applied as often as
the code applies it (pricer and placement, normalisation and placement). `terms` is
`activeParams`; `AskOpenOrders` and `OpenOrdersFound` are the recovery, which takes the
parameters of the dashboard for orders that it did not place.

### ArbEngine

`exec` is the event the loop works on: the intents of both directions are decided
in `TakeEvent` and executed one after the other, each with a price stage
(`SendLegs`, `PriceFailed`) and a leg per exchange (`LegLands`), then `Executed`
or `ExecutionFailed`. `reader` are reconciliations in flight: the two positions
of the current symbol are read at separate moments, and `PositionsSynced`
overwrites `open` in one step. `Crash` lets every leg under way execute or not. `missed` is a
history variable: the symbols of which a reconciliation recorded no pair though there was one (its
reads were overtaken by an execution), and none has found flat since.

### PairedLimit

`stage` and `todo` are the program counter: each `Promise.all` is a stage, and `todo`
holds the exchanges whose call has not returned. `orders` holds the two orders of
every call, because orders left by an earlier call keep filling. `Return` includes
what `executeAction` then writes to the store, in the same stretch of code.
`Reported` converts what a client calls `filledQty`: base units on Binance,
contracts on OKX.

### NewsFeed

`poll` holds the HTTP polls in flight: sent, answered (`list`), applied. `Emit` is `emitIfNew`
for a batch, with both containers of the ring; `Extracted` and `Selected` are
`extractEvents` and `selectEventsToEmit`. `silent` is what the reader of
`lastMessageAtMs` asks of it. `CloseNews` leaves polls in flight, and `PollIsApplied`
does not ask whether the source is closed, as in the code.

### MonitorPipeline

One action `Consume` is all of `handleDelta` up to the end of `pipelineEvent`,
with the early returns in the code's order: threshold, duplicate signature, rate
limit, publication, sampled insert. Inserts and snapshots are background
requests. `Unassign`/`Assign` are `applyConfig` without and with the symbol.

### MonitorWorkers

`discovered`, `preferred` and `assigned` are the main thread's variables, `Selected`
and `Shard` its choice of the core and `assignSymbols`. `PutSymbols`,
`AnswerRefresh` and `RefreshReturns` are the two sources of a new choice; the answer of a
discovery and its use are separate steps, so that a PUT comes between. `inbox` holds
the updates a worker has not taken yet.
In a worker, `Start` and `ApplyConfig` are `start()` and `applyConfig()`. A connector
keeps one socket in `this.ws`, but the handlers of a socket it has lost sight of go on
reconnecting: a *chain* is such a line of descent (socket, timer, next socket), `current`
says which of them `this.ws` refers to. Three consequences of the code are part of the steps: a
reconnect timer that is pending across `close()` and `connect()` lives on with the old
symbols; OKX's handler of "open" subscribes on `this.ws`, which may be another
socket (and `send` throws when that one is still connecting); `close()` of a socket that is
still connecting makes the library emit an error nobody handles. The last two end
the worker thread, which is never replaced.

### BasisEngine, BasisCandidates

`BasisEngine` is the evaluation of one symbol as operators over a sequence of samples:
direction, dominant band, stability, spike, plan and score. Spreads are whole
basis points; prices of the plan are in twentieths, and comparisons of ratios and of
deviations are comparisons of products, so nothing is rounded that the code does not round.
In `BasisCandidates` a refresh crosses three awaits (listing, rates that qualify,
rates to show), and up to two are under way. `Recent` keeps the oldest rows of the window as the
query does. `cache` and `pending` are the maps of `FundingRatesService`; `FundingArrives`
settles one fetch for all refreshes that wait for it. A market or rate that moves between
two awaits is a step of its own.

### TimelinePage

A task is one run of a handler with the stage it awaits: symbols, pairs, funding, timeline. The
selected symbol and pair are global and read at the awaits where the code reads them. The start is
the task `Booting`; only its end sets the poller, so a page whose start fails never polls.

### MeanReversion

`Bar` is the body of the loop: `MarkToMarket`, then one of `Enter`, `Exit`, `Carry`.
`AllTrades` adds the trade that the code closes after the last bar.

## 3. Runs

| run | specification, bounds | checks | shows |
|---|---|---|---|
| `alert_live` | `MCAlertFeed`. Alerts: capacity 2, 4 items, no HTTP requests of the bar; socket and hub failures. News: 3 items (two in one second, one undated), a ring of 2, answers of 2 items, 2 polls at a time; lost sockets, lost messages, failed polls | `TypesOK StoreInv LiveViewIsCurrent ListIsExact FiredOncePerRing RetainedAlertsAreStable StoreIsLog NewestIsFired` | the containers agree and implement the log; the socket alone keeps the bar exact across reconnections and restarts; the feed fires an item once, and the newest one in the end |
| `alert_sync` | `FairSpec`; 2 alerts, capacity 1, one request at a time; every failure | `HighAlertsAreNotified ViewConverges` | the GET catches what the socket lost; races with acknowledgements heal |
| `basis_prompt` | `MCBasisPrices`. Session: `Prompt` (exchanges answer before the next key or timer), no faults, 4 orders per exchange, 2 amends. Screens: 2 symbols, 3 searches, 2 discovery loops that outlive their subscription, lost connections | `IdleLeavesNoOrder OneWorkingOrder ScreensAreServed MarketIsLastResort SessionEnds PriceComesRight` | what the session guarantees when exchanges behave; the screens' subscriptions, cursor, prices and positions are those of the symbol shown |
| `basis_faults` | `MCBasisSizing`. Session: six kinds of fault, 2 orders per exchange, 1 amend; either every key and any number of sessions with one call at a time, or one session up to its order time-out with two calls that overlap in any order. Sizing: lots and ticks that do not divide one another, two quotes, 2 amends | `TypeOK NoPhaseIsStuck FilledIsExecuted OrdersAreAsked` | what the session guarantees whatever the exchanges do and however polls overlap; size and price of every order are what was asked for, within lots and ticks |
| `basis_amend` | `FairSpec`, no faults | `AmendReExecutes` | **violated**, see findings |
| `basis_shutdown` | `FairSpec`, no faults, two calls at a time; the keys are Enter and Q | `ShutdownLeavesNoOrder` | **violated** |
| `basis_recovered` | `MCOrderSizing`, as in `basis_faults` | `AmendIsAggressive` | **violated** |
| `arb_overlap` | `MCArbEngine`, fair; 1 symbol, full overlap, kills, lost answers, refused closes, prices that fail for events that only open, operator changes the mode; states that differ in the history variable `missed` alone are one (`VIEW`: no guard and neither property reads it) | `StoreConverges LowSpreadCloses` | the record heals; a low spread closes |
| `paired` | `Spec` (with fairness); 2 units, 3 calls, one order left over; every fault | `TypeOK OkIsBalanced OpenIsPaired ExecuteEnds` | an ok is balanced, a recorded open is a full pair, a call ends |
| `paired_units` | as `paired` with a contract of 2 units, no faults | `FilledIsNotHedged` | **violated** |
| `spread_events` | `MCSpreadEvents`. Worker: 3 updates per exchange, 2 seconds, 2 events per second, one insert at a time, reassignment, every fault. Engine: one symbol, which comes and goes, 2 units of margin, a reconciliation that overlaps the loop; refused opens, lost answers, failed prices and reads | `TypeOK PipelineTypeOK MarkedBucketIsCovered OpensOnlyWhenFlat NoOpenOnNakedLeg` | the bucket that is marked has a row or an insert under way; the rate holds (`PipelineTypeOK` bounds `published` by `MaxPerSec`); the engine opens a pair twice only after a reconciliation that missed it, and never opens on a naked leg |
| `workers` | `MCMonitorWorkers`. Workers: 3 symbols in 2 shards, a core of 2, 2 chains of the OKX connector, one update under way, lost sockets, failed discoveries, failed starts. Board: 2 symbols, 3 histories, 2 refreshes, one change and one failure. Timeline: 3 symbols, 2 handlers beside the start, 2 picks, one failure. Reversion: 8 bars of 3 values | `TypeOK PreferredFirst ShardsAreCurrent ChainIsKept LedgerBalances SubscribedInTheEnd BoardSettles PageFollows` | the choice follows its sources, the shards follow the choice, living workers end up subscribed; the pages settle; the sums agree |

The largest instances have 0.6 to 1.6 million states. Deadlock is checked in
every run; states in which the system has nothing left to do are explicit
(`Exited`, `Done`, `Finished`).

**Why the bounds are enough.** The ring of capacity 2 is the smallest in which
eviction and retention happen in one history, with more alerts than fit and
two that share an id; the theorems below remove the bound. Two orders per
exchange are the smallest with an order and its replacement; four, with a
maximum of two amends, let a whole protection (place, amend, amend, market)
happen with one order to spare. One unit per order gives the statuses new, filled,
canceled. The mutants show that each run reaches the interesting cases: every property
fails in its own run when the code it watches is broken. The three calls of
`paired` are needed: only an order left by the first call can reduce the position
that the third call hedges, which is the second disjunct of `OkIsBalanced`. `FilledIsExecuted` is a property of the step that announces FILLED and not of the phase:
a second return to IDLE that is still pending (`MaxTimers` above 0 lets it) fires during
the next placement, the screen may then be left and the legs cleared, and the poll that
answers afterwards says FILLED of a session that was; the state FILLED outlives the legs, the
announcement does not. In
the pipeline, three updates per exchange let a second of the clock see more events
than the limit, and one insert at a time makes the limiter refuse. Two chains are the
smallest number with a socket the connector has lost sight of next to the one it
knows; an update that would need a third waits. The exchanges list all three symbols and the
first discovery may fail, so the core shrinks, grows and leaves the second
shard empty. In the news feed, a ring of two with three items
lets an item be dropped and offered again, and two polls are the smallest number of which one is
overtaken. Two discovery loops are the smallest number with one that ends between a resume and
the next. Two refreshes of the board and two handlers of the timeline are what overtaking needs.
The histories of the board hold a steady series longer than the limit of the query, a spike, and
nothing. The look-backs of the back test (3 and 4 bars) are below the smallest that
`sanitizeConfig` lets through, so that eight bars are enough to enter, exit and enter again; the
theorem covers every value. The workers part has the OKX connector alone: connectors of a worker meet only in
its death, and Binance subscribes with the address, which leaves the cases of `Opened` out.

**What the runs of one component divide.** `basis_prompt` states guarantees that need exchanges which answer
promptly and refuse nothing; `basis_faults` states what holds without that, and `basis_shutdown` what does not.
The two calls of `basis_faults` overlap in one session, with a user who only watches, because that is
where answers become stale; between sessions, and for the keys, one call at a time with every fault is
checked, and the theorems about `TypeOK`, `NoPhaseIsStuck` and `FilledIsExecuted` cover both at once, with any number of
calls. TLC explores that session up to symmetry: nothing tells its exchanges or its calls apart.
`spread_events` excludes what ends the engine's guarantee about opens (a mode set by hand, refused closes,
kills); `arb_overlap` has them and states that the record heals. Failing reads and symbols that come and
go are in `spread_events` alone: a reconciliation that fails for ever never heals the record, and an event of a
symbol that was taken away closes nothing. Section 6
lists what fails outside those conditions.

**Fairness.** Only what the event loop, a timer or a request with a time-out brings
about is fair. `AlertSystem`: weakly, the hub is restarted (Docker), the
reconnect timer fires, an open socket delivers; strongly, the interval asks and a
request that is possible again and again succeeds once (the interval repeats for
ever). `BasisOrder`: weakly, every step of a task and every due timer; strongly,
the order time-out, a real timer that fires although polls keep coming between.
Fills, prices and keys are never fair. `ArbEngine`: weakly, the loop's steps,
answers, the interval; strongly `TakeEvent`, since the loop is only interrupted.
No event need be published, and no order need execute.
`MonitorWorkers`: weakly, a message is taken, a start ends, a timer fires, a connection is
answered, for each worker and socket; `SubscribedInTheEnd` supposes besides that losses and
new assignments come to an end. `PairedLimit`: weakly, one
step of the running call, and the deadline; nothing is bound to fill. `NewsFeed`: the clock
and the silence timer weakly; strongly, the interval polls and a server that may fail does not
fail for ever; nothing is promised of the socket or the publisher. `PriceFeed`: a loop that
yielded goes on, weakly; strongly, a price is published again and again on a
connection that is up again and again. `BasisCandidates`: weakly, a request of a refresh is answered,
the interval polls, a fetch settles, a cache entry expires. `TimelinePage`: weakly, every
request ends, and the poller, once it is set, refreshes. Changes of market, rates and
selections, and failures, are bounded in both pages, so "in the end" is after the last of them.

## 4. Findings

Four runs show that the code does not do what a document, comment or test of it says.

1. **amend does not re-place** (`basis_amend`; `apps/basis-cli/src/order/orderManager.ts:273`).
   `amendAll` re-executes 500 ms after `cancelAll`, which returns to IDLE only
   after 1500 ms; `execute` refuses because the phase is not IDLE.
2. **a shutdown leaves orders working** (`basis_shutdown`; `apps/basis-cli/src/order/orderManager.ts:279`).
   `shutdown()` says "cancel all open orders" (`:278`), but knows the orders of recorded legs only: a quit
   while the placements are in flight cancels nothing, and the process exits. An order whose cancel is refused,
   with or without an exception, is left as well, while the log says "All orders cancelled" (`:294`).
3. **a recovered leg is amended at the wrong side's price** (`basis_recovered`;
   `apps/basis-cli/src/order/orderManager.ts:195`). `recoverOpenOrders` keeps the direction
   of the dashboard for orders that may have been placed in the other one. When one of them fills,
   the other leg is placed again on its own side at the price of the dashboard's direction: a sell
   at the ask plus slippage, a buy at the bid minus it, further from a fill with each amend.
4. **two units of quantity** (`paired_units`; `apps/arb-engine/src/execution/pairedLimitExecutor.ts:167`).
   The imbalance subtracts contracts from base units; unless they coincide, two
   full fills are hedged, and the result still says filled and ok.

## 5. Proofs

Every safety invariant and every action property that a passing run checks is stated by a
theorem here. The theorems hold for every value of the constants that the named assumptions
allow. All leaves are checked by SMT, Zenon or LS4; nothing is taken on trust but the
`ASSUME`s of the modules, which state what the config loaders, clients and venues
enforce (`CapacityAssumption`: the ring size is at least 1; `StampAssumption`: time stamps are whole numbers;
`PairedAssumption`: quantities and lots are whole numbers, lots positive; `ArbAssumption`: an engine
is configured for at least one symbol; `BasisAssumption`: two exchanges, finitely many calls in flight; `SizingAssumption`: quotes are whole numbers of price units).
A theorem that needs more says so in its ASSUME, and the condition is one that a run
satisfies; where TLC shows that it is needed, that is said below.

| theorem | property | under |
|---|---|---|
| `StoreInvariant`, `SystemKeepsStoreInv` | `StoreInv` | |
| `RetainedStable`, `SystemRetains` | `RetainedAlertsAreStable` | |
| `StoreImplementsLog`, `SystemImplementsLog` | `StoreIsLog` (refinement) | |
| `ListIsExactTheorem`, `SystemListIsExact` | `ListIsExact` | |
| `SystemTypeOK`, `NewsTypes`, `FeedTypesOK` | `TypesOK` | |
| `LiveViewTheorem` | `LiveViewIsCurrent` | no requests of the bar, room for every id |
| `FiresOnce` | `FiredOncePerRing` | |
| `TypeOKTheorem` | `PipelineTypeOK` | |
| `MarkedBucketIsCoveredTheorem` | `MarkedBucketIsCovered` | |
| `WorkersTypeOK`, `PreferredFirstTheorem`, `ShardsAreCurrentTheorem`, `ChainIsKeptTheorem` | of the same names | |
| `LedgerBalancesTheorem` | `LedgerBalances` | |
| `ArbTypeOK` | `TypeOK` of the engine | |
| `OpensOnlyWhenFlatTheorem`, `NoOpenOnNakedLegTheorem` | of the same names | `Undisturbed` |
| `PairedTypeOK` | `TypeOK` of the executor | |
| `OpenIsPairedInOneUnit`, `FilledIsNotHedgedInOneUnit` | of the same names | `SameUnit` |
| `OkIsBalancedInOneUnit` | `OkIsBalanced` | `UnitLot` |
| `NoPhaseIsStuckTheorem`, `ScreensAreServedTheorem` | of the same names | |
| `BasisTypeOK`, `FilledIsExecutedTheorem` | `TypeOK` of the session, `FilledIsExecuted` | |
| `IdleLeavesNoOrderTheorem`, `OneWorkingOrderTheorem`, `MarketIsLastResortTheorem` | of the same names | `Regime` |
| `OrdersAreAskedTheorem` | `OrdersAreAsked` | `PricesAreHigh` |

**ArrayProofs.** The prover has no rules for `SelectSeq`, and the induction theorems of the
library take a predicate as a parameter, which it cannot instantiate. So filters are
`Filter(seq, S)`, with the elements that pass as a set, and induction is over a *set* of
positions (`Induction`: a set of positions that holds the first and with each the next holds all;
from the least element of the set of counterexamples). `FilterFacts` says what a filter
returns: there is an increasing choice of positions of which it is the image, and all positions that pass
are chosen. `RanksOrder` says that in a finite set with a strict total order (numbers, or positions by stamp) the ranks
0, 1, ... are each taken once, which is what a sort relies on.

**AlertSystemProofs, the store.** `StoreInv` is
inductive as it stands: both containers hold the same ids, each once, at most
`Capacity`. The delicate case is `UpsertNew` on a full ring: the id that leaves the
map is the head of the array, and it is in no other position because ids are
distinct. `RetainedStable`: a retained alert changes only by its first
acknowledgement. `StoreImplementsLog`: `StoreSpec => Log!Spec`; every step of the store is an
entry, an acknowledgement, a loss or a stutter of the log under the mapping,
given `StoreInv` before and after the step. `ListIsExactTheorem`: by `FilterFacts` the hits are
the matching ids at decreasing positions of the array, and since ids are distinct the position of an id is one;
cutting a decreasing list at the limit leaves the newest.

**AlertSystemProofs, the system.** A step of the whole system — hub, socket, bar, HTTP requests,
restarts — is a step of the store or leaves it alone (`StepOfStore`), so the theorems about
the store carry over; `SystemImplementsLog` says that nothing the socket, the bar or a crash does
can make the hub's memory anything but a bounded log. `SystemInv` types what travels and what the
bar holds. `LiveViewTheorem` rests on `LiveInv`: while the socket is open there is for every alert
of the hub a *last word* — what the bar holds, or one of the messages under way — that says what the
hub says, nothing after it says otherwise, and no snapshot after it could drop it. A
delivery moves last words one place towards the bar, a post appends one, a
new client's snapshot is the last word on everything. Two conditions are needed: the answers to the bar's own requests
may be old, and a view that is full drops an alert.

**NewsFeedProofs.** `FiresOnce` rests on `RingInv`: the ring in use is the end of the history
`fired`, as long as `MaxSeen` allows; both containers hold the same keys, each once; the key of
a dated item is its own time stamp, so that what is in the last `MaxSeen` firings is also in the ring under
the key by which it would be recognised. `ItemsAreOut` adds that nothing travels that
has not been published, and nothing twice in one list. `Emit` is the hard step: a batch is
filtered by the ring of before, without duplicates of its own, and appended in one go, dropping as many
keys as do not fit.

**MonitorPipelineProofs.** `PipelineInv` has three parts. `BookInv`: what is queued or stored was
taken in by now, so the bucket of an event is never in the future. `RateInv`: what NATS has had in
the second of the clock is at most what the limiter's window counts if the window is of this second,
and nothing if it is older; the window and the clock begin their seconds at different
moments, and this is the relation between them. `InsertInv`: a marked bucket has a row or
an insert in flight; when an insert ends, the others stay in flight (`RestKeepsOthers`),
whichever position it had. `TypeOKTheorem` (with the rate) and `MarkedBucketIsCoveredTheorem` follow for
every limit, number of updates, length of time and set of faults.

**MonitorWorkersProofs.** `WorkersInv` is types; `AssignedIsSelected` (what is assigned is what the discovered and preferred
symbols give, unless nothing is discovered); `AssignmentIsPosted` (the last message in a living worker's
inbox, or what it works on if the inbox is empty, is its shard: this is what makes
`ShardsAreCurrent` inductive, since messages are posted and taken at different moments); and `ChainsInv`, per
worker and connector: a live queue belongs to a worker with symbols and to a chain that carries exactly these; while
a worker starts there is room for the chain its start will add — the connectors may have been
started before, by an update (`monitorWorker.ts:73`). `PreferredFirst` is a fact about `Selected`
alone: filter, sort and cut, with the lemmas of `ArrayProofs`.
`LedgerBalancesTheorem` is about the back test: that nothing is ever booked outside ranging bars needs that a
position is only carried out of a ranging bar, and that there is none before the first
(`LedgerInv`). The indicators play no part beyond `SignalIsRanging`, so their recursion (folds over
the window) is never unfolded. The remaining argument is that a step's gain telescopes:
`total` grows by position times the step, and so does the value of the open trade.

**ArbEngineProofs.** `ArbTypeOK` holds whatever overlaps and fails. The two theorems about opens hold under
`Undisturbed`: the mode set by the engine alone, closes not refused, no kill. Reconciliations, any number of them, overlap the
loop as the interval lets them. `ArbInv` then says: while the mode is normal (or the engine is starting, or an
open decided on in normal mode is not done), every symbol that nothing is under
way for is *whole* — both exchanges hold the same number of units of a pair — and if no reconciliation has missed it
(`missed`), that number is -1, 0 or 1 and a pair that is held is recorded in its direction. The symbol
being executed is what it was plus the legs that have landed, where a failed opening leg may or may not have executed
(`UnderWay`); there a reconciliation may record anything of a pair that is half way (`Moved`), since
the end of the execution writes the record again. An open in hand is of what is not held (`IntentsInv`). The store may
record a pair that is gone, never miss one that is there, unless a reconciliation whose reads were overtaken
overwrites it, and `missed` remembers just that; the guard leaves normal mode in the very step that finds an opening leg
failed, which is why a lost answer does no harm. That no open goes on top of a naked leg does not depend on
the record at all, only on wholeness, so it holds for missed symbols as well.

**PairedLimitProofs.** `PairedInv` is the conjunction of `Types`; `OrdersInv` (an order that
was placed has the common quantity, and is open only while some of it is
left); `StageInv` (nothing is hedged before the end, and from polling on both
orders exist); and `SeenInv` (a leg *read* as filled is gone, executed in full,
and was reported in full). `SeenInv` is the strengthening the safety properties
need: they speak of what was read, the exchanges may have moved on since, and it
says that "filled" is the one status that cannot go stale. There is one lemma per
action. `OpenIsPairedInOneUnit` and `FilledIsNotHedgedInOneUnit` then hold under `SameUnit` — the
two clients report two full orders as the same number — which the lemma
`UnitLots` shows for a contract and a step of one base unit. `paired_units` shows that the
condition is needed, so the theorem and the finding together say exactly when
the executor is right.
`OkIsBalancedInOneUnit` is `UnitLot => (Spec => OkIsBalanced)`, where `UnitLot` says that
a step and a contract are one base unit, so that a hedge can be as small as the difference.
`BalanceInv` adds to `PairedInv` that the orders of the call have its direction and those of later
calls do not exist (`DirectionInv`), that a leg read as filled or cancelled is gone and
reported exactly (`FinalInv`), and that a leg read as open after the cancels is open or was filled since
(`OpenInv`); the second and third are what makes reading twice, with the cancels in between, sound.
The hedge then adds minus the difference, or all there is of a leg that an older order had
reduced (`HedgeBalances`). `PairedTypeOK` holds without a condition.

**BasisCliProofs, without conditions.** `NoPhaseIsStuckTheorem` follows from `SessionInv`, which is
`NoPhaseIsStuck` with `Shape`: the table of calls is a function of records that have a kind, the
timers are a sequence, and polling is two flags. Nothing else is needed, because each way out is
handed over in the step that uses it up: a placement that is not dead ends only in a step that
leaves PLACING; whatever stops the poller begins a cancel or a recovery, or leaves MONITORING;
cancels and recoveries end by setting the phase; an announced result appends its own timer, and a
timer that fires leaves the others in the sequence (`WithoutKeepsOthers`); replaced legs detach the
calls in flight without changing their kind or stage (`DetachKeeps`).
`ScreensAreServedTheorem` holds for any set of symbols
and any number of loops that outlive their subscription. `ScreensInv` says where
the flag `discoveryRunning` may be wrong: on the dashboard it agrees with the
subscription, and no loop is still ending while there is one. That is what keeps
`Select`, `GoBack` and a reconnection from overwriting a handle. That a symbol is under the
cursor whenever there is one is an argument on ranks: the ranks of the listed symbols are
an initial segment, and the cursor is clamped to it.

**BasisCliProofs, calls that overlap.** `BasisTypeOK` and `FilledIsExecutedTheorem` hold for any number of calls
in flight and every fault. `TypesInv` types each kind of call and says what its fields are of the legs. Overlapping polls that
see the same fill start a protection each, so the bound on amends has to count them: `AmendsFit` says that the amends of
a leg, and one for each protection that may still count one (`Protecting`), stay within MAX_AMEND_COUNT plus one
for every other call. A protection begins only in place of a poll, with an amend left, when there are fewer protections than
calls (`CallReplaced`); whoever places takes its own with it (`ReplacedLeg`). `ExecInv` says that a leg with the
status filled has an order that executed in full unless it is in `misread`, and that a poll in flight that has
seen "filled" asked about an order that executed in full; a leg gets its status from the answer about another order only in `PollAnswered`,
which is what puts it into `misread` (`PollAnsweredExec`). Executed orders stay executed (`OrdersKept`), as
long as something refers to them.

**BasisCliProofs, prompt exchanges.** `Regime` is the condition of run `basis_prompt`: exchanges answer before the next key,
timer or poll, nothing fails, and an exchange may have two orders of the session in sight. `PromptInv` has four parts.
`ClockInv`: after a result, all timers count down *together* (`Countdown`), amendAll's re-execution two ticks before the
return to IDLE; a phase that places or monitors has none, which is why a late return to IDLE never
interrupts the next session; and only one time-out is ever armed. `BookInv`: idle and announced sessions have no open order, and each leg
of a monitored one has an order, which is the only one that may be open. `Knows`: what each kind of call in flight has
established — a placement, which orders it has placed; a poll, that a final status it has seen is that of an order that is
closed; a protection that is about to place, that nothing is open on its exchange; a cancel, which orders it still waits for. `CallsFit`: PLACING has its call. The
three theorems are read off: what is not watched is closed, replaced orders are closed before the new one is placed, and the
protection's market order comes after the last amend. The condition is needed: section 6 says what the code
does on a refused placement and on a refused cancel, and `basis_shutdown` what it does on a quit that meets
a placement.

**BasisCliProofs, sizes and prices.** `OrdersAreAskedTheorem` follows `BaseSent` and `PriceSent` through every rounding with its two
outcomes. Rounding twice loses at most one lot, or tick, more than rounding once, because what is on the grid
comes out on the grid or one step off it; the bounds of the two exchanges add up to what `OrdersAreAsked` allows. `PricesAreHigh`
asks that every price to sell at is three ticks above zero, so that the code's "at
least one tick" never lifts it; on an instrument quoted within three ticks of zero it would.

**Model-checked only.** Liveness (`HighAlertsAreNotified`, `ViewConverges`, `NewestIsFired`,
`SessionEnds`, `PriceComesRight`, `StoreConverges`, `LowSpreadCloses`, `ExecuteEnds`,
`SubscribedInTheEnd`, `BoardSettles`, `PageFollows`) is out of the prover's reach, as is everything about
`ENABLED`. What a recursive definition computes over data of any length cannot be proved by the library's
induction, whose predicate the provers cannot instantiate; where such a fact was needed (`Filter`, ranks) it is
proved by induction over a set of positions, and the folds of the indicators and of the candidate evaluation
are left to TLC. The violations of section 4 are counterexamples and need no proof.

## 6. Behaviour worth knowing that no property states

The models contain the following; no document of the repository promises the
opposite, so nothing is claimed violated.

- news-feed: a poll that was sent before `close()` is applied after it (`sources/bweNews.ts:398`);
  an item without a readable time stamp gets the time of reading, so that it may be fired
  again by every poll that lists it and moves `lastEmitted` past dated items that the fallback then skips.
- basis-cli: below one contract OKX trades a whole contract (`execution/okxClient.ts:51`), so the
  legs of a small order may differ by any factor.
- basis-cli: when one of the two placements is refused, the session returns to
  IDLE and the other order stays on its exchange, unwatched (`orderManager.ts:127`).
- basis-cli: a poll that is overtaken by the protection writes the final
  status of the order that was replaced to the leg, which has a new order by then (`orderManager.ts:374`): FILLED may
  be announced while the new order works. These are the legs in `misread`, and the only ones of
  which FILLED may be wrong. Two overlapping polls that see the same fill start a
  protection each, and a leg is amended more than MAX_AMEND_COUNT times, once more for every other call at most.
- basis-cli: a cancel that is refused without an exception counts as done (`orderManager.ts:309`): the leg is marked
  canceled and its order works on, unwatched, or beside the order that replaces it.
- arb-engine: positions read before an open executed are applied after it: the direction is
  recorded flat, and the next event may open the pair a second time before the next
  reconciliation (`position/positionReconciler.ts:66`). These are the symbols in `missed`, and as long as nobody sets the
  mode, no close is refused and the process lives, the only ones that are opened twice.
- arb-engine: a close of which one leg fails leaves a naked leg with the mode
  normal, since the guard only looks at opens (`risk/guard.ts:16`); a mode that changes to
  close_only while the reference price is awaited does not stop the open (`index.ts:104`).
- paired executor: a result "rejected" with filledQty 0 may hide a leg that filled before it was
  withdrawn; an exception while polling leaves both orders live and the TUI forgets them; the
  hedge of a partial close is always refused: it would add to the position and
  is reduce-only; failures of cancel are swallowed, thrown or not; a hedged open
  is recorded flat while a smaller pair remains, and two equal partial fills leave a pair
  that is not recorded; opening does not look at what is recorded; `fillSz` of OKX
  is taken for the cumulative quantity.
- monitor: an update of the symbols ends a worker one of whose sockets is connecting
  (`connectors/okxConnector.ts:70`), nothing replaces a worker that died, and its shard is
  subscribed to by nobody; a chain left behind keeps old symbols subscribed beyond the cap of the core;
  symbols put over HTTP and listed nowhere are dropped by the next discovery.
- monitor: the signature of an event is recorded before the rate limit drops the event, so the last
  state of a burst is not sent when it is repeated (`worker/monitorWorker.ts:178`).
- monitor: an update that takes a symbol away drops its rate window (`trimDbSamplingState`, `worker/monitorWorker.ts:267`), so a
  symbol given back in the same second may have up to twice its limit of events in it.
- monitor: a bucket whose insert fails after a later bucket was marked stays without a row.
- monitor: the stale flag is computed when a top is stored, so events go on with the old quote
  of a feed that stopped; a snapshot older than the delta it overtook replaces the top;
  an insert given up by `withTimeout` may still write its row, and a second one follows.
- candidate board: a window with more rows than the limit keeps the oldest ones (`ORDER BY`
  ascending with a `LIMIT`, `control/spreadReadRepository.ts:148`), so the "latest" sample is an old one;
  the move of the last minute compares an edge with the larger of two directions, so a steady series may
  look like a spike (`strategy/basisCandidateEngine.ts:222`).
- timeline page: answers to two changes of the symbol that come in the other order leave the older
  symbol's pairs offered under the newer one (`control/timelinePage.ts:924`); a start that fails leaves a page
  that never polls.
- alert-bar: nothing tells the bar of an eviction at the hub, so an alert the hub has dropped
  stays unacknowledged in the tray until the next snapshot.

## 7. Plan

Done, in this order: `AlertStore` with its abstract log and proofs (the smallest
component with a two-container invariant), `AlertSystem`, `BasisOrder`,
`ArbEngine`, `MonitorPipeline`, `PairedLimit` with its proofs, `MonitorWorkers`;
then `NewsFeed`, `PriceFeed`, `OrderSizing`, `BasisEngine` with `BasisCandidates`, `TimelinePage`, and
`MeanReversion` with its proofs; then the proofs about every other safety property that a run checks.

Next, by weight of what can go wrong:

1. Safety of the board and of the timeline page, about which so far only liveness is stated.
2. The DeepBook connector, the retention purge, the health reports of the workers.
3. Rounding and prices of arb-engine (`limitPricing.ts`), and a base quantity shared by both legs.

## 8. Not modelled, and why

- Rendering (the drawing in `apps/*/tui`, `apps/alert-bar/ui`, `tray.ts`, the charts of
  `src/control`), the mean-reversion page (it asks once per click and keeps nothing), the health and metrics
  routes, probes and one-shot scripts: output, no state of their own.
- Payload normalisation of the hub and the alert SDK: stateless; the models' alerts are
  their results, and a post that is lost is an alert the hub never sees.
- Prices, sides and rounding in `BasisOrder`, `ArbEngine` and `PairedLimit`: quantities are whole lots and a
  spread is high, mid or low; the rounding of basis-cli is `OrderSizing`, that of arb-engine is in the plan.
- Paper mode: a fill that always succeeds is a behaviour of live mode.
- HTTP, NATS, PostgreSQL and the exchanges: modelled by what their callers see — success,
  refusal, an exception before or after the effect, and delay.
