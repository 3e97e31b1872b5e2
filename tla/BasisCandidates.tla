-------------------------- MODULE BasisCandidates --------------------------
(***************************************************************************)
(* The candidate board of the monitor: the service that evaluates every    *)
(* symbol from the stored spreads (src/src/control/basisCandidatesService  *)
(* .ts), the cache of funding rates with its shared fetches                *)
(* (fundingRatesService.ts), the filter of the recommended view            *)
(* (recommendedCandidates.ts), the two routes that use them                *)
(* (httpServer.ts) and the page that polls them (basisCandidatesPage.ts).  *)
(*                                                                         *)
(* A refresh of the page crosses three awaits: the listing, the funding    *)
(* rates that qualify a recommended candidate, and the funding rates the   *)
(* page shows.  Refreshes are not sequenced: several may be under way, one *)
(* for each poll or click, and the last to end draws the board.  The rows  *)
(* of a symbol are read at one instant; sample ages are those at which the *)
(* board is read.                                                          *)
(***************************************************************************)
EXTENDS BasisEngine, SequencesExt, TLC

CONSTANTS
  CoreSymbols, WatchSymbols, \* the two pools, as sequences
  Histories,      \* stored rows a symbol may have, each a sequence, oldest first
  StableMinutes,  \* stableWindowMs
  RowLimit,       \* 1200 rows per query
  RatePairs,      \* what the venues may quote: [binance |-> rate, okx |-> rate]
  Losses,         \* sets of venues that may fail one fetch
  Queries,        \* settings of the form: [mode, minScore, onlyCore, profitable, sort, limit]
  Refreshes,      \* refreshes of the page that may be under way at once
  MaxChanges,     \* bound on moves of the market, of the rates and of the form
  MaxFailures     \* bound on failed requests

ASSUME BoardAssumption ==
  /\ RowLimit \in Nat \ {0} /\ StableMinutes \in Nat
  /\ {MaxChanges, MaxFailures} \subseteq Nat

VARIABLES
  market,    \* rows stored for each symbol
  rates,     \* what the venues quote for each symbol
  view,      \* currentView of the page
  query,     \* the settings of its form
  rows,      \* what its table shows
  refreshes, \* the refreshes under way
  cache,     \* funding rates known for each symbol
  pending,   \* symbols being fetched
  changes, failures

boardVars == <<market, rates, view, query, rows, refreshes, cache, pending,
               changes, failures>>

BoardSymbols == ToSet(CoreSymbols) \cup ToSet(WatchSymbols)

NoRate == [known |-> FALSE, pct |-> 0, hours |-> 0]
NoPair == [binance |-> NoRate, okx |-> NoRate]
NotCached == [cached |-> FALSE, pair |-> NoPair]
Idle == [stage |-> "none", view |-> "all", query |-> CHOOSE q \in Queries : TRUE,
         items |-> <<>>, wanted |-> {}, funding |-> [s \in {} |-> NoPair]]

---------------------------------------------------------------------------
(* Listing candidates *)

\* The oldest rows of the window, when it holds more than the limit.
Recent(history, minutes) ==
  LET inWindow == SelectSeq(history, LAMBDA p : p.age <= minutes)
  IN  SubSeq(inWindow, 1, Least(RowLimit, Len(inWindow)))

\* What the service makes of each history, as a table.
Evaluation == [h \in Histories |-> Evaluate(Recent(h, StableMinutes))]

\* A stable sort, the largest key first; keys[i] is that of items[i].
SortedBy(items, keys) ==
  LET order == SortSeq([i \in DOMAIN items |-> i],
                 LAMBDA i, j : keys[i] > keys[j] \/ (keys[i] = keys[j] /\ i < j))
  IN  [k \in DOMAIN order |-> items[order[k]]]

SortKey(item, sort) ==
  CASE sort = "netBps" -> Magnitude(item.result.net)
    [] sort = "updatedAt" -> -item.result.age
    [] sort = "entryToTp" -> item.result.reach
    [] OTHER -> item.result.score

Passes(item, q) ==
  /\ item.result.score >= q.minScore
  /\ q.onlyCore => item.pool = "core"
  /\ q.mode = "stable" => item.result.stable
  /\ q.mode = "spike" => item.result.spike
  /\ q.profitable = "true" => item.result.profitable
  /\ q.profitable = "false" => ~item.result.profitable

FilterAndSort(items, q) ==
  LET passing == SelectSeq(items, LAMBDA i : Passes(i, q))
      sorted == SortedBy(passing, [i \in DOMAIN passing |-> SortKey(passing[i], q.sort)])
  IN  SubSeq(sorted, 1, Least(Most(1, Least(500, q.limit)), Len(sorted)))

SourceSymbols(q) ==
  IF q.onlyCore THEN CoreSymbols
  ELSE CoreSymbols \o SelectSeq(WatchSymbols, LAMBDA s : s \notin ToSet(CoreSymbols))

\* listCandidates: every symbol of the pools evaluated on the rows of its window.
Candidates(q) ==
  LET symbols == SourceSymbols(q)
      item(s) == [symbol |-> s,
                  pool |-> IF s \in ToSet(CoreSymbols) THEN "core" ELSE "watch",
                  result |-> Evaluation[market[s]]]
  IN  FilterAndSort([i \in DOMAIN symbols |-> item(symbols[i])], q)

SymbolsOf(items) == {items[i].symbol : i \in DOMAIN items}

---------------------------------------------------------------------------
(* The recommended view *)

\* computeMaxBps1hBySymbol: the largest spread among the rows read for the hour.
BestOf(read) ==
  LET spreads == {read[i].aToB : i \in DOMAIN read} \cup {read[i].bToA : i \in DOMAIN read}
  IN  IF spreads = {} THEN [known |-> FALSE, bps |-> 0]
      ELSE [known |-> TRUE, bps |-> Max(spreads)]

BestInHour == [h \in Histories |-> BestOf(Recent(h, 60))]

HourBest(symbol) == BestInHour[market[symbol]]

\* Percentages are in hundredths of MAX_FUNDING_RATE_PCT_ABS.
Qualifies(rate) == rate.known /\ Magnitude(rate.pct) < 100 /\ rate.hours >= 4

\* By the best of the hour, then by net edge; the symbols without an hour come
\* last and keep their order, since the difference of two infinities is NaN.
Recommended(items, funding) ==
  LET kept == SelectSeq(items, LAMBDA i : /\ Qualifies(funding[i.symbol].binance)
                                          /\ Qualifies(funding[i.symbol].okx))
      byNet == SortedBy(kept, [i \in DOMAIN kept |-> kept[i].result.net])
      known == SelectSeq(byNet, LAMBDA i : HourBest(i.symbol).known)
      unknown == SelectSeq(kept, LAMBDA i : ~HourBest(i.symbol).known)
  IN  SortedBy(known, [i \in DOMAIN known |-> HourBest(known[i].symbol).bps]) \o unknown

---------------------------------------------------------------------------
(* Funding rates: a cache, and one fetch per symbol for all who ask *)

Missing(symbols) == {s \in symbols : ~cache[s].cached}

\* A refresh asks for the rates of its items: what is cached is had at once,
\* what is being fetched is waited for, the rest is fetched.
AskFunding(r, stage, items) ==
  LET symbols == SymbolsOf(items)
      had == symbols \ Missing(symbols)
  IN  /\ refreshes' = [refreshes EXCEPT
           ![r].stage = stage, ![r].items = items, ![r].wanted = Missing(symbols),
           ![r].funding = [s \in had |-> cache[s].pair]]
      /\ pending' = pending \cup Missing(symbols)

\* A fetch settles: each venue has answered or failed, which only loses its rate.
FundingArrives(s) ==
  \E lost \in Losses \cup {{}} :
    LET pair == [venue \in {"binance", "okx"} |->
                   IF venue \in lost THEN NoRate ELSE rates[s][venue]]
    IN  /\ s \in pending
        /\ lost # {} => failures < MaxFailures
        /\ failures' = IF lost = {} THEN failures ELSE failures + 1
        /\ cache' = [cache EXCEPT ![s] = [cached |-> TRUE, pair |-> pair]]
        /\ pending' = pending \ {s}
        /\ refreshes' = [r \in Refreshes |->
             IF s \in refreshes[r].wanted
               THEN [refreshes[r] EXCEPT !.wanted = @ \ {s},
                                         !.funding = (s :> pair) @@ @]
               ELSE refreshes[r]]
        /\ UNCHANGED <<market, rates, view, query, rows, changes>>

\* The time to live of an entry is over.
CacheExpires(s) ==
  /\ cache[s].cached
  /\ cache' = [cache EXCEPT ![s] = NotCached]
  /\ UNCHANGED <<market, rates, view, query, rows, refreshes, pending, changes, failures>>

---------------------------------------------------------------------------
(* A refresh of the page *)

Begin(r, v) ==
  /\ refreshes[r] = Idle
  /\ refreshes' = [refreshes EXCEPT ![r].stage = "listing", ![r].view = v, ![r].query = query]

\* The poll of every five seconds, or the refresh button.
PollBoard(r) ==
  /\ Begin(r, view)
  /\ UNCHANGED <<market, rates, view, query, rows, cache, pending, changes, failures>>

Table(items, funding, v) ==
  [note |-> IF items = <<>> THEN v ELSE "candidates",
   lines |-> [i \in DOMAIN items |-> [item |-> items[i], funding |-> funding[items[i].symbol]]]]

\* Mutant: an empty answer leaves the table as it is.
KeepsOldRows(r, items) ==
  IF items = <<>>
    THEN /\ refreshes' = [refreshes EXCEPT ![r] = Idle]
         /\ UNCHANGED <<rows, pending>>
    ELSE AskFunding(r, "showing", items) /\ rows' = rows

\* The page has the answer of its first request: an empty one is drawn at once
\* under the view of that moment, for any other the rates to show are asked for.
PageGets(r, items) ==
  IF items = <<>>
    THEN /\ rows' = Table(items, refreshes[r].funding, view)
         /\ refreshes' = [refreshes EXCEPT ![r] = Idle]
         /\ pending' = pending
    ELSE /\ AskFunding(r, "showing", items)
         /\ rows' = rows

\* The route has listed the candidates; the recommended view needs their rates.
RefreshIsListed(r) ==
  LET items == Candidates(refreshes[r].query)
  IN  /\ refreshes[r].stage = "listing"
      /\ IF refreshes[r].view = "recommended"
           THEN AskFunding(r, "qualifying", items) /\ rows' = rows
           ELSE PageGets(r, items)
      /\ UNCHANGED <<market, rates, view, query, cache, changes, failures>>

RefreshIsQualified(r) ==
  /\ refreshes[r].stage = "qualifying"
  /\ refreshes[r].wanted = {}
  /\ PageGets(r, Recommended(refreshes[r].items, refreshes[r].funding))
  /\ UNCHANGED <<market, rates, view, query, cache, changes, failures>>

RefreshIsShown(r) ==
  /\ refreshes[r].stage = "showing"
  /\ refreshes[r].wanted = {}
  /\ rows' = Table(refreshes[r].items, refreshes[r].funding, view)
  /\ refreshes' = [refreshes EXCEPT ![r] = Idle]
  /\ UNCHANGED <<market, rates, view, query, cache, pending, changes, failures>>

\* The candidates could not be read, and the board stays as it is; or only the
\* rates to show could not, and the board is drawn without them.
RefreshFails(r) ==
  /\ refreshes[r].stage # "none"
  /\ failures < MaxFailures
  /\ failures' = failures + 1
  /\ rows' = IF refreshes[r].stage = "showing"
               THEN Table(refreshes[r].items, [s \in BoardSymbols |-> NoPair], view)
               ELSE rows
  /\ refreshes' = [refreshes EXCEPT ![r] = Idle]
  /\ UNCHANGED <<market, rates, view, query, cache, pending, changes>>

---------------------------------------------------------------------------
(* Clicks, and the world *)

Change == changes < MaxChanges /\ changes' = changes + 1

ChooseView(r, v) ==
  /\ Change
  /\ view' = v
  /\ Begin(r, v)
  /\ UNCHANGED <<market, rates, query, rows, cache, pending, failures>>

\* The form has no handler of its own: its next refresh reads it.
ChangeQuery(q) ==
  /\ Change
  /\ q # query
  /\ query' = q
  /\ UNCHANGED <<market, rates, view, rows, refreshes, cache, pending, failures>>

MarketMoves(s) ==
  /\ Change
  /\ \E h \in Histories \ {market[s]} : market' = [market EXCEPT ![s] = h]
  /\ UNCHANGED <<rates, view, query, rows, refreshes, cache, pending, failures>>

RatesMove(s) ==
  /\ Change
  /\ \E p \in RatePairs \ {rates[s]} : rates' = [rates EXCEPT ![s] = p]
  /\ UNCHANGED <<market, view, query, rows, refreshes, cache, pending, failures>>

BoardInit ==
  /\ market \in [BoardSymbols -> Histories]
  /\ rates \in [BoardSymbols -> RatePairs]
  /\ view = "all" /\ query \in Queries
  /\ rows = [note |-> "loading", lines |-> <<>>]
  /\ refreshes = [r \in Refreshes |-> Idle]
  /\ cache = [s \in BoardSymbols |-> NotCached]
  /\ pending = {}
  /\ changes = 0 /\ failures = 0

BoardNext ==
  \/ \E r \in Refreshes :
       \/ PollBoard(r) \/ RefreshIsListed(r) \/ RefreshIsQualified(r)
       \/ RefreshIsShown(r) \/ RefreshFails(r)
       \/ \E v \in {"all", "recommended"} : ChooseView(r, v)
  \/ \E q \in Queries : ChangeQuery(q)
  \/ \E s \in BoardSymbols :
       FundingArrives(s) \/ CacheExpires(s) \/ MarketMoves(s) \/ RatesMove(s)

\* The page polls for as long as it is open, every request ends, and time passes.
BoardFairness ==
  /\ \A r \in Refreshes :
       WF_boardVars(RefreshIsListed(r) \/ RefreshIsQualified(r) \/ RefreshIsShown(r))
  /\ WF_boardVars(\E r \in Refreshes : PollBoard(r))
  /\ \A s \in BoardSymbols : WF_boardVars(FundingArrives(s)) /\ WF_boardVars(CacheExpires(s))

---------------------------------------------------------------------------
(* What the board promises *)

\* The board as the market, the rates, the view and the form now are.
BoardNow ==
  LET listed == Candidates(query)
      items == IF view = "recommended" THEN Recommended(listed, rates) ELSE listed
  IN  Table(items, rates, view)

\* When the market, the rates and the user have come to rest, the board comes to
\* show what they are and stays so: no refresh under way, overtaken or failed, no
\* entry of the cache and no fetch shared with an older refresh holds it back.
BoardSettles == <>[](rows = BoardNow)
=============================================================================
