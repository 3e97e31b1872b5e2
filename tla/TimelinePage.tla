---------------------------- MODULE TimelinePage ----------------------------
(***************************************************************************)
(* The timeline page of the monitor (src/src/control/timelinePage.ts): the *)
(* symbol typed or chosen, the pairs of exchanges offered for it, and the  *)
(* refreshes that draw the chart, the labels and the funding summary.      *)
(*                                                                         *)
(* A task is one run of a handler.  A change of symbol loads the pairs     *)
(* first and then refreshes; a click, a change of pair or the poll only    *)
(* refreshes; the start of the page loads the symbols, then the pairs, then*)
(* refreshes, and only then begins to poll.  Each request is an await      *)
(* during which the others go on, and nothing orders their answers.        *)
(***************************************************************************)
EXTENDS Integers, Sequences, SequencesExt

CONSTANTS
  PageSymbols,      \* what may be typed
  SymbolList,       \* answer of /api/symbols, a sequence
  PairsOf,          \* answer of /api/exchange-pairs for each symbol, a sequence
  None,             \* no symbol, no pair
  Tasks,            \* handlers that may be under way at once, the start among them
  Booting,          \* the task of the start of the page
  MaxPicks,         \* bound on changes of the symbol and of the pair
  MaxLost           \* bound on failed requests

ASSUME PageAssumption ==
  /\ Booting \in Tasks /\ None \notin PageSymbols
  /\ SymbolList # <<>> /\ ToSet(SymbolList) \subseteq PageSymbols
  /\ DOMAIN PairsOf = PageSymbols
  /\ {MaxPicks, MaxLost} \subseteq Nat

VARIABLES
  symbol,   \* the value of the symbol box
  options,  \* the pairs offered
  pair,     \* the pair selected among them
  labels,   \* the pair the labels name
  chart,    \* what the chart shows: [symbol, pair]
  funding,  \* the symbol the funding summary is about, None for dashes
  tasks,    \* handlers under way: [stage, symbol, pair]
  polling,  \* the poller is set
  picks, lost

pageVars == <<symbol, options, pair, labels, chart, funding, tasks, polling, picks, lost>>

NoTask == [stage |-> "none", symbol |-> None, pair |-> None]

Await(t, stage, s, p) ==
  tasks' = [tasks EXCEPT ![t] = [stage |-> stage, symbol |-> s, pair |-> p]]

\* The handler ends; the end of the start sets the poller.
TaskEnds(t) ==
  /\ tasks' = [tasks EXCEPT ![t] = NoTask]
  /\ polling' = (polling \/ t = Booting)

---------------------------------------------------------------------------
(* Symbols and pairs *)

SymbolsArrive ==
  /\ tasks[Booting].stage = "symbols"
  /\ symbol' = Head(SymbolList)
  /\ Await(Booting, "pairs", Head(SymbolList), None)
  /\ UNCHANGED <<options, pair, labels, chart, funding, polling, picks, lost>>

\* A change of the symbol box.
PickSymbol(t, s) ==
  /\ tasks[t] = NoTask /\ t # Booting
  /\ picks < MaxPicks
  /\ picks' = picks + 1
  /\ symbol' = s
  /\ Await(t, "pairs", s, None)
  /\ UNCHANGED <<options, pair, labels, chart, funding, polling, lost>>

\* The pairs of the symbol asked for replace those offered, whatever the box now
\* says; the first is selected.  With none to offer the handler throws.
PairsArrive(t) ==
  LET offered == PairsOf[tasks[t].symbol]
  IN  /\ tasks[t].stage = "pairs"
      /\ options' = offered
      /\ IF offered = <<>>
           THEN /\ pair' = None
                /\ tasks' = [tasks EXCEPT ![t] = NoTask]
                /\ labels' = labels
           ELSE /\ pair' = Head(offered)
                /\ labels' = Head(offered)
                /\ Await(t, "funding", symbol, None)
      /\ UNCHANGED <<symbol, chart, funding, polling, picks, lost>>

\* The symbols or the pairs could not be had: the handler throws, and the start
\* of the page is over without a poller.
ListIsLost(t) ==
  /\ tasks[t].stage \in {"symbols", "pairs"}
  /\ lost < MaxLost
  /\ lost' = lost + 1
  /\ tasks' = [tasks EXCEPT ![t] = NoTask]
  /\ UNCHANGED <<symbol, options, pair, labels, chart, funding, polling, picks>>

---------------------------------------------------------------------------
(* Refreshes *)

\* A refresh asks for the rates of the symbol in the box.
BeginRefresh(t) ==
  /\ tasks[t] = NoTask /\ t # Booting
  /\ symbol # None
  /\ Await(t, "funding", symbol, None)

\* The button, or the poll of every five seconds.
RefreshPage(t) ==
  /\ BeginRefresh(t)
  /\ UNCHANGED <<symbol, options, pair, labels, chart, funding, polling, picks, lost>>

PickPair(t, p) ==
  /\ p \in ToSet(options) \ {pair}
  /\ picks < MaxPicks
  /\ picks' = picks + 1
  /\ pair' = p
  /\ labels' = p
  /\ BeginRefresh(t)
  /\ UNCHANGED <<symbol, options, chart, funding, polling, lost>>

\* The rates are shown, or dashes for want of an answer; the timeline is then
\* asked for with the symbol and the pair of that moment.
FundingIsShown(t, about) ==
  /\ tasks[t].stage = "funding"
  /\ funding' = about
  /\ Await(t, "timeline", symbol, pair)
  /\ UNCHANGED <<symbol, options, pair, labels, chart, polling, picks>>

RatesArrive(t) == FundingIsShown(t, tasks[t].symbol) /\ lost' = lost

RatesAreLost(t) ==
  /\ lost < MaxLost
  /\ lost' = lost + 1
  /\ FundingIsShown(t, None)

\* Without a pair the rows of every pair of the symbol answer; a pair the symbol
\* does not have gives an empty chart under its name.
PairShown(s, p) ==
  IF p = None /\ PairsOf[s] # <<>> THEN Head(PairsOf[s]) ELSE p

\* Mutant: the chart is drawn again for another symbol only.
DrawsNewSymbols(t) ==
  /\ tasks[t].stage = "timeline"
  /\ chart' = [symbol |-> tasks[t].symbol,
               pair |-> IF tasks[t].symbol = chart.symbol THEN chart.pair ELSE tasks[t].pair]
  /\ labels' = PairShown(tasks[t].symbol, tasks[t].pair)
  /\ TaskEnds(t)
  /\ UNCHANGED <<symbol, options, pair, funding, picks, lost>>

TimelineArrives(t) ==
  /\ tasks[t].stage = "timeline"
  /\ chart' = [symbol |-> tasks[t].symbol, pair |-> tasks[t].pair]
  /\ labels' = IF tasks[t].pair \in ToSet(PairsOf[tasks[t].symbol]) \cup {None}
                 THEN PairShown(tasks[t].symbol, tasks[t].pair)
                 ELSE pair
  /\ TaskEnds(t)
  /\ UNCHANGED <<symbol, options, pair, funding, picks, lost>>

\* The refresh reports the error in the foot of the page and ends.
TimelineIsLost(t) ==
  /\ tasks[t].stage = "timeline"
  /\ lost < MaxLost
  /\ lost' = lost + 1
  /\ TaskEnds(t)
  /\ UNCHANGED <<symbol, options, pair, labels, chart, funding, picks>>

---------------------------------------------------------------------------

PageInit ==
  /\ symbol = None /\ options = <<>> /\ pair = None /\ labels = None
  /\ chart = [symbol |-> None, pair |-> None]
  /\ funding = None
  /\ tasks = [t \in Tasks |-> IF t = Booting THEN [NoTask EXCEPT !.stage = "symbols"]
                                               ELSE NoTask]
  /\ polling = FALSE
  /\ picks = 0 /\ lost = 0

PageNext ==
  \/ SymbolsArrive
  \/ \E t \in Tasks :
       \/ PairsArrive(t) \/ ListIsLost(t) \/ RefreshPage(t)
       \/ RatesArrive(t) \/ RatesAreLost(t) \/ TimelineArrives(t) \/ TimelineIsLost(t)
       \/ \E s \in PageSymbols : PickSymbol(t, s)
       \/ \E p \in ToSet(options) : PickPair(t, p)

\* Every request ends, and the poller, once set, goes on refreshing.
PageFairness ==
  /\ WF_pageVars(SymbolsArrive)
  /\ \A t \in Tasks : WF_pageVars(PairsArrive(t) \/ RatesArrive(t) \/ TimelineArrives(t))
  /\ WF_pageVars(\E t \in Tasks : polling /\ RefreshPage(t))

\* Once the page polls and the user has come to rest, the chart is that of the
\* symbol and the pair that are selected and the funding summary is about that
\* symbol, for good: no refresh that was overtaken, and no failed request, leaves
\* the data of another symbol or pair on the page.
PageFollows ==
  <>[](polling => /\ chart = [symbol |-> symbol, pair |-> pair]
                  /\ funding = symbol)
=============================================================================
