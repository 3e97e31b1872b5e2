-------------------------- MODULE MCMonitorWorkers --------------------------
(***************************************************************************)
(* The main thread of the monitor and what it serves, one part at a time:  *)
(* the parts share no state but the table of spreads, which the pages only *)
(* read, so a run takes one of them and leaves the others at rest - the    *)
(* workers dead, the pages closed.  A part at rest has no step that        *)
(* fairness could ask for.                                                 *)
(*                                                                         *)
(* Workers: three symbols, two of them in the first shard; a core of two;  *)
(* the exchanges list all three, or the discovery fails.                   *)
(* Board: a symbol of the core with a steady series of four rows, of which *)
(* the query returns three, or two that make a spike, or none; and one of  *)
(* the watch list.  Timeline: a symbol with two pairs, one with one of     *)
(* them, one with none.  Reversion: a series of eight bars.                *)
(***************************************************************************)
EXTENDS MonitorWorkers, BasisCandidates, TimelinePage, MeanReversion

VARIABLE part

MCHash == <<4, 2, 1>>
MCConfig == <<3, 2>>
MCListings == {{1, 2, 3}}
MCPuts == {<<2>>, <<3, 2, 1>>}

Row(age, aToB, bToA) == [age |-> age, aToB |-> aToB, bToA |-> bToA]
Steady == <<Row(30, 50, 9), Row(2, 12, 2), Row(1, 14, 2), Row(0, 13, 2)>>
Jump == <<Row(2, 5, 11), Row(0, 6, 30)>>
MCHistories == {Steady, Jump, <<>>}
Rate(pct) == [known |-> TRUE, pct |-> pct, hours |-> 8]
Cheap == [binance |-> Rate(50), okx |-> Rate(-99)]
Dear == [binance |-> Rate(100), okx |-> Rate(50)]
MCRatePairs == {Cheap, Dear}
MCLosses == {{"okx"}}
Form(mode, minScore, onlyCore, profitable, sort, limit) ==
    [mode |-> mode, minScore |-> minScore, onlyCore |-> onlyCore,
     profitable |-> profitable, sort |-> sort, limit |-> limit]
Wide == Form("all", 2, FALSE, "all", "score", 5)
Spikes == Form("spike", 0, TRUE, "true", "netBps", 1)
MCQueries == {Wide, Spikes}
MCCore == <<"c">>
MCWatch == <<"w">>

MCSymbolList == <<"s1", "s2">>
MCPairsOf == [s \in PageSymbols |->
                CASE s = "s1" -> <<"binance|okx", "okx|binance">>
                  [] s = "s2" -> <<"binance|okx">>
                  [] OTHER -> <<>>]

-----------------------------------------------------------------------------
WorkersAtRest ==
    /\ answer = {} /\ lastGood = ToSet(Config) /\ discovered = ToSet(Config)
    /\ preferred = Config /\ assigned = Selected(ToSet(Config), Config)
    /\ inbox = [w \in Workers |-> <<>>]
    /\ worker = [w \in Workers |-> "dead"]
    /\ symbols = [w \in Workers |-> Shard(assigned, w)]
    /\ queue = [w \in Workers |-> [c \in Conns |-> "none"]]
    /\ current = [w \in Workers |-> [c \in Conns |-> 0]]
    /\ chains = [w \in Workers |-> [c \in Conns |-> [i \in ChainIds |-> NoChain]]]

BoardStarts ==
    /\ BoardInit
    /\ market = [s \in BoardSymbols |-> IF s = "c" THEN Jump ELSE <<>>]
    /\ rates = [s \in BoardSymbols |-> Cheap]
    /\ query = Wide

\* The page is closed and was right when it was.
BoardAtRest ==
    /\ market = [s \in BoardSymbols |-> <<>>]
    /\ rates = [s \in BoardSymbols |-> Cheap]
    /\ view = "all" /\ query = Wide
    /\ rows = BoardNow
    /\ refreshes = [r \in Refreshes |-> [Idle EXCEPT !.stage = "closed"]]
    /\ cache = [s \in BoardSymbols |-> NotCached]
    /\ pending = {} /\ changes = 0 /\ failures = 0

PageAtRest ==
    /\ symbol = None /\ options = <<>> /\ pair = None /\ labels = None
    /\ chart = [symbol |-> None, pair |-> None] /\ funding = None
    /\ tasks = [t \in Tasks |-> [NoTask EXCEPT !.stage = "closed"]]
    /\ polling = FALSE /\ picks = 0 /\ lost = 0

MCInit ==
    \/ part = "workers" /\ Init /\ BoardAtRest /\ PageAtRest /\ ReversionInit
    \/ part = "board" /\ WorkersAtRest /\ BoardStarts /\ PageAtRest /\ ReversionInit
    \/ part = "timeline" /\ WorkersAtRest /\ BoardAtRest /\ PageInit /\ ReversionInit
    \/ part = "reversion" /\ WorkersAtRest /\ BoardAtRest /\ PageAtRest /\ ReversionInit

SeriesIsOver == Len(bars) = MaxBars /\ UNCHANGED reversionVars

MCNext ==
    /\ UNCHANGED part
    /\ \/ part = "workers" /\ Next /\ UNCHANGED <<boardVars, pageVars, reversionVars>>
       \/ part = "board" /\ BoardNext /\ UNCHANGED <<vars, pageVars, reversionVars>>
       \/ part = "timeline" /\ PageNext /\ UNCHANGED <<vars, boardVars, reversionVars>>
       \/ /\ part = "reversion" /\ (ReversionNext \/ SeriesIsOver)
          /\ UNCHANGED <<vars, boardVars, pageVars>>

MCSpec ==
    /\ MCInit /\ [][MCNext]_<<part, vars, boardVars, pageVars, reversionVars>>
    /\ Fairness /\ BoardFairness /\ PageFairness
=============================================================================
