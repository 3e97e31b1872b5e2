------------------------------ MODULE ArbEngine ------------------------------
(***************************************************************************)
(* The arbitrage engine (apps/arb-engine) in live mode: the event loop of  *)
(* index.ts, the signal engine, the state store and risk guard it reads,   *)
(* the execution router, the position reconciler on its interval, the      *)
(* control API, and the positions the two exchanges hold.                  *)
(*                                                                         *)
(* An action is the code between two awaits.  The loop is sequential, but  *)
(* the control API and the reconciler run between its awaits.              *)
(*                                                                         *)
(* Abstractions.  A net spread is high (at or above open_bps), low (at or  *)
(* below close_bps) or mid; normalizeThresholds keeps the two apart, and   *)
(* a book that is not crossed is high in one direction at most.  Every     *)
(* order is one unit (notional_usdt); accounts are in one-way mode, so a   *)
(* position is a signed number; a market order executes whole or not.      *)
(***************************************************************************)
EXTENDS Integers, Sequences, FiniteSets

CONSTANTS
    Symbols,   \* the symbols the engine may be configured for
    Readers,   \* bound: reconciliations in flight at a time
    MaxQueue,  \* bound: spread events waiting in the subscription
    MaxPos,    \* bound: units the exchanges' margin allows
    Overlap,   \* a reconciliation may be in flight during an execution
    Operator,  \* what the control API is used for
    Faults     \* what may go wrong

ASSUME ArbAssumption ==
    /\ Symbols # {} /\ IsFiniteSet(Symbols) /\ Readers # {} /\ IsFiniteSet(Readers)
    /\ MaxQueue \in Nat \ {0} /\ MaxPos \in Nat \ {0} /\ Overlap \in BOOLEAN
    /\ Operator \subseteq {"mode", "symbols"}
    /\ Faults \subseteq {"open refused", "close refused", "answer lost", "price failed",
                         "read failed", "stale event", "flagged event", "crash"}

VARIABLES
    engine,    \* starting, running or down
    mode,      \* StateStore.riskMode
    open,      \* StateStore.positions: isOpen of each symbol and direction
    symbols,   \* config.strategy.symbols
    queue,     \* events the subscription holds for the loop
    exec,      \* the intents of the event being worked on, and the order legs
    reader,    \* reconciliations: symbols still to do, positions already read
    pos,       \* the exchanges: position of each symbol
    missed     \* history: symbols of which a reconciliation has recorded no
               \*   pair though there was one, and none found flat since

vars == <<engine, mode, open, symbols, queue, exec, reader, pos, missed>>

Ex == {"binance", "okx"}
Directions == {"binance_to_okx", "okx_to_binance"}
Modes == {"normal", "close_only"}
Levels == {l \in [Directions -> {"high", "mid", "low"}] : \E d \in Directions : l[d] # "high"}
Events == [symbol : Symbols, level : Levels,
           flagged : IF "flagged event" \in Faults THEN BOOLEAN ELSE {FALSE}]
Intents == [action : {"open", "close"}, direction : Directions]

Buyer(d) == IF d = "binance_to_okx" THEN "binance" ELSE "okx"
Seller(d) == IF d = "binance_to_okx" THEN "okx" ELSE "binance"
(* The exchanges hold both legs of direction d. *)
Paired(s, d) == pos[Buyer(d)][s] > 0 /\ pos[Seller(d)][s] < 0
Sign(n) == IF n > 0 THEN 1 ELSE IF n < 0 THEN -1 ELSE 0

NoLegs == [ex \in Ex |-> "wait"]
NoExec == [stage |-> "none", symbol |-> CHOOSE s \in Symbols : TRUE, intents |-> <<>>,
           legs |-> NoLegs]
Executing == exec.stage # "none"
Intent == Head(exec.intents)

NotReading == [todo |-> {}, seen |-> [ex \in Ex |-> {}]]
Reading(r) == reader[r].todo # {}
SomeoneReads == \E r \in Readers : Reading(r)
Flat == [s \in Symbols |-> [d \in Directions |-> FALSE]]

Up == engine # "down"

Init ==
    /\ engine = "starting"
    /\ mode = "normal"
    /\ open = Flat
    /\ symbols = Symbols
    /\ queue = <<>>
    /\ exec = NoExec
    /\ \E first \in Readers :
         reader = [r \in Readers |-> IF r = first THEN [NotReading EXCEPT !.todo = Symbols]
                                                  ELSE NotReading]
    /\ pos = [ex \in Ex |-> [s \in Symbols |-> 0]]
    /\ missed = {}

(* The first reconciliation has ended, whatever it found: the mode is       *)
(* forced to normal and the stream is subscribed to.                        *)
Started ==
    /\ engine = "starting" /\ ~ SomeoneReads
    /\ engine' = "running"
    /\ mode' = "normal"
    /\ UNCHANGED <<open, symbols, queue, exec, reader, pos, missed>>

-----------------------------------------------------------------------------
(* The event loop. *)

Publish(e) ==
    /\ engine = "running" /\ Len(queue) < MaxQueue
    /\ queue' = Append(queue, e)
    /\ UNCHANGED <<engine, mode, open, symbols, exec, reader, pos, missed>>

(* SignalEngine.evaluateDirection, with the risk mode m of now.             *)
IntentOf(e, d, m) ==
    IF ~ open[e.symbol][d]
    THEN IF ~ e.flagged /\ m = "normal" /\ e.level[d] = "high"
         THEN <<[action |-> "open", direction |-> d]>> ELSE <<>>
    ELSE IF e.level[d] = "low"
         THEN <<[action |-> "close", direction |-> d]>> ELSE <<>>

(* Mutant: a position that is open does not keep from opening. *)
EvaluateAlwaysOpens(e, m) ==
    IF e.symbol \in symbols /\ ~ e.flagged /\ m = "normal"
    THEN LET hot == {d \in Directions : e.level[d] = "high"}
         IN  IF hot = {} THEN <<>>
             ELSE <<[action |-> "open", direction |-> CHOOSE d \in hot : TRUE]>>
    ELSE <<>>

(* Mutant: nothing is closed in close_only either. *)
EvaluateNormalOnly(e, m) ==
    IF e.symbol \in symbols /\ m = "normal"
    THEN IntentOf(e, "binance_to_okx", m) \o IntentOf(e, "okx_to_binance", m)
    ELSE <<>>

Evaluate(e, m) ==
    IF e.symbol \in symbols
    THEN IntentOf(e, "binance_to_okx", m) \o IntentOf(e, "okx_to_binance", m)
    ELSE <<>>

(* RiskGuard.onEvent, then evaluate: the intents of both directions are     *)
(* decided here, before the first of them is executed.                      *)
TakeEvent ==
    /\ engine = "running" /\ ~ Executing /\ queue # <<>>
    /\ Overlap \/ ~ SomeoneReads
    /\ LET e == Head(queue)
       IN  /\ mode' = IF e.flagged THEN "close_only" ELSE mode
           /\ \E is \in {Evaluate(e, mode')}
                        \union (IF "stale event" \in Faults THEN {<<>>} ELSE {}) :
                 exec' = IF is = <<>> THEN NoExec
                         ELSE [stage |-> "price", symbol |-> e.symbol, intents |-> is,
                               legs |-> NoLegs]
    /\ queue' = Tail(queue)
    /\ UNCHANGED <<engine, open, symbols, reader, pos, missed>>

(* The reference price and both quantities are known: the legs are sent.    *)
SendLegs ==
    /\ engine = "running" /\ exec.stage = "price"
    /\ exec' = [exec EXCEPT !.stage = "legs"]
    /\ UNCHANGED <<engine, mode, open, symbols, queue, reader, pos, missed>>

(* router.execute throws: the remaining intents are dropped.                *)
PriceFailed ==
    /\ engine = "running" /\ exec.stage = "price" /\ "price failed" \in Faults
    /\ mode' = "close_only"
    /\ exec' = NoExec
    /\ UNCHANGED <<engine, open, symbols, queue, reader, pos, missed>>

(* What the leg of intent i at exchange ex adds to the position.            *)
Delta(i, ex) == IF (ex = Buyer(i.direction)) = (i.action = "open") THEN 1 ELSE -1
PosAfter(ex) == pos[ex][exec.symbol] + Delta(Intent, ex)

(* A closing leg is reduce-only: it is refused when there is nothing to     *)
(* reduce.                                                                  *)
Executable(ex) ==
    IF Intent.action = "close" THEN Delta(Intent, ex) * pos[ex][exec.symbol] < 0
    ELSE PosAfter(ex) \in -MaxPos .. MaxPos

Filled(ex) == [pos EXCEPT ![ex][exec.symbol] = PosAfter(ex)]

LegLands(ex) ==
    /\ engine = "running" /\ exec.stage = "legs" /\ exec.legs[ex] = "wait"
    /\ \/ /\ Executable(ex)
          /\ pos' = Filled(ex)
          /\ \E answer \in {"ok"} \union (IF "answer lost" \in Faults THEN {"fail"} ELSE {}) :
                exec' = [exec EXCEPT !.legs[ex] = answer]
       \/ /\ ~ Executable(ex) \/ (Intent.action = "open" /\ "open refused" \in Faults)
                              \/ (Intent.action = "close" /\ "close refused" \in Faults)
          /\ exec' = [exec EXCEPT !.legs[ex] = "fail"]
          /\ UNCHANGED pos
    /\ UNCHANGED <<engine, mode, open, symbols, queue, reader, missed>>

(* Mutant: the loop does not stop after the last intent. *)
NextIntentAlways ==
    [exec EXCEPT !.stage = "price", !.intents = Tail(@), !.legs = NoLegs]

NextIntent ==
    IF Len(exec.intents) = 1 THEN NoExec
    ELSE [exec EXCEPT !.stage = "price", !.intents = Tail(@), !.legs = NoLegs]

(* Mutant: one leg that executed is enough. *)
AnyLegOk == \E ex \in Ex : exec.legs[ex] = "ok"
AllLegsOk == \A ex \in Ex : exec.legs[ex] = "ok"

LegsAnswered == exec.stage = "legs" /\ \A ex \in Ex : exec.legs[ex] # "wait"

Executed ==
    /\ engine = "running" /\ LegsAnswered /\ AllLegsOk
    /\ open' = [open EXCEPT ![exec.symbol][Intent.direction] = (Intent.action = "open")]
    /\ exec' = NextIntent
    /\ UNCHANGED <<engine, mode, symbols, queue, reader, pos, missed>>

(* RiskGuard.onExecutionFailure: only a failed open changes the mode.       *)
ExecutionFailed ==
    /\ engine = "running" /\ LegsAnswered /\ ~ AllLegsOk
    /\ mode' = IF Intent.action = "open" THEN "close_only" ELSE mode
    /\ exec' = NextIntent
    /\ UNCHANGED <<engine, open, symbols, queue, reader, pos, missed>>

-----------------------------------------------------------------------------
(* PositionReconciler.  The interval does not wait for the last pass.       *)

Reconcile(r) ==
    /\ engine = "running" /\ ~ Reading(r)
    /\ Overlap \/ (~ SomeoneReads /\ ~ Executing)
    /\ reader' = [reader EXCEPT ![r].todo = symbols]
    /\ UNCHANGED <<engine, mode, open, symbols, queue, exec, pos, missed>>

Current(r) == CHOOSE s \in reader[r].todo : TRUE

(* One exchange looks up the position it will answer with.                  *)
PositionRead(r, ex) ==
    /\ Up /\ Reading(r) /\ reader[r].seen[ex] = {}
    /\ reader' = [reader EXCEPT ![r].seen[ex] = {Sign(pos[ex][Current(r)])}]
    /\ UNCHANGED <<engine, mode, open, symbols, queue, exec, pos, missed>>

(* hasDirectionPosition *)
HasPosition(seen, d) == 1 \in seen[Buyer(d)] /\ -1 \in seen[Seller(d)]

(* Mutant: positions found open are not recorded. *)
SyncedFlatOnly(s, seen) ==
    [open EXCEPT ![s] = [d \in Directions |-> open[s][d] /\ HasPosition(seen, d)]]

(* syncDirection, both directions. *)
Synced(s, seen) == [open EXCEPT ![s] = [d \in Directions |-> HasPosition(seen, d)]]

NextSymbol(r) == [todo |-> reader[r].todo \ {Current(r)}, seen |-> [ex \in Ex |-> {}]]

(* A pair that was opened since the positions were read is overlooked.      *)
Overlooked(s, seen) == \E d \in Directions : Paired(s, d) /\ ~ HasPosition(seen, d)

PositionsSynced(r) ==
    /\ Up /\ Reading(r) /\ \A ex \in Ex : reader[r].seen[ex] # {}
    /\ open' = Synced(Current(r), reader[r].seen)
    /\ reader' = [reader EXCEPT ![r] = NextSymbol(r)]
    /\ missed' = IF Overlooked(Current(r), reader[r].seen) THEN missed \union {Current(r)}
                 ELSE IF \A ex \in Ex : pos[ex][Current(r)] = 0 THEN missed \ {Current(r)}
                 ELSE missed
    /\ UNCHANGED <<engine, mode, symbols, queue, exec, pos>>

ReadFailed(r) ==
    /\ Up /\ Reading(r) /\ "read failed" \in Faults
    /\ mode' = "close_only"
    /\ reader' = [reader EXCEPT ![r] = NextSymbol(r)]
    /\ UNCHANGED <<engine, open, symbols, queue, exec, pos, missed>>

-----------------------------------------------------------------------------
(* The control API, a kill of the process, and its next start.              *)

PutRiskMode ==
    /\ Up /\ "mode" \in Operator
    /\ mode' \in Modes
    /\ UNCHANGED <<engine, open, symbols, queue, exec, reader, pos, missed>>

PutSymbols ==
    /\ Up /\ "symbols" \in Operator
    /\ symbols' \in SUBSET Symbols
    /\ UNCHANGED <<engine, mode, open, queue, exec, reader, pos, missed>>

(* The legs that were sent and have not been executed or refused.          *)
Underway == IF exec.stage = "legs"
            THEN {ex \in Ex : exec.legs[ex] = "wait" /\ Executable(ex)} ELSE {}

(* A leg that was sent may execute or not; nothing of the store survives.   *)
Crash ==
    /\ Up /\ "crash" \in Faults
    /\ engine' = "down"
    /\ \E landed \in SUBSET Underway :
         pos' = [ex \in Ex |-> IF ex \in landed THEN Filled(ex)[ex] ELSE pos[ex]]
    /\ mode' = "normal" /\ open' = Flat /\ symbols' = Symbols /\ queue' = <<>>
    /\ exec' = NoExec /\ reader' = [r \in Readers |-> NotReading]
    /\ UNCHANGED missed

Restart ==
    /\ engine = "down"
    /\ engine' = "starting"
    /\ \E r \in Readers : reader' = [reader EXCEPT ![r].todo = symbols]
    /\ UNCHANGED <<mode, open, symbols, queue, exec, pos, missed>>

Next ==
    \/ Started \/ TakeEvent \/ SendLegs \/ PriceFailed \/ Executed \/ ExecutionFailed
    \/ PutRiskMode \/ PutSymbols \/ Crash \/ Restart
    \/ \E e \in Events : Publish(e)
    \/ \E ex \in Ex : LegLands(ex)
    \/ \E r \in Readers :
         \/ Reconcile(r) \/ PositionsSynced(r) \/ ReadFailed(r)
         \/ \E ex \in Ex : PositionRead(r, ex)

Spec == Init /\ [][Next]_vars

(* The loop works on what it has taken, the exchanges answer, the interval  *)
(* elapses.  Nobody promises events.                                        *)
Fairness ==
    /\ WF_vars(Started) /\ WF_vars(SendLegs) /\ WF_vars(Restart)
    /\ WF_vars(Executed) /\ WF_vars(ExecutionFailed)
    /\ SF_vars(TakeEvent)
    /\ \A ex \in Ex : WF_vars(LegLands(ex))
    /\ \A r \in Readers :
         /\ WF_vars(Reconcile(r)) /\ WF_vars(PositionsSynced(r))
         /\ \A ex \in Ex : WF_vars(PositionRead(r, ex))

FairSpec == Spec /\ Fairness

-----------------------------------------------------------------------------
TypeOK ==
    /\ engine \in {"starting", "running", "down"}
    /\ mode \in Modes
    /\ open \in [Symbols -> [Directions -> BOOLEAN]]
    /\ symbols \subseteq Symbols
    /\ Len(queue) <= MaxQueue /\ \A i \in DOMAIN queue : queue[i] \in Events
    /\ exec.stage \in {"none", "price", "legs"} /\ exec.symbol \in Symbols
    /\ \A i \in DOMAIN exec.intents : exec.intents[i] \in Intents
    /\ Executing <=> exec.intents # <<>>
    /\ exec.legs \in [Ex -> {"wait", "ok", "fail"}]
    /\ reader \in [Readers -> [todo : SUBSET Symbols, seen : [Ex -> SUBSET {-1, 0, 1}]]]
    /\ pos \in [Ex -> [Symbols -> -MaxPos .. MaxPos]]
    /\ missed \subseteq Symbols

Naked(s) == pos["binance"][s] + pos["okx"][s] # 0

(* The legs of an open are sent on top of a pair that the exchanges hold    *)
(* already only if a reconciliation, overtaken by an execution, has         *)
(* recorded that there was none: lost answers, events that waited, events   *)
(* with two intents, failed reads and symbols that come and go never make   *)
(* the record fall behind what was opened.                                  *)
OpensOnlyWhenFlat ==
    [][SendLegs /\ Intent.action = "open" /\ exec.symbol \notin missed =>
          ~ Paired(exec.symbol, Intent.direction)]_vars

(* The legs of an open are never sent while the symbol has a leg without    *)
(* its counterpart: the guard stops opening before a naked leg gets a       *)
(* second one.                                                              *)
NoOpenOnNakedLeg ==
    [][SendLegs /\ Intent.action = "open" => ~ Naked(exec.symbol)]_vars

(* When the events stop, the store ends up telling what the exchanges hold, *)
(* however reads and executions overlapped.                                 *)
Agreed == \A s \in symbols : \A d \in Directions : open[s][d] <=> Paired(s, d)
Silent == engine = "running" /\ queue = <<>> /\ ~ Executing
StoreConverges == <>[]Silent => <>[]Agreed

(* A recorded position is closed when an event says its spread is low, in   *)
(* any mode and flagged or not, unless an exchange refuses a closing leg.   *)
LowQueued(s, d) ==
    \E i \in DOMAIN queue : queue[i].symbol = s /\ queue[i].level[d] = "low"
CloseFailed(s, d) ==
    /\ exec.symbol = s /\ exec.stage = "legs"
    /\ Intent = [action |-> "close", direction |-> d]
    /\ \E ex \in Ex : exec.legs[ex] = "fail"
LowSpreadCloses ==
    \A s \in Symbols : \A d \in Directions :
        open[s][d] /\ LowQueued(s, d) ~> ~ open[s][d] \/ CloseFailed(s, d)
=============================================================================
