--------------------------- MODULE ArbEngineProofs ---------------------------
(***************************************************************************)
(* The arbitrage engine, for every set of symbols, length of the queue and *)
(* margin: its types, and what it opens.  Reconciliations may overlap the  *)
(* loop and one another; what is needed is that nobody sets the risk mode, *)
(* that a closing leg is not refused while there is something to reduce,   *)
(* and that the process is not killed.                                     *)
(*                                                                         *)
(* The argument: as long as the mode is normal, the exchanges hold of each *)
(* symbol whole pairs or nothing.  What breaks this is an open of which a  *)
(* leg failed, and that turns the mode to close_only for good.  Of a       *)
(* symbol that no reconciliation has missed they hold one unit at most,    *)
(* and that the store has recorded: a pass whose reads are out of date     *)
(* misses the pair, or records one too many, which opens nothing.          *)
(***************************************************************************)
EXTENDS ArbEngine, ArrayProofs

(* What is needed of the types: more than TypeOK, that records are records. *)
Answered == {"wait", "ok", "fail"}
ExecTypes == [stage : {"none", "price", "legs"}, symbol : Symbols, intents : Seq(Intents),
              legs : [Ex -> Answered]]
Reads == [todo : SUBSET Symbols, seen : [Ex -> SUBSET {-1, 0, 1}]]

ArbTypes ==
    /\ engine \in {"starting", "running", "down"} /\ mode \in Modes
    /\ open \in [Symbols -> [Directions -> BOOLEAN]]
    /\ symbols \in SUBSET Symbols
    /\ queue \in Seq(Events) /\ Len(queue) <= MaxQueue
    /\ exec \in ExecTypes /\ (Executing <=> exec.intents # <<>>)
    /\ reader \in [Readers -> Reads]
    /\ pos \in [Ex -> [Symbols -> -MaxPos .. MaxPos]]
    /\ missed \in SUBSET Symbols

LEMMA ArbConstants ==
    /\ Symbols # {} /\ MaxQueue \in Nat \ {0} /\ MaxPos \in Nat \ {0}
<1>1. Symbols # {}
  BY ArbAssumption, Zenon
<1>2. MaxQueue \in Nat \ {0} /\ MaxPos \in Nat \ {0}
  BY ArbAssumption, Zenon
<1> QED BY <1>1, <1>2

(* Nobody is executing: what a loop at rest keeps of an event.              *)
LEMMA NoExecType == NoExec \in ExecTypes /\ NoExec.intents = <<>> /\ NoExec.stage = "none"
<1>1. (CHOOSE s \in Symbols : TRUE) \in Symbols
  BY ArbConstants
<1>2. NoLegs \in [Ex -> Answered]
  BY DEF NoLegs, Answered
<1>3. <<>> \in Seq(Intents)
  OBVIOUS
<1> QED BY <1>1, <1>2, <1>3 DEF NoExec, ExecTypes

LEMMA NotReadingType ==
    /\ NotReading \in Reads /\ NotReading.todo = {}
    /\ \A T \in SUBSET Symbols : [NotReading EXCEPT !.todo = T] \in Reads
BY DEF NotReading, Reads

LEMMA FlatType == Flat \in [Symbols -> [Directions -> BOOLEAN]]
BY DEF Flat

LEMMA TypesInit == Init => ArbTypes
<1> SUFFICES ASSUME Init PROVE ArbTypes
  OBVIOUS
<1>1. <<>> \in Seq(Events) /\ Len(<<>>) <= MaxQueue
  BY ArbConstants
<1>2. reader \in [Readers -> Reads]
  BY NotReadingType DEF Init
<1>3. exec = NoExec /\ (Executing <=> exec.intents # <<>>)
  BY NoExecType DEF Init, Executing
<1>4. pos \in [Ex -> [Symbols -> -MaxPos .. MaxPos]]
  BY ArbConstants DEF Init
<1> QED BY <1>1, <1>2, <1>3, <1>4, NoExecType, FlatType DEF Init, ArbTypes, Modes

(* What an event makes of the loop.                                         *)
LEMMA IntentOfFacts ==
    ASSUME NEW e, NEW d \in Directions, NEW m
    PROVE  /\ IntentOf(e, d, m) \in {<<>>, <<[action |-> "open", direction |-> d]>>,
                                     <<[action |-> "close", direction |-> d]>>}
           /\ IntentOf(e, d, m) = <<[action |-> "open", direction |-> d]>> =>
                 ~ open[e.symbol][d] /\ ~ e.flagged /\ m = "normal" /\ e.level[d] = "high"
BY DEF IntentOf

LEMMA EvaluateType ==
    ASSUME NEW e, NEW m
    PROVE  Evaluate(e, m) \in Seq(Intents)
<1>1. \A d \in Directions : IntentOf(e, d, m) \in Seq(Intents)
  <2> SUFFICES ASSUME NEW d \in Directions PROVE IntentOf(e, d, m) \in Seq(Intents)
    OBVIOUS
  <2>1. [action |-> "open", direction |-> d] \in Intents /\ [action |-> "close", direction |-> d] \in Intents
    BY DEF Intents
  <2>2. <<>> \in Seq(Intents) /\ \A i \in Intents : <<i>> \in Seq(Intents)
    OBVIOUS
  <2>3. /\ <<[action |-> "open", direction |-> d]>> \in Seq(Intents)
        /\ <<[action |-> "close", direction |-> d]>> \in Seq(Intents)
    BY <2>1, <2>2
  <2>4. IntentOf(e, d, m) \in {<<>>, <<[action |-> "open", direction |-> d]>>,
                              <<[action |-> "close", direction |-> d]>>}
    BY IntentOfFacts
  <2> QED BY <2>2, <2>3, <2>4
<1>2. IntentOf(e, "binance_to_okx", m) \in Seq(Intents) /\ IntentOf(e, "okx_to_binance", m) \in Seq(Intents)
  BY <1>1 DEF Directions
<1> QED BY <1>2 DEF Evaluate

LEMMA TakeEventTypes ==
    ASSUME ArbTypes, TakeEvent
    PROVE  ArbTypes'
<1>1. queue \in Seq(Events) /\ queue # <<>> /\ Len(queue) \in Nat /\ Len(queue) <= MaxQueue
      /\ MaxQueue \in Nat
  <2>1. queue \in Seq(Events) /\ queue # <<>> /\ Len(queue) <= MaxQueue
    BY DEF ArbTypes, TakeEvent
  <2>2. Len(queue) \in Nat
    BY <2>1, Shifted
  <2> QED BY <2>1, <2>2, ArbConstants
<1>2. PICK e : e = Head(queue)
  OBVIOUS
<1>3. e \in Events
  BY <1>1, <1>2, Shifted
<1>4. e.symbol \in Symbols
  BY <1>3 DEF Events
<1>5. mode' \in Modes
  BY <1>2 DEF TakeEvent, ArbTypes, Modes
<1>6. PICK is : /\ is \in Seq(Intents)
                /\ exec' = IF is = <<>> THEN NoExec
                           ELSE [stage |-> "price", symbol |-> e.symbol, intents |-> is, legs |-> NoLegs]
  <2>1. \E is \in {Evaluate(e, mode')} \union (IF "stale event" \in Faults THEN {<<>>} ELSE {}) :
           exec' = IF is = <<>> THEN NoExec
                   ELSE [stage |-> "price", symbol |-> e.symbol, intents |-> is, legs |-> NoLegs]
    BY <1>2 DEF TakeEvent
  <2>2. Evaluate(e, mode') \in Seq(Intents) /\ <<>> \in Seq(Intents)
    BY EvaluateType
  <2> QED BY <2>1, <2>2
<1>7. exec' \in ExecTypes /\ (exec'.stage # "none" <=> exec'.intents # <<>>)
  <2>1. CASE is = <<>>
    BY <1>6, <2>1, NoExecType
  <2>2. CASE is # <<>>
    <3>1. NoLegs \in [Ex -> Answered]
      BY DEF NoLegs, Answered
    <3> QED BY <1>4, <1>6, <2>2, <3>1 DEF ExecTypes
  <2> QED BY <2>1, <2>2
<1>8. queue' \in Seq(Events) /\ Len(queue') <= MaxQueue
  <2>1. queue' = Tail(queue) /\ Len(Tail(queue)) = Len(queue) - 1 /\ Tail(queue) \in Seq(Events)
    BY <1>1, Shifted DEF TakeEvent
  <2> QED BY <1>1, <2>1
<1>9. UNCHANGED <<engine, open, symbols, reader, pos, missed>>
  BY DEF TakeEvent
<1> QED BY <1>5, <1>7, <1>8, <1>9 DEF ArbTypes, Executing

(* A position stays within the margin when a leg of it is executed.         *)
LEMMA FilledType ==
    ASSUME ArbTypes, Executing, NEW ex \in Ex, Executable(ex)
    PROVE  /\ PosAfter(ex) \in -MaxPos .. MaxPos
           /\ Filled(ex) \in [Ex -> [Symbols -> -MaxPos .. MaxPos]]
           /\ \A e \in Ex, s \in Symbols :
                 Filled(ex)[e][s] = IF e = ex /\ s = exec.symbol
                                    THEN pos[ex][exec.symbol] + Delta(Intent, ex) ELSE pos[e][s]
<1>1. exec.symbol \in Symbols /\ pos[ex][exec.symbol] \in -MaxPos .. MaxPos
  BY DEF ArbTypes, ExecTypes
<1>2. Delta(Intent, ex) \in {-1, 1}
  BY DEF Delta
<1>3. PICK d \in {-1, 1}, p \in -MaxPos .. MaxPos :
         d = Delta(Intent, ex) /\ p = pos[ex][exec.symbol]
  BY <1>1, <1>2
<1>4. PosAfter(ex) = p + d
  BY <1>3 DEF PosAfter
<1>5. p + d \in -MaxPos .. MaxPos
  <2>1. CASE Intent.action = "close"
    <3>1. d * p < 0
      BY <1>3, <2>1 DEF Executable
    <3>2. CASE d = 1
      BY <3>1, <3>2, ArbConstants
    <3>3. CASE d = -1
      BY <3>1, <3>3, ArbConstants
    <3> QED BY <3>2, <3>3
  <2>2. CASE Intent.action # "close"
    BY <1>4, <2>2 DEF Executable
  <2> QED BY <2>1, <2>2
<1>6. Filled(ex) = [pos EXCEPT ![ex][exec.symbol] = p + d]
  BY <1>4 DEF Filled
<1> QED BY <1>1, <1>3, <1>4, <1>5, <1>6 DEF ArbTypes

LEMMA LegLandsTypes ==
    ASSUME ArbTypes, NEW ex \in Ex, LegLands(ex)
    PROVE  ArbTypes'
<1>1. /\ UNCHANGED <<engine, mode, open, symbols, queue, reader, missed>>
      /\ exec.stage = "legs" /\ Executing
  BY DEF LegLands, Executing
<1>2. PICK answer \in Answered : exec' = [exec EXCEPT !.legs[ex] = answer]
  BY DEF LegLands, Answered
<1>3. pos' = pos \/ (Executable(ex) /\ pos' = Filled(ex))
  BY DEF LegLands
<1>4. pos' \in [Ex -> [Symbols -> -MaxPos .. MaxPos]]
  BY <1>1, <1>3, FilledType DEF ArbTypes
<1>5. exec' \in ExecTypes /\ exec'.stage = exec.stage /\ exec'.intents = exec.intents
  BY <1>2 DEF ArbTypes, ExecTypes
<1> QED BY <1>1, <1>4, <1>5 DEF ArbTypes, Executing

LEMMA NextIntentFacts ==
    ASSUME ArbTypes, Executing
    PROVE  /\ NextIntent \in ExecTypes /\ (NextIntent.stage # "none" <=> NextIntent.intents # <<>>)
           /\ NextIntent.stage # "legs" /\ NextIntent.legs = NoLegs
           /\ \/ NextIntent = NoExec
              \/ NextIntent.symbol = exec.symbol /\ NextIntent.intents = Tail(exec.intents)
<1>1. exec \in ExecTypes /\ exec.intents \in Seq(Intents) /\ exec.intents # <<>>
      /\ Len(exec.intents) \in Nat
  BY DEF ArbTypes, ExecTypes
<1>2. NoLegs \in [Ex -> Answered]
  BY DEF NoLegs, Answered
<1>3. CASE Len(exec.intents) = 1
  BY <1>3, NoExecType DEF NextIntent, NoExec
<1>4. CASE Len(exec.intents) # 1
  <2>1. PICK rest : rest = Tail(exec.intents)
    OBVIOUS
  <2>2. rest \in Seq(Intents) /\ rest # <<>>
    <3>1. rest \in Seq(Intents) /\ Len(rest) = Len(exec.intents) - 1 /\ Len(exec.intents) \in Nat \ {0}
      BY <1>1, <2>1, Shifted
    <3>2. Len(rest) # 0 /\ Len(<<>>) = 0
      BY <1>4, <3>1
    <3>3. rest # <<>>
      BY <3>2
    <3> QED BY <3>1, <3>3
  <2>3. NextIntent = [exec EXCEPT !.stage = "price", !.intents = rest, !.legs = NoLegs]
    BY <1>4, <2>1 DEF NextIntent
  <2> QED BY <1>1, <1>2, <2>1, <2>2, <2>3 DEF ExecTypes
<1> QED BY <1>3, <1>4

LEMMA ExecutionTypes ==
    ASSUME ArbTypes, SendLegs \/ PriceFailed \/ Executed \/ ExecutionFailed
    PROVE  ArbTypes'
<1>1. CASE SendLegs
  <2>1. exec' \in ExecTypes /\ exec'.stage = "legs" /\ exec'.intents = exec.intents /\ Executing
    BY <1>1 DEF SendLegs, ArbTypes, ExecTypes, Executing
  <2> QED BY <1>1, <2>1 DEF SendLegs, ArbTypes, Executing
<1>2. CASE PriceFailed
  BY <1>2, NoExecType DEF PriceFailed, ArbTypes, Modes, Executing
<1>3. CASE Executed
  <2>1. Executing /\ exec' = NextIntent
    BY <1>3 DEF Executed, LegsAnswered, Executing
  <2>2. exec' \in ExecTypes /\ (exec'.stage # "none" <=> exec'.intents # <<>>)
    BY <2>1, NextIntentFacts
  <2>3. open' \in [Symbols -> [Directions -> BOOLEAN]]
    <3>1. (Intent.action = "open") \in BOOLEAN
      OBVIOUS
    <3> QED BY <1>3, <3>1 DEF Executed, ArbTypes
  <2> QED BY <1>3, <2>2, <2>3 DEF Executed, ArbTypes, Executing
<1>4. CASE ExecutionFailed
  <2>1. Executing /\ exec' = NextIntent
    BY <1>4 DEF ExecutionFailed, LegsAnswered, Executing
  <2>2. exec' \in ExecTypes /\ (exec'.stage # "none" <=> exec'.intents # <<>>)
    BY <2>1, NextIntentFacts
  <2>3. mode' \in Modes
    BY <1>4 DEF ExecutionFailed, ArbTypes, Modes
  <2> QED BY <1>4, <2>2, <2>3 DEF ExecutionFailed, ArbTypes, Executing
<1> QED BY <1>1, <1>2, <1>3, <1>4

(* A pass of the reconciler.                                                *)
LEMMA NextSymbolFacts ==
    ASSUME ArbTypes, NEW r \in Readers
    PROVE  /\ NextSymbol(r) \in Reads /\ \A ex \in Ex : NextSymbol(r).seen[ex] = {}
           /\ Reading(r) => Current(r) \in reader[r].todo /\ Current(r) \in Symbols
<1>1. reader[r].todo \in SUBSET Symbols
  BY DEF ArbTypes, Reads
<1>2. NextSymbol(r) \in Reads
  BY <1>1 DEF NextSymbol, Reads
<1>3. Reading(r) => Current(r) \in reader[r].todo
  BY DEF Reading, Current
<1> QED BY <1>1, <1>2, <1>3 DEF NextSymbol

LEMMA ReconcilerTypes ==
    ASSUME ArbTypes, NEW r \in Readers,
           \/ Reconcile(r) \/ PositionsSynced(r) \/ ReadFailed(r)
           \/ \E ex \in Ex : PositionRead(r, ex)
    PROVE  ArbTypes'
<1>1. reader[r] \in Reads
  BY DEF ArbTypes
<1>2. CASE Reconcile(r)
  BY <1>1, <1>2 DEF Reconcile, ArbTypes, Reads, Executing
<1>3. CASE PositionsSynced(r)
  <2>1. reader' \in [Readers -> Reads]
    BY <1>3, NextSymbolFacts DEF PositionsSynced, ArbTypes
  <2>2. Current(r) \in Symbols
    BY <1>3, NextSymbolFacts DEF PositionsSynced
  <2>3. open' \in [Symbols -> [Directions -> BOOLEAN]]
    <3>1. \A d \in Directions : HasPosition(reader[r].seen, d) \in BOOLEAN
      BY DEF HasPosition
    <3>2. open' = [open EXCEPT ![Current(r)] = [d \in Directions |-> HasPosition(reader[r].seen, d)]]
      BY <1>3 DEF PositionsSynced, Synced
    <3> QED BY <2>2, <3>1, <3>2 DEF ArbTypes
  <2>4. missed' \in SUBSET Symbols
    BY <1>3, <2>2 DEF PositionsSynced, ArbTypes
  <2> QED BY <1>3, <2>1, <2>3, <2>4 DEF PositionsSynced, ArbTypes, Executing
<1>4. CASE ReadFailed(r)
  <2>1. reader' \in [Readers -> Reads]
    BY <1>4, NextSymbolFacts DEF ReadFailed, ArbTypes
  <2> QED BY <1>4, <2>1 DEF ReadFailed, ArbTypes, Modes, Executing
<1>5. ASSUME NEW ex \in Ex, PositionRead(r, ex) PROVE ArbTypes'
  <2>1. PICK n : n = Sign(pos[ex][Current(r)])
    OBVIOUS
  <2>2. n \in {-1, 0, 1}
    BY <2>1 DEF Sign
  <2>3. reader' = [reader EXCEPT ![r].seen[ex] = {n}]
    BY <1>5, <2>1 DEF PositionRead
  <2>4. reader' \in [Readers -> Reads]
    BY <1>1, <2>2, <2>3 DEF ArbTypes, Reads
  <2> QED BY <1>5, <2>4 DEF PositionRead, ArbTypes, Executing
<1> QED BY <1>2, <1>3, <1>4, <1>5

LEMMA CrashTypes ==
    ASSUME ArbTypes, Crash
    PROVE  ArbTypes'
<1>1. PICK landed \in SUBSET Underway :
         pos' = [ex \in Ex |-> IF ex \in landed THEN Filled(ex)[ex] ELSE pos[ex]]
  BY DEF Crash
<1>2. ASSUME NEW ex \in landed PROVE ex \in Ex /\ Executable(ex) /\ Executing
  BY <1>1 DEF Underway, Executing
<1>3. \A ex \in landed : Filled(ex) \in [Ex -> [Symbols -> -MaxPos .. MaxPos]]
  BY <1>2, FilledType
<1>4. pos' \in [Ex -> [Symbols -> -MaxPos .. MaxPos]]
  BY <1>1, <1>3 DEF ArbTypes
<1>5. <<>> \in Seq(Events) /\ Len(<<>>) <= MaxQueue
  BY ArbConstants
<1>6. reader' \in [Readers -> Reads]
  BY NotReadingType DEF Crash
<1>7. exec' = NoExec /\ queue' = <<>> /\ open' = Flat /\ mode' = "normal" /\ engine' = "down"
      /\ symbols' = Symbols /\ missed' = missed
  BY DEF Crash
<1> QED BY <1>4, <1>5, <1>6, <1>7, NoExecType, FlatType DEF ArbTypes, Modes, Executing

LEMMA ArbTypesStep == ArbTypes /\ [Next]_vars => ArbTypes'
<1> SUFFICES ASSUME ArbTypes, [Next]_vars PROVE ArbTypes'
  OBVIOUS
<1>1. CASE Started
  BY <1>1 DEF Started, ArbTypes, Modes, Executing
<1>2. CASE TakeEvent
  BY <1>2, TakeEventTypes
<1>3. CASE SendLegs \/ PriceFailed \/ Executed \/ ExecutionFailed
  BY <1>3, ExecutionTypes
<1>4. CASE PutRiskMode \/ PutSymbols
  BY <1>4 DEF PutRiskMode, PutSymbols, ArbTypes, Executing
<1>5. CASE Crash
  BY <1>5, CrashTypes
<1>6. CASE Restart
  <2>1. PICK r \in Readers : reader' = [reader EXCEPT ![r].todo = symbols]
    BY <1>6 DEF Restart
  <2>2. reader' \in [Readers -> Reads]
    BY <2>1 DEF ArbTypes, Reads
  <2> QED BY <1>6, <2>2 DEF Restart, ArbTypes, Executing
<1>7. ASSUME NEW e \in Events, Publish(e) PROVE ArbTypes'
  <2>1. queue \in Seq(Events) /\ queue' = Append(queue, e) /\ Len(queue) < MaxQueue
    BY <1>7 DEF Publish, ArbTypes
  <2>2. queue' \in Seq(Events) /\ Len(queue') = Len(queue) + 1 /\ Len(queue) \in Nat
    BY <2>1
  <2>3. Len(queue') <= MaxQueue
    BY <2>1, <2>2, ArbConstants
  <2> QED BY <1>7, <2>2, <2>3 DEF Publish, ArbTypes, Executing
<1>8. ASSUME NEW ex \in Ex, LegLands(ex) PROVE ArbTypes'
  BY <1>8, LegLandsTypes
<1>9. ASSUME NEW r \in Readers,
             \/ Reconcile(r) \/ PositionsSynced(r) \/ ReadFailed(r)
             \/ \E ex \in Ex : PositionRead(r, ex)
      PROVE  ArbTypes'
  BY <1>9, ReconcilerTypes
<1>10. CASE UNCHANGED vars
  BY <1>10 DEF vars, ArbTypes, Executing
<1> QED BY <1>1, <1>2, <1>3, <1>4, <1>5, <1>6, <1>7, <1>8, <1>9, <1>10 DEF Next

LEMMA TypesAreOK == ArbTypes => TypeOK
<1> SUFFICES ASSUME ArbTypes PROVE TypeOK
  OBVIOUS
<1>1. \A i \in DOMAIN queue : queue[i] \in Events
  BY Elements DEF ArbTypes
<1>2. \A i \in DOMAIN exec.intents : exec.intents[i] \in Intents
  BY Elements DEF ArbTypes, ExecTypes
<1> QED BY <1>1, <1>2 DEF ArbTypes, ExecTypes, Reads, Answered, TypeOK

(* The engine's state is typed, whatever overlaps and fails: positions keep *)
(* within the margin, the queue within its bound, and the loop has an event *)
(* in hand exactly as long as it has intents.                               *)
THEOREM ArbTypeOK == Spec => []TypeOK
BY TypesInit, ArbTypesStep, TypesAreOK, PTL DEF Spec

-----------------------------------------------------------------------------
(* What the exchanges hold, as long as nobody meddles with the mode, closing *)
(* legs are not refused and the process is not killed.                      *)
Undisturbed ==
    "mode" \notin Operator /\ "close refused" \notin Faults /\ "crash" \notin Faults

Units == -MaxPos .. MaxPos

(* The position of b units of a pair bought on Binance.                     *)
Held(ex, b) == IF ex = "binance" THEN b ELSE -b

Recorded(s, b) ==
    /\ b = 1 => open[s]["binance_to_okx"]
    /\ b = -1 => open[s]["okx_to_binance"]

(* A symbol that nothing is under way for: whole pairs or nothing; one at   *)
(* most, and that recorded, unless a reconciliation missed it.              *)
Whole(s) ==
    \E b \in Units :
        /\ s \notin missed => b \in -1 .. 1 /\ Recorded(s, b)
        /\ \A ex \in Ex : pos[ex][s] = Held(ex, b)

(* What became of b units while the legs of intent i are under way: a       *)
(* closing leg that was answered has reduced what there was to reduce, an   *)
(* opening leg that is "ok" was executed; of one that failed all is open.   *)
Reduced(i, ex, b) ==
    IF Delta(i, ex) * Held(ex, b) < 0 THEN Held(ex, b) + Delta(i, ex) ELSE Held(ex, b)

LegAt(i, ex, answer, b, p) ==
    /\ answer = "wait" => p = Held(ex, b)
    /\ answer # "wait" /\ i.action = "close" =>
          p = Reduced(i, ex, b) /\ (answer = "ok" => p # Held(ex, b))
    /\ answer = "ok" /\ i.action = "open" => p = Held(ex, b) + Delta(i, ex)

(* Intent i opens none of b units a second time.                            *)
OpensNew(i, b) ==
    i.action = "open" =>
        /\ i.direction = "binance_to_okx" => b # 1
        /\ i.direction = "okx_to_binance" => b # -1

(* A reconciliation may read and record a pair half way.                    *)
Moved(s, b) == \E ex \in Ex : pos[ex][s] # Held(ex, b)

UnderWay(s) ==
    \E b \in Units :
        /\ s \notin missed => /\ b \in -1 .. 1 /\ OpensNew(Intent, b)
                              /\ Recorded(s, b) \/ Moved(s, b)
        /\ \A ex \in Ex : LegAt(Intent, ex, exec.legs[ex], b, pos[ex][s])

(* An open that was decided on in normal mode is carried out although a     *)
(* failed read changes the mode before.                                     *)
OpenIsPlanned == \E k \in 1 .. Len(exec.intents) : exec.intents[k].action = "open"
Trusted == mode = "normal" \/ engine = "starting" \/ OpenIsPlanned

StoreIsSound ==
    Trusted => \A s \in Symbols :
        IF exec.stage = "legs" /\ s = exec.symbol THEN UnderWay(s) ELSE Whole(s)

(* The intents of an event: one in each direction at most, one open at most,*)
(* and that only of what is not held, until its legs are sent.              *)
IntentsInv ==
    /\ Len(exec.intents) <= 2
    /\ Len(exec.intents) = 2 =>
          /\ exec.intents[1].direction # exec.intents[2].direction
          /\ exec.intents[1].action = "close" \/ exec.intents[2].action = "close"
    /\ exec.stage # "legs" => exec.legs = NoLegs
    /\ \A k \in 1 .. Len(exec.intents) :
          /\ exec.intents[k].action = "open" /\ exec.symbol \notin missed
          /\ exec.stage = "legs" => k # 1
          => ~ Paired(exec.symbol, exec.intents[k].direction)

ArbInv == ArbTypes /\ IntentsInv /\ StoreIsSound /\ engine # "down"

(* No unit of a pair, and what a position says of the units.                *)
LEMMA HeldNothing == \A ex \in Ex : Held(ex, 0) = 0
<1>1. \A b \in Int : b + b = b => -b = b
  OBVIOUS
<1>2. 0 \in Int /\ 0 + 0 = 0
  OBVIOUS
<1>3. -0 = 0
  BY <1>1, <1>2, Zenon
<1> QED BY <1>3, Zenon DEF Held

LEMMA HeldFacts ==
    ASSUME NEW b \in Int
    PROVE  /\ Held("binance", b) = b /\ Held("okx", b) = -b
           /\ \A ex \in Ex : Held(ex, b) \in Int /\ (Held(ex, b) = 0 <=> b = 0)
BY DEF Held, Ex

(* One pair at most: it is bought where it is held long.                    *)
LEMMA PairedFacts ==
    ASSUME NEW s, NEW b \in Int, \A ex \in Ex : pos[ex][s] = Held(ex, b)
    PROVE  /\ ~ Naked(s)
           /\ Paired(s, "binance_to_okx") <=> b > 0
           /\ Paired(s, "okx_to_binance") <=> b < 0
<1>1. pos["binance"][s] = b /\ pos["okx"][s] = -b
  BY HeldFacts DEF Ex
<1>2. b + -b = 0
  OBVIOUS
<1> QED BY <1>1, <1>2 DEF Naked, Paired, Buyer, Seller

LEMMA SoundInit == Init => IntentsInv /\ StoreIsSound /\ engine # "down"
<1> SUFFICES ASSUME Init PROVE IntentsInv /\ StoreIsSound
  BY DEF Init
<1>1. exec = NoExec /\ exec.stage = "none" /\ exec.intents = <<>> /\ exec.legs = NoLegs
  BY NoExecType DEF Init, NoExec
<1>2. Len(exec.intents) = 0 /\ 1 .. Len(exec.intents) = {}
  BY <1>1
<1>3. IntentsInv
  BY <1>1, <1>2 DEF IntentsInv
<1>4. \A s \in Symbols : Whole(s)
  <2>1. \A s \in Symbols, ex \in Ex : pos[ex][s] = Held(ex, 0)
    BY HeldNothing DEF Init
  <2>2. \A s \in Symbols : Recorded(s, 0)
    BY DEF Recorded
  <2>3. 0 \in -1 .. 1 /\ 0 \in Units
    BY ArbConstants DEF Units
  <2> QED BY <2>1, <2>2, <2>3 DEF Whole
<1> QED BY <1>1, <1>3, <1>4 DEF StoreIsSound

(* The loop at rest has no intent.                                          *)
LEMMA AtRest ==
    ASSUME ArbTypes, ~ Executing
    PROVE  exec.stage = "none" /\ exec.intents = <<>> /\ Len(exec.intents) = 0
<1>1. exec.stage = "none" /\ exec.intents = <<>>
  BY DEF ArbTypes, Executing
<1> QED BY <1>1

LEMMA AtWork ==
    ASSUME ArbTypes, Executing
    PROVE  /\ Len(exec.intents) \in Nat \ {0} /\ Intent \in Intents /\ Intent = exec.intents[1]
           /\ exec.symbol \in Symbols /\ \A ex \in Ex : exec.legs[ex] \in Answered
<1>1. exec.intents \in Seq(Intents) /\ exec.intents # <<>>
  BY DEF ArbTypes, ExecTypes
<1>2. Len(exec.intents) \in Nat \ {0} /\ Head(exec.intents) \in Intents
  BY <1>1, Shifted
<1>3. Head(exec.intents) = exec.intents[1]
  BY <1>1, TailEnds
<1> QED BY <1>2, <1>3 DEF ArbTypes, ExecTypes, Intent

(* What nobody looks at or touches.                                         *)
LEMMA SoundUnchanged ==
    ASSUME StoreIsSound, Trusted' => Trusted, UNCHANGED <<open, exec, pos, missed>>
    PROVE  StoreIsSound'
<1>1. \A s \in Symbols : Whole(s) => Whole(s)'
  BY DEF Whole, Recorded
<1>2. \A s \in Symbols : UnderWay(s) => UnderWay(s)'
  BY DEF UnderWay, Recorded, Moved, Intent
<1> QED BY <1>1, <1>2 DEF StoreIsSound

LEMMA IntentsUnchanged ==
    ASSUME IntentsInv, UNCHANGED <<exec, pos, missed>>
    PROVE  IntentsInv'
BY DEF IntentsInv, Paired

LEMMA TrustUnchanged ==
    ASSUME UNCHANGED <<engine, mode, exec>>
    PROVE  Trusted' <=> Trusted
BY DEF Trusted, OpenIsPlanned

LEMMA NoIntents ==
    ASSUME exec'.stage = "none", exec'.intents = <<>>, exec'.legs = NoLegs
    PROVE  IntentsInv' /\ ~ OpenIsPlanned'
<1>1. Len(exec'.intents) = 0 /\ 1 .. Len(exec'.intents) = {}
  BY DEF IntentsInv
<1> QED BY <1>1 DEF IntentsInv, OpenIsPlanned

LEMMA EmptyJoined ==
    ASSUME NEW T, NEW s \in Seq(T)
    PROVE  <<>> \o s = s /\ s \o <<>> = s
OBVIOUS

LEMMA PairJoined ==
    ASSUME NEW T, NEW x \in T, NEW y \in T
    PROVE  Len(<<x>> \o <<y>>) = 2 /\ (<<x>> \o <<y>>)[1] = x /\ (<<x>> \o <<y>>)[2] = y
OBVIOUS

LEMMA EvaluateFacts ==
    ASSUME NEW e \in Events, NEW m, NEW is, is = Evaluate(e, m) \/ is = <<>>
    PROVE  /\ Len(is) \in 0 .. 2
           /\ Len(is) = 2 => /\ is[1].direction # is[2].direction
                             /\ is[1].action = "close" \/ is[2].action = "close"
           /\ \A k \in 1 .. Len(is) : is[k].action = "open" =>
                 m = "normal" /\ is[k].direction \in Directions /\ ~ open[e.symbol][is[k].direction]
<1>1. PICK i, j : i = IntentOf(e, "binance_to_okx", m) /\ j = IntentOf(e, "okx_to_binance", m)
  OBVIOUS
<1>2. \E d \in Directions : e.level[d] # "high"
  BY DEF Events, Levels
<1>3. e.level["binance_to_okx"] # "high" \/ e.level["okx_to_binance"] # "high"
  BY <1>2 DEF Directions
<1> DEFINE Opens(d) == <<[action |-> "open", direction |-> d]>>
           Closes(d) == <<[action |-> "close", direction |-> d]>>
           May(d) == m = "normal" /\ ~ open[e.symbol][d] /\ e.level[d] = "high"
<1>4. ASSUME NEW d \in Directions
      PROVE  /\ IntentOf(e, d, m) \in {<<>>, Opens(d), Closes(d)}
             /\ IntentOf(e, d, m) = Opens(d) => May(d)
  BY IntentOfFacts
<1>5. /\ i \in {<<>>, Opens("binance_to_okx"), Closes("binance_to_okx")}
      /\ i = Opens("binance_to_okx") => May("binance_to_okx")
      /\ j \in {<<>>, Opens("okx_to_binance"), Closes("okx_to_binance")}
      /\ j = Opens("okx_to_binance") => May("okx_to_binance")
  BY <1>1, <1>4 DEF Directions
<1>9. i \in Seq(Intents) /\ j \in Seq(Intents)
  <2>1. ASSUME NEW d \in Directions PROVE Opens(d) \in Seq(Intents) /\ Closes(d) \in Seq(Intents)
    <3>1. [action |-> "open", direction |-> d] \in Intents /\ [action |-> "close", direction |-> d] \in Intents
      BY DEF Intents
    <3> QED BY <3>1
  <2>2. <<>> \in Seq(Intents)
    OBVIOUS
  <2> HIDE DEF Opens, Closes
  <2> QED BY <1>5, <2>1, <2>2 DEF Directions
<1>6. is = i \o j \/ is = <<>>
  BY <1>1 DEF Evaluate
<1>7. CASE is = <<>>
  BY <1>7
<1>8. CASE is = i \o j
  <2>1. CASE i = <<>> /\ j = <<>>
    BY <1>8, <2>1
  <2>2. ASSUME NEW d \in Directions, i = <<>> \/ j = <<>>, is \in {Opens(d), Closes(d)},
               is = Opens(d) => May(d)
        PROVE  /\ Len(is) = 1
               /\ \A k \in 1 .. Len(is) : is[k].action = "open" =>
                     m = "normal" /\ is[k].direction \in Directions /\ ~ open[e.symbol][is[k].direction]
    BY <2>2
  <2>3. CASE (i = <<>>) # (j = <<>>)
    <3>1. i \in Seq(Intents) /\ j \in Seq(Intents)
      BY <1>9
    <3>2. (i = <<>> /\ is = j /\ j # <<>>) \/ (j = <<>> /\ is = i /\ i # <<>>)
      BY <1>8, <2>3, <3>1, EmptyJoined
    <3>3. CASE i = <<>> /\ is = j /\ j # <<>>
      <4>1. is \in {Opens("okx_to_binance"), Closes("okx_to_binance")}
            /\ (is = Opens("okx_to_binance") => May("okx_to_binance"))
        BY <1>5, <3>3
      <4> QED BY <2>2, <3>3, <4>1 DEF Directions
    <3>4. CASE j = <<>> /\ is = i /\ i # <<>>
      <4>1. is \in {Opens("binance_to_okx"), Closes("binance_to_okx")}
            /\ (is = Opens("binance_to_okx") => May("binance_to_okx"))
        BY <1>5, <3>4
      <4> QED BY <2>2, <3>4, <4>1 DEF Directions
    <3> QED BY <3>2, <3>3, <3>4
  <2>4. CASE i # <<>> /\ j # <<>>
    <3>1. PICK x, y : /\ i = <<x>> /\ j = <<y>>
                      /\ x.direction = "binance_to_okx" /\ y.direction = "okx_to_binance"
                      /\ x.action \in {"open", "close"} /\ y.action \in {"open", "close"}
                      /\ x.action = "open" => May("binance_to_okx")
                      /\ y.action = "open" => May("okx_to_binance")
      BY <1>5, <2>4
    <3>2. x \in {x, y} /\ y \in {x, y} /\ is = <<x>> \o <<y>>
      BY <1>8, <3>1
    <3>3. Len(is) = 2 /\ is[1] = x /\ is[2] = y
      BY <3>2, PairJoined
    <3>4. \A k \in 1 .. Len(is) : is[k] = x \/ is[k] = y
      BY <3>3
    <3>5. x.direction \in Directions /\ y.direction \in Directions
      BY <3>1 DEF Directions
    <3>6. \A k \in 1 .. Len(is) : is[k].action = "open" =>
             m = "normal" /\ is[k].direction \in Directions /\ ~ open[e.symbol][is[k].direction]
      BY <3>1, <3>4, <3>5
    <3>7. x.direction # y.direction /\ (x.action = "close" \/ y.action = "close")
      BY <1>3, <3>1
    <3>8. Len(is) \in 0 .. 2
      BY <3>3
    <3> HIDE DEF May
    <3> QED BY <3>3, <3>6, <3>7, <3>8
  <2> QED BY <2>1, <2>3, <2>4
<1> QED BY <1>6, <1>7, <1>8

-----------------------------------------------------------------------------
(* The legs of an intent. *)

LEMMA DeltaFacts ==
    ASSUME NEW i \in Intents
    PROVE  /\ i.action \in {"open", "close"} /\ i.direction \in Directions
           /\ Delta(i, "binance") \in {-1, 1} /\ Delta(i, "okx") = -Delta(i, "binance")
           /\ Delta(i, "binance") = 1 <=>
                 (i.direction = "binance_to_okx" <=> i.action = "open")
BY DEF Intents, Directions, Delta, Buyer

(* Both closing legs find something to reduce, or neither does.             *)
LEMMA ReducedFacts ==
    ASSUME NEW i \in Intents, i.action = "close", NEW b \in Units
    PROVE  \E c \in Units :
              /\ \A ex \in Ex : Reduced(i, ex, b) = Held(ex, c)
              /\ b \in -1 .. 1 => c = b \/ c = 0
              /\ b \in -1 .. 1 /\ (\E ex \in Ex : Reduced(i, ex, b) # Held(ex, b)) => c = 0
<1>1. PICK d \in {-1, 1} : d = Delta(i, "binance") /\ Delta(i, "okx") = -d
  BY DeltaFacts
<1>2. b \in Int /\ MaxPos \in Nat
  BY ArbConstants DEF Units
<1>3. /\ Reduced(i, "binance", b) = IF d * b < 0 THEN b + d ELSE b
      /\ Reduced(i, "okx", b) = IF (-d) * (-b) < 0 THEN -b + -d ELSE -b
  BY <1>1, <1>2, HeldFacts DEF Reduced
<1>4. ASSUME NEW c \in Units,
             Reduced(i, "binance", b) = c, Reduced(i, "okx", b) = -c,
             b \in -1 .. 1 => c = b \/ c = 0
      PROVE  /\ \A ex \in Ex : Reduced(i, ex, b) = Held(ex, c)
             /\ b \in -1 .. 1 /\ (\E ex \in Ex : Reduced(i, ex, b) # Held(ex, b)) => c = 0
  <2>1. c \in Int
    BY <1>2 DEF Units
  <2>2. \A ex \in Ex : Reduced(i, ex, b) = Held(ex, c)
    BY <1>4, <2>1, HeldFacts DEF Ex
  <2>3. (\E ex \in Ex : Reduced(i, ex, b) # Held(ex, b)) => c # b
    BY <2>2
  <2> QED BY <1>4, <2>2, <2>3
<1>5. CASE d * b < 0
  <2>1. PICK c : c = b + d
    OBVIOUS
  <2>2. c \in Units /\ -c = -b + -d /\ (b \in -1 .. 1 => c = 0)
    BY <1>2, <1>5, <2>1 DEF Units
  <2>3. (-d) * (-b) < 0
    BY <1>2, <1>5
  <2>4. Reduced(i, "binance", b) = c /\ Reduced(i, "okx", b) = -c
    BY <1>3, <1>5, <2>1, <2>2, <2>3
  <2> QED BY <1>4, <2>2, <2>4
<1>6. CASE ~ (d * b < 0)
  <2>1. ~ ((-d) * (-b) < 0)
    BY <1>2, <1>6
  <2>2. Reduced(i, "binance", b) = b /\ Reduced(i, "okx", b) = -b
    BY <1>3, <1>6, <2>1
  <2> QED BY <1>4, <2>2
<1> QED BY <1>5, <1>6

(* Both opening legs were executed: the pair is one unit further.           *)
LEMMA OpenedFacts ==
    ASSUME NEW i \in Intents, i.action = "open", NEW b \in Int
    PROVE  \E c \in Int :
              /\ \A ex \in Ex : Held(ex, b) + Delta(i, ex) = Held(ex, c)
              /\ b \in -1 .. 1 /\ OpensNew(i, b) =>
                    /\ c \in -1 .. 1
                    /\ c = 1 => i.direction = "binance_to_okx"
                    /\ c = -1 => i.direction = "okx_to_binance"
<1>1. PICK d \in {-1, 1} : d = Delta(i, "binance") /\ Delta(i, "okx") = -d
  BY DeltaFacts
<1>2. /\ d = 1 <=> i.direction = "binance_to_okx"
      /\ d = -1 <=> i.direction = "okx_to_binance"
  BY <1>1, DeltaFacts DEF Directions
<1>3. PICK c : c = b + d
  OBVIOUS
<1>4. c \in Int /\ -c = -b + -d
  BY <1>1, <1>3
<1>5. b \in -1 .. 1 /\ OpensNew(i, b) => c \in -1 .. 1 /\ (c = 1 => d = 1) /\ (c = -1 => d = -1)
  BY <1>1, <1>2, <1>3 DEF OpensNew
<1>6. Held("binance", b) + Delta(i, "binance") = c /\ Held("okx", b) + Delta(i, "okx") = -c
  BY <1>1, <1>3, <1>4, HeldFacts
<1>7. \A ex \in Ex : Held(ex, b) + Delta(i, ex) = Held(ex, c)
  BY <1>4, <1>6, HeldFacts DEF Ex
<1> QED BY <1>2, <1>4, <1>5, <1>7

(* An open that is decided on meets a symbol without a pair: the record     *)
(* says so, and knows of every pair that was not missed.                    *)
LEMMA UnrecordedIsUnpaired ==
    ASSUME NEW s, Whole(s), s \notin missed, NEW d \in Directions, ~ open[s][d]
    PROVE  ~ Paired(s, d)
<1>1. PICK b \in -1 .. 1 : Recorded(s, b) /\ \A ex \in Ex : pos[ex][s] = Held(ex, b)
  BY DEF Whole
<1>2. /\ d = "binance_to_okx" => b # 1
      /\ d = "okx_to_binance" => b # -1
  BY <1>1 DEF Recorded
<1>3. /\ Paired(s, "binance_to_okx") <=> b > 0
      /\ Paired(s, "okx_to_binance") <=> b < 0
  BY <1>1, PairedFacts
<1>4. (b > 0 => b = 1) /\ (b < 0 => b = -1)
  OBVIOUS
<1> QED BY <1>2, <1>3, <1>4 DEF Directions

LEMMA TakeEventSound ==
    ASSUME ArbInv, TakeEvent
    PROVE  IntentsInv' /\ StoreIsSound'
<1>1. /\ ArbTypes /\ ~ Executing /\ engine = "running"
      /\ UNCHANGED <<engine, open, symbols, reader, pos, missed>>
  BY DEF TakeEvent, ArbInv
<1>2. PICK e : e = Head(queue)
  OBVIOUS
<1>3. e \in Events /\ e.symbol \in Symbols
  <2>1. queue \in Seq(Events) /\ queue # <<>>
    BY <1>1 DEF ArbTypes, TakeEvent
  <2>2. e \in Events
    BY <1>2, <2>1, Shifted
  <2> QED BY <2>2 DEF Events
<1>4. PICK m : m = mode'
  OBVIOUS
<1>5. PICK is : /\ is = Evaluate(e, m) \/ is = <<>>
                /\ exec' = IF is = <<>> THEN NoExec
                           ELSE [stage |-> "price", symbol |-> e.symbol, intents |-> is, legs |-> NoLegs]
  <2>1. \E is \in {Evaluate(e, m)} \union (IF "stale event" \in Faults THEN {<<>>} ELSE {}) :
           exec' = IF is = <<>> THEN NoExec
                   ELSE [stage |-> "price", symbol |-> e.symbol, intents |-> is, legs |-> NoLegs]
    BY <1>2, <1>4 DEF TakeEvent
  <2> QED BY <2>1
<1>6. exec.stage # "legs" /\ exec'.stage # "legs" /\ exec'.legs = NoLegs
  BY <1>1, <1>5, AtRest DEF NoExec
<1>7. m = "normal" => Trusted
  BY <1>2, <1>4 DEF TakeEvent, Trusted
<1>8. Trusted => \A s \in Symbols : Whole(s)
  BY <1>6 DEF ArbInv, StoreIsSound
<1>9. /\ Len(is) \in 0 .. 2
      /\ Len(is) = 2 => /\ is[1].direction # is[2].direction
                        /\ is[1].action = "close" \/ is[2].action = "close"
      /\ \A k \in 1 .. Len(is) : is[k].action = "open" =>
            m = "normal" /\ is[k].direction \in Directions /\ ~ open[e.symbol][is[k].direction]
  BY <1>3, <1>5, EvaluateFacts
<1>10. CASE is = <<>>
  <2>1. exec'.stage = "none" /\ exec'.intents = <<>> /\ exec'.legs = NoLegs
    BY <1>5, <1>10, NoExecType DEF NoExec
  <2>2. IntentsInv' /\ ~ OpenIsPlanned'
    BY <2>1, NoIntents
  <2>3. Trusted' => Trusted
    BY <1>1, <1>4, <1>7, <2>2 DEF Trusted
  <2>4. \A s \in Symbols : Whole(s) => Whole(s)'
    BY <1>1 DEF Whole, Recorded
  <2> QED BY <1>6, <1>8, <2>2, <2>3, <2>4 DEF StoreIsSound
<1>11. CASE is # <<>>
  <2>1. exec'.intents = is /\ exec'.symbol = e.symbol
    BY <1>5, <1>11
  <2>2. ASSUME NEW k \in 1 .. Len(is), is[k].action = "open", e.symbol \notin missed
        PROVE  ~ Paired(e.symbol, is[k].direction)
    <3>1. Whole(e.symbol) /\ is[k].direction \in Directions /\ ~ open[e.symbol][is[k].direction]
      BY <1>3, <1>7, <1>8, <1>9, <2>2
    <3> QED BY <2>2, <3>1, UnrecordedIsUnpaired
  <2>3. \A k \in 1 .. Len(is) :
           is[k].action = "open" /\ e.symbol \notin missed' => ~ Paired(e.symbol, is[k].direction)'
    BY <1>1, <2>2 DEF Paired
  <2>4. IntentsInv'
    BY <1>6, <1>9, <2>1, <2>3 DEF IntentsInv
  <2>5. Trusted' => Trusted
    <3>1. OpenIsPlanned' => m = "normal"
      BY <1>9, <2>1 DEF OpenIsPlanned
    <3> QED BY <1>1, <1>4, <1>7, <3>1 DEF Trusted
  <2>6. \A s \in Symbols : Whole(s) => Whole(s)'
    BY <1>1 DEF Whole, Recorded
  <2> QED BY <1>6, <1>8, <2>4, <2>5, <2>6 DEF StoreIsSound
<1> QED BY <1>10, <1>11

LEMMA SendLegsSound ==
    ASSUME ArbInv, SendLegs
    PROVE  IntentsInv' /\ StoreIsSound'
<1>1. /\ UNCHANGED <<engine, mode, open, symbols, queue, reader, pos, missed>>
      /\ engine = "running" /\ exec.stage = "price" /\ Executing /\ ArbTypes
  BY DEF SendLegs, Executing, ArbInv
<1>2. exec.legs = NoLegs
  BY <1>1 DEF ArbInv, IntentsInv
<1>3. /\ exec'.stage = "legs" /\ exec'.legs = exec.legs /\ exec'.symbol = exec.symbol
      /\ exec'.intents = exec.intents
  BY DEF SendLegs, ArbInv, ArbTypes, ExecTypes
<1>4. IntentsInv'
  BY <1>1, <1>3 DEF ArbInv, IntentsInv, Paired
<1>5. PICK i \in Intents : i = Intent /\ i = Intent'
  BY <1>1, <1>3, AtWork DEF Intent
<1>6. ASSUME NEW s \in Symbols, Whole(s) PROVE Whole(s)'
  BY <1>1, <1>6 DEF Whole, Recorded
<1>7. PICK z \in Symbols : z = exec.symbol
  BY <1>1, AtWork
<1>8. ASSUME Whole(z) PROVE UnderWay(z)'
  <2>1. PICK b \in Units :
           /\ z \notin missed => b \in -1 .. 1 /\ Recorded(z, b)
           /\ \A ex \in Ex : pos[ex][z] = Held(ex, b)
    BY <1>8 DEF Whole
  <2>2. z \notin missed => OpensNew(i, b)
    <3> SUFFICES ASSUME z \notin missed, i.action = "open" PROVE OpensNew(i, b)
      BY DEF OpensNew
    <3>1. 1 \in 1 .. Len(exec.intents) /\ i = exec.intents[1]
      BY <1>1, <1>5, AtWork
    <3>2. ~ Paired(z, i.direction)
      BY <1>1, <1>7, <3>1 DEF ArbInv, IntentsInv
    <3>3. /\ Paired(z, "binance_to_okx") <=> b > 0
          /\ Paired(z, "okx_to_binance") <=> b < 0
      BY <2>1, PairedFacts DEF Units
    <3>4. 1 > 0 /\ -1 < 0
      OBVIOUS
    <3> QED BY <3>2, <3>3, <3>4 DEF OpensNew
  <2>3. z \notin missed' => b \in -1 .. 1 /\ OpensNew(Intent', b) /\ Recorded(z, b)'
    BY <1>1, <1>5, <2>1, <2>2 DEF Recorded
  <2>4. \A ex \in Ex : exec'.legs[ex] = "wait" /\ pos'[ex][z] = Held(ex, b)
    BY <1>1, <1>2, <1>3, <2>1 DEF NoLegs
  <2>5. \A ex \in Ex : LegAt(Intent', ex, exec'.legs[ex], b, pos'[ex][z])
    BY <2>4 DEF LegAt
  <2> QED BY <2>3, <2>5 DEF UnderWay
<1>9. Trusted' => \A s \in Symbols : Whole(s)
  <2>1. Trusted' => Trusted
    BY <1>1, <1>3 DEF Trusted, OpenIsPlanned
  <2> QED BY <1>1, <2>1 DEF ArbInv, StoreIsSound
<1>10. StoreIsSound'
  BY <1>3, <1>6, <1>7, <1>8, <1>9 DEF StoreIsSound
<1> QED BY <1>4, <1>10

(* A closing leg makes no pair of the other direction: it leaves nothing on *)
(* the side it was sent to.                                                 *)
LEMMA ClosingMakesNoPair ==
    ASSUME ArbTypes, Executing, NEW x \in Ex, Intent.action = "close",
           Executable(x), pos' = Filled(x), NEW d \in Directions, d # Intent.direction,
           NEW s, s = exec.symbol
    PROVE  ~ (pos'[Buyer(d)][s] > 0 /\ pos'[Seller(d)][s] < 0)
<1>1. PICK i \in Intents : i = Intent /\ s \in Symbols
  BY AtWork
<1>2. /\ Delta(i, x) \in {-1, 1}
      /\ x = Buyer(d) => Delta(i, x) = 1
      /\ x = Seller(d) => Delta(i, x) = -1
      /\ x \in {Buyer(d), Seller(d)}
  BY <1>1 DEF Delta, Buyer, Seller, Intents, Directions, Ex
<1>3. PICK a \in {-1, 1}, p \in Int : a = Delta(i, x) /\ p = pos[x][s]
  BY <1>1, <1>2, ArbConstants DEF ArbTypes
<1>4. a * p < 0
  BY <1>1, <1>3 DEF Executable
<1>5. pos'[x][s] = p + a
  BY <1>1, <1>3, FilledType
<1>6. (a = 1 => p + a <= 0) /\ (a = -1 => p + a >= 0)
  BY <1>4
<1> QED BY <1>2, <1>3, <1>5, <1>6

LEMMA LegLandsSound ==
    ASSUME ArbInv, Undisturbed, NEW x \in Ex, LegLands(x)
    PROVE  IntentsInv' /\ StoreIsSound'
<1>1. /\ UNCHANGED <<engine, mode, open, symbols, queue, reader, missed>>
      /\ engine = "running" /\ exec.stage = "legs" /\ exec.legs[x] = "wait" /\ Executing /\ ArbTypes
  BY DEF LegLands, Executing, ArbInv
<1>2. PICK answer \in Answered :
         /\ exec' = [exec EXCEPT !.legs[x] = answer]
         /\ \/ Executable(x) /\ pos' = Filled(x) /\ answer \in {"ok", "fail"}
            \/ /\ ~ Executable(x) \/ Intent.action = "open"
               /\ answer = "fail" /\ pos' = pos
  BY DEF LegLands, Answered, Undisturbed
<1>3. /\ exec'.stage = "legs" /\ exec'.symbol = exec.symbol /\ exec'.intents = exec.intents
      /\ \A ex \in Ex : exec'.legs[ex] = IF ex = x THEN answer ELSE exec.legs[ex]
  BY <1>1, <1>2 DEF ArbTypes, ExecTypes
<1>4. PICK i \in Intents : i = Intent /\ i = Intent'
  BY <1>1, <1>3, AtWork DEF Intent
<1>5. PICK z \in Symbols : z = exec.symbol
  BY <1>1, AtWork
<1>6. IntentsInv'
  <2>1. ASSUME NEW k \in 1 .. Len(exec.intents), exec.intents[k].action = "open",
               z \notin missed, k # 1
        PROVE  ~ (/\ pos'[Buyer(exec.intents[k].direction)][z] > 0
                  /\ pos'[Seller(exec.intents[k].direction)][z] < 0)
    <3>1. Len(exec.intents) = 2 /\ k = 2 /\ i = exec.intents[1]
      <4>1. PICK n \in Nat : n = Len(exec.intents) /\ n <= 2
        BY <1>1, AtWork DEF ArbInv, IntentsInv
      <4>2. k \in 1 .. n /\ k # 1
        BY <2>1, <4>1
      <4>3. \A m \in Nat : m <= 2 => \A j \in 1 .. m : j # 1 => m = 2 /\ j = 2
        OBVIOUS
      <4>4. n = 2 /\ k = 2
        BY <4>1, <4>2, <4>3, Zenon
      <4> QED BY <1>1, <1>4, <4>1, <4>4, AtWork
    <3>2. i.action = "close" /\ i.direction # exec.intents[k].direction
      BY <2>1, <3>1 DEF ArbInv, IntentsInv
    <3>3. exec.intents[k].direction \in Directions
      <4>1. exec.intents[k] \in Intents
        BY <1>1, <2>1, Elements DEF ArbTypes, ExecTypes
      <4> QED BY <4>1 DEF Intents
    <3>4. ~ Paired(z, exec.intents[k].direction)
      BY <1>5, <2>1 DEF ArbInv, IntentsInv
    <3>5. CASE pos' = pos
      BY <3>4, <3>5 DEF Paired
    <3>6. CASE Executable(x) /\ pos' = Filled(x)
      <4>1. PICK d \in Directions : d = exec.intents[k].direction
        BY <3>3
      <4>2. ~ (pos'[Buyer(d)][z] > 0 /\ pos'[Seller(d)][z] < 0)
        BY <1>1, <1>4, <1>5, <3>2, <3>6, <4>1, ClosingMakesNoPair
      <4> QED BY <4>1, <4>2
    <3> QED BY <1>2, <3>5, <3>6
  <2> QED BY <1>1, <1>3, <1>5, <2>1 DEF ArbInv, IntentsInv, Paired
<1>7. \A s \in Symbols, ex \in Ex : ex # x \/ s # z => pos'[ex][s] = pos[ex][s]
  BY <1>1, <1>2, <1>5, FilledType
<1>8. Executable(x) /\ pos' = Filled(x) => pos'[x][z] = pos[x][z] + Delta(i, x)
  BY <1>1, <1>4, <1>5, FilledType
<1>9. ASSUME NEW s \in Symbols, s # z, Whole(s) PROVE Whole(s)'
  BY <1>1, <1>7, <1>9 DEF Whole, Recorded
<1>10. ASSUME UnderWay(z) PROVE UnderWay(z)'
  <2>1. PICK b \in Units :
           /\ z \notin missed => /\ b \in -1 .. 1 /\ OpensNew(i, b)
                                 /\ Recorded(z, b) \/ Moved(z, b)
           /\ \A ex \in Ex : LegAt(i, ex, exec.legs[ex], b, pos[ex][z])
    BY <1>4, <1>10 DEF UnderWay
  <2>2. \A ex \in Ex : ex # x => LegAt(i, ex, exec'.legs[ex], b, pos'[ex][z])
    BY <1>3, <1>7, <2>1
  <2>3. pos[x][z] = Held(x, b) /\ b \in Int
    BY <1>1, <2>1, ArbConstants DEF LegAt, Units
  <2>4. LegAt(i, x, answer, b, pos'[x][z])
    <3>1. CASE Executable(x) /\ pos' = Filled(x)
      <4>1. pos'[x][z] = Held(x, b) + Delta(i, x)
        BY <1>8, <2>3, <3>1
      <4>2. i.action = "close" => Delta(i, x) * Held(x, b) < 0
        BY <1>4, <1>5, <2>3, <3>1 DEF Executable
      <4>3. i.action = "close" => pos'[x][z] = Reduced(i, x, b)
        BY <4>1, <4>2 DEF Reduced
      <4>4. pos'[x][z] # Held(x, b)
        <5>1. Held(x, b) \in Int /\ Delta(i, x) \in {-1, 1}
          BY <2>3, HeldFacts DEF Delta
        <5>2. PICK h \in Int, d \in {-1, 1} : h = Held(x, b) /\ d = Delta(i, x)
          BY <5>1
        <5>3. h + d # h
          BY <5>2
        <5> QED BY <4>1, <5>2, <5>3
      <4> QED BY <1>2, <4>1, <4>3, <4>4 DEF LegAt, Answered
    <3>2. CASE pos' = pos /\ answer = "fail" /\ (~ Executable(x) \/ Intent.action = "open")
      <4>1. pos'[x][z] = Held(x, b)
        BY <2>3, <3>2
      <4>2. i.action = "close" => ~ (Delta(i, x) * Held(x, b) < 0)
        BY <1>4, <1>5, <2>3, <3>2 DEF Executable
      <4> QED BY <3>2, <4>1, <4>2 DEF LegAt, Reduced
    <3> QED BY <1>2, <3>1, <3>2
  <2>5. \A ex \in Ex : LegAt(i, ex, exec'.legs[ex], b, pos'[ex][z])
    BY <1>3, <2>2, <2>4
  <2>6. Moved(z, b) => Moved(z, b)'
    <3> SUFFICES ASSUME NEW ex \in Ex, pos[ex][z] # Held(ex, b) PROVE pos'[ex][z] # Held(ex, b)
      BY DEF Moved
    <3>1. ex # x
      BY <2>3
    <3> QED BY <1>7, <3>1
  <2>7. Recorded(z, b) => Recorded(z, b)'
    BY <1>1 DEF Recorded
  <2>8. z \notin missed' => b \in -1 .. 1 /\ OpensNew(Intent', b) /\ (Recorded(z, b)' \/ Moved(z, b)')
    BY <1>1, <1>4, <2>1, <2>6, <2>7
  <2>9. \A ex \in Ex : LegAt(Intent', ex, exec'.legs[ex], b, pos'[ex][z])
    BY <1>4, <2>5
  <2> QED BY <2>8, <2>9 DEF UnderWay
<1>11. StoreIsSound'
  <2>1. Trusted' => Trusted
    BY <1>1, <1>3 DEF Trusted, OpenIsPlanned
  <2>2. Trusted => UnderWay(z)' /\ \A s \in Symbols : s # z => Whole(s)'
    BY <1>1, <1>5, <1>9, <1>10 DEF ArbInv, StoreIsSound
  <2> QED BY <1>3, <1>5, <2>1, <2>2 DEF StoreIsSound
<1> QED BY <1>6, <1>11

(* What is left of the intents when one is done: its legs are not under way,*)
(* and of the second it is known what it was when both were decided on.     *)
LEMMA RestOfIntents ==
    ASSUME ArbInv, Executing, exec' = NextIntent, UNCHANGED <<pos, missed>>
    PROVE  /\ IntentsInv' /\ exec'.stage # "legs" /\ (OpenIsPlanned' => OpenIsPlanned)
           /\ Intent.action = "open" => ~ OpenIsPlanned'
<1>1. ArbTypes /\ IntentsInv
  BY DEF ArbInv
<1>2. /\ exec'.stage # "legs" /\ exec'.legs = NoLegs
      /\ exec' = NoExec \/ (exec'.symbol = exec.symbol /\ exec'.intents = Tail(exec.intents))
  BY <1>1, NextIntentFacts
<1>3. CASE exec' = NoExec
  <2>1. exec'.stage = "none" /\ exec'.intents = <<>> /\ exec'.legs = NoLegs
    BY <1>3, NoExecType DEF NoExec
  <2> QED BY <1>2, <2>1, NoIntents
<1>4. CASE exec' # NoExec
  <2>1. /\ Len(exec.intents) \in Nat \ {0} /\ Len(exec.intents) <= 2
        /\ exec.intents \in Seq(Intents) /\ exec.intents # <<>> /\ Intent = exec.intents[1]
    BY <1>1, AtWork DEF IntentsInv, ArbTypes, ExecTypes
  <2>2. Len(exec.intents) # 1
    BY <1>4 DEF NextIntent
  <2>3. Len(exec.intents) = 2
    <3>1. PICK n \in Nat \ {0} : n = Len(exec.intents)
      BY <2>1
    <3>2. n <= 2 /\ n # 1
      BY <2>1, <2>2, <3>1
    <3>3. n = 2
      BY <3>2
    <3> QED BY <3>1, <3>3
  <2>4. Len(exec'.intents) = 1 /\ exec'.intents[1] = exec.intents[2]
    <3>1. PICK is \in Seq(Intents) : is = exec.intents /\ is # <<>> /\ Len(is) = 2
      BY <2>1, <2>3
    <3>2. Len(Tail(is)) = 2 - 1 /\ \A k \in 1 .. 2 - 1 : Tail(is)[k] = is[k + 1]
      BY <3>1, Shifted
    <3>3. Len(Tail(is)) = 1 /\ Tail(is)[1] = is[2]
      BY <3>2
    <3> QED BY <1>2, <1>4, <3>1, <3>3
  <2>5. \A k \in 1 .. Len(exec'.intents) : k = 1 /\ exec'.intents[k] = exec.intents[2]
    BY <2>4
  <2>6. 2 \in 1 .. Len(exec.intents) /\ 2 # 1
    BY <2>3
  <2>7. exec.intents[2].action = "open" /\ exec.symbol \notin missed =>
           ~ Paired(exec.symbol, exec.intents[2].direction)
    BY <1>1, <2>6 DEF IntentsInv
  <2>8. (\A k \in 1 .. Len(exec.intents) :
           exec.intents[k].action = "open" /\ exec.symbol \notin missed =>
               ~ Paired(exec.symbol, exec.intents[k].direction))'
    BY <1>2, <1>4, <2>5, <2>7 DEF Paired
  <2>9. Len(exec'.intents) <= 2 /\ Len(exec'.intents) # 2
    BY <2>4
  <2>10. IntentsInv'
    BY <1>2, <2>8, <2>9 DEF IntentsInv
  <2>11. OpenIsPlanned' => exec.intents[2].action = "open"
    BY <2>5 DEF OpenIsPlanned
  <2>12. OpenIsPlanned' => OpenIsPlanned
    BY <2>6, <2>11 DEF OpenIsPlanned
  <2>13. Intent.action = "open" => exec.intents[2].action = "close"
    BY <1>1, <2>1, <2>3 DEF IntentsInv
  <2> QED BY <1>2, <2>10, <2>11, <2>12, <2>13
<1> QED BY <1>3, <1>4

(* Both legs were answered "ok": the pair is recorded, or struck out.       *)
LEMMA ExecutedSound ==
    ASSUME ArbInv, Executed
    PROVE  IntentsInv' /\ StoreIsSound'
<1>1. /\ UNCHANGED <<engine, mode, symbols, queue, reader, pos, missed>> /\ exec' = NextIntent
      /\ engine = "running" /\ exec.stage = "legs" /\ Executing /\ ArbTypes
      /\ \A ex \in Ex : exec.legs[ex] = "ok"
  BY DEF Executed, LegsAnswered, AllLegsOk, Executing, ArbInv
<1>2. /\ Intent \in Intents /\ exec.symbol \in Symbols
  BY <1>1, AtWork
<1>3. PICK i \in Intents : i = Intent
  BY <1>2
<1>4. i.direction \in Directions /\ i.action \in {"open", "close"}
  BY <1>3, DeltaFacts
<1>5. open' = [open EXCEPT ![exec.symbol][i.direction] = (i.action = "open")]
  BY <1>3 DEF Executed
<1>6. PICK z \in Symbols : z = exec.symbol
  BY <1>2
<1>7. \A s \in Symbols, d \in Directions :
         open'[s][d] = IF s = z /\ d = i.direction THEN (i.action = "open") ELSE open[s][d]
  BY <1>1, <1>4, <1>5, <1>6 DEF ArbTypes
<1>8. IntentsInv' /\ exec'.stage # "legs" /\ (OpenIsPlanned' => OpenIsPlanned)
  BY <1>1, RestOfIntents
<1>9. ASSUME NEW s \in Symbols, s # z, Whole(s) PROVE Whole(s)'
  <2>1. \A b \in Units : Recorded(s, b) => Recorded(s, b)'
    BY <1>7, <1>9 DEF Recorded, Directions
  <2> QED BY <1>1, <1>9, <2>1 DEF Whole
<1>10. ASSUME UnderWay(z) PROVE Whole(z)'
  <2>1. PICK b \in Units :
           /\ z \notin missed => /\ b \in -1 .. 1 /\ OpensNew(i, b)
                                 /\ Recorded(z, b) \/ Moved(z, b)
           /\ \A ex \in Ex : LegAt(i, ex, exec.legs[ex], b, pos[ex][z])
    BY <1>3, <1>10 DEF UnderWay
  <2>2. b \in Int
    BY <2>1, ArbConstants DEF Units
  <2>3. CASE i.action = "open"
    <3>1. PICK c \in Int :
             /\ \A ex \in Ex : Held(ex, b) + Delta(i, ex) = Held(ex, c)
             /\ b \in -1 .. 1 /\ OpensNew(i, b) =>
                   /\ c \in -1 .. 1
                   /\ c = 1 => i.direction = "binance_to_okx"
                   /\ c = -1 => i.direction = "okx_to_binance"
      BY <2>2, <2>3, OpenedFacts
    <3>2. \A ex \in Ex : pos[ex][z] = Held(ex, c)
      BY <1>1, <2>1, <2>3, <3>1 DEF LegAt
    <3>3. c \in Units
      <4>1. pos["binance"][z] \in Units /\ Held("binance", c) = c
        BY <1>1, <3>1, HeldFacts DEF ArbTypes, Ex, Units
      <4> QED BY <3>2, <4>1 DEF Ex
    <3>4. open'[z][i.direction]
      BY <1>4, <1>7, <2>3
    <3>5. z \notin missed => c \in -1 .. 1 /\ Recorded(z, c)'
      BY <2>1, <3>1, <3>4 DEF Recorded
    <3> QED BY <1>1, <3>2, <3>3, <3>5 DEF Whole
  <2>4. CASE i.action = "close"
    <3>1. PICK c \in Units :
             /\ \A ex \in Ex : Reduced(i, ex, b) = Held(ex, c)
             /\ b \in -1 .. 1 /\ (\E ex \in Ex : Reduced(i, ex, b) # Held(ex, b)) => c = 0
      BY <2>1, <2>4, ReducedFacts
    <3>2. \A ex \in Ex : pos[ex][z] = Held(ex, c) /\ pos[ex][z] # Held(ex, b)
      BY <1>1, <2>1, <2>4, <3>1 DEF LegAt
    <3>3. z \notin missed => c = 0
      BY <2>1, <3>1, <3>2 DEF Ex
    <3>4. z \notin missed => c \in -1 .. 1 /\ Recorded(z, c)'
      BY <3>3 DEF Recorded
    <3> QED BY <1>1, <3>1, <3>2, <3>4 DEF Whole
  <2> QED BY <1>4, <2>3, <2>4
<1>11. StoreIsSound'
  <2>1. Trusted' => Trusted
    BY <1>1, <1>8 DEF Trusted
  <2>2. Trusted => \A s \in Symbols : Whole(s)'
    BY <1>1, <1>6, <1>9, <1>10 DEF ArbInv, StoreIsSound
  <2> QED BY <1>8, <2>1, <2>2 DEF StoreIsSound
<1> QED BY <1>8, <1>11

(* A leg failed: an open takes the trust away; of a close, both legs had    *)
(* been executed or neither, and the answer of one was lost.                *)
LEMMA FailedSound ==
    ASSUME ArbInv, ExecutionFailed
    PROVE  IntentsInv' /\ StoreIsSound'
<1>1. /\ UNCHANGED <<engine, open, symbols, queue, reader, pos, missed>> /\ exec' = NextIntent
      /\ engine = "running" /\ exec.stage = "legs" /\ Executing /\ ArbTypes
      /\ \A ex \in Ex : exec.legs[ex] # "wait"
      /\ mode' = IF Intent.action = "open" THEN "close_only" ELSE mode
  BY DEF ExecutionFailed, LegsAnswered, Executing, ArbInv
<1>2. PICK i \in Intents : i = Intent
  BY <1>1, AtWork
<1>3. /\ IntentsInv' /\ exec'.stage # "legs" /\ (OpenIsPlanned' => OpenIsPlanned)
      /\ Intent.action = "open" => ~ OpenIsPlanned'
  BY <1>1, RestOfIntents
<1>4. PICK z \in Symbols : z = exec.symbol
  BY <1>1, AtWork
<1>5. ASSUME NEW s \in Symbols, s # z, Whole(s) PROVE Whole(s)'
  BY <1>1, <1>5 DEF Whole, Recorded
<1>6. ASSUME UnderWay(z), i.action = "close" PROVE Whole(z)'
  <2>1. PICK b \in Units :
           /\ z \notin missed => b \in -1 .. 1 /\ (Recorded(z, b) \/ Moved(z, b))
           /\ \A ex \in Ex : LegAt(i, ex, exec.legs[ex], b, pos[ex][z])
    BY <1>2, <1>6 DEF UnderWay
  <2>2. PICK c \in Units :
           /\ \A ex \in Ex : Reduced(i, ex, b) = Held(ex, c)
           /\ b \in -1 .. 1 => c = b \/ c = 0
           /\ b \in -1 .. 1 /\ (\E ex \in Ex : Reduced(i, ex, b) # Held(ex, b)) => c = 0
    BY <1>6, <2>1, ReducedFacts
  <2>3. \A ex \in Ex : pos[ex][z] = Held(ex, c) /\ pos[ex][z] = Reduced(i, ex, b)
    BY <1>1, <1>6, <2>1, <2>2 DEF LegAt
  <2>4. Recorded(z, 0)'
    BY DEF Recorded
  <2>5. z \notin missed => c \in -1 .. 1 /\ Recorded(z, c)'
    <3> SUFFICES ASSUME z \notin missed PROVE c \in -1 .. 1 /\ Recorded(z, c)'
      OBVIOUS
    <3>1. CASE c = 0
      BY <2>4, <3>1
    <3>2. CASE c # 0
      <4>1. c = b /\ b \in -1 .. 1 /\ ~ Moved(z, b)
        BY <2>1, <2>2, <2>3, <3>2 DEF Moved
      <4>2. Recorded(z, c)
        BY <2>1, <4>1
      <4> QED BY <1>1, <4>1, <4>2 DEF Recorded
    <3> QED BY <3>1, <3>2
  <2> QED BY <1>1, <2>2, <2>3, <2>5 DEF Whole
<1>7. StoreIsSound'
  <2>1. Trusted' => Trusted /\ i.action = "close"
    <3>1. i.action = "open" \/ i.action = "close"
      BY DeltaFacts
    <3>2. CASE i.action = "open"
      BY <1>1, <1>2, <1>3, <3>2 DEF Trusted
    <3>3. CASE i.action = "close"
      BY <1>1, <1>2, <1>3, <3>3 DEF Trusted
    <3> QED BY <3>1, <3>2, <3>3
  <2>2. Trusted /\ i.action = "close" => \A s \in Symbols : Whole(s)'
    BY <1>1, <1>4, <1>5, <1>6 DEF ArbInv, StoreIsSound
  <2> QED BY <1>3, <2>1, <2>2 DEF StoreIsSound
<1> QED BY <1>3, <1>7

(* The first reconciliation is over, and the mode is normal again.          *)
LEMMA StartedSound ==
    ASSUME ArbInv, Started
    PROVE  IntentsInv' /\ StoreIsSound'
<1>1. UNCHANGED <<open, symbols, queue, exec, reader, pos, missed>> /\ engine = "starting"
  BY DEF Started
<1>2. IntentsInv'
  BY <1>1, IntentsUnchanged DEF ArbInv
<1>3. StoreIsSound'
  BY <1>1, SoundUnchanged DEF ArbInv, Trusted
<1> QED BY <1>2, <1>3

LEMMA PriceFailedSound ==
    ASSUME ArbInv, PriceFailed
    PROVE  IntentsInv' /\ StoreIsSound'
<1>1. UNCHANGED engine /\ engine = "running" /\ mode' = "close_only" /\ exec' = NoExec
  BY DEF PriceFailed
<1>2. exec'.stage = "none" /\ exec'.intents = <<>> /\ exec'.legs = NoLegs
  BY <1>1, NoExecType DEF NoExec
<1>3. IntentsInv' /\ ~ OpenIsPlanned'
  BY <1>2, NoIntents
<1>4. ~ Trusted'
  BY <1>1, <1>3 DEF Trusted
<1> QED BY <1>3, <1>4 DEF StoreIsSound

(* Events that come in, passes that begin, positions that are read, reads   *)
(* that fail, symbols that are put.                                         *)
LEMMA OthersSound ==
    ASSUME ArbInv, UNCHANGED <<engine, open, exec, pos, missed>>, mode' = mode \/ mode' = "close_only"
    PROVE  IntentsInv' /\ StoreIsSound'
<1>1. IntentsInv'
  BY IntentsUnchanged DEF ArbInv
<1>2. Trusted' => Trusted
  BY DEF Trusted, OpenIsPlanned
<1>3. StoreIsSound'
  BY <1>2, SoundUnchanged DEF ArbInv
<1> QED BY <1>1, <1>3

(* A pass that overlooks nothing records the pair that it finds.            *)
LEMMA RecordedWhenSeen ==
    ASSUME NEW s, NEW seen, NEW b \in -1 .. 1, ~ Overlooked(s, seen),
           \A ex \in Ex : pos[ex][s] = Held(ex, b),
           \A d \in Directions : open'[s][d] = HasPosition(seen, d)
    PROVE  Recorded(s, b)'
<1>1. /\ Paired(s, "binance_to_okx") <=> b > 0
      /\ Paired(s, "okx_to_binance") <=> b < 0
  BY PairedFacts
<1>2. \A d \in Directions : Paired(s, d) => open'[s][d]
  BY DEF Overlooked
<1>3. /\ b = 1 => Paired(s, "binance_to_okx")
      /\ b = -1 => Paired(s, "okx_to_binance")
  BY <1>1
<1> QED BY <1>2, <1>3 DEF Recorded, Directions

(* When nothing is held, what there was before the legs were sent follows.  *)
LEMMA FoundFlat ==
    ASSUME NEW i \in Intents, NEW legs \in [Ex -> Answered], NEW b \in Units,
           \A ex \in Ex : LegAt(i, ex, legs[ex], b, 0)
    PROVE  \E c \in -1 .. 1 : OpensNew(i, c) /\ \A ex \in Ex : LegAt(i, ex, legs[ex], c, 0)
<1>1. PICK d \in {-1, 1} : d = Delta(i, "binance") /\ Delta(i, "okx") = -d
  BY DeltaFacts
<1>2. b \in Int
  BY ArbConstants DEF Units
<1>3. /\ i.action = "open" /\ i.direction = "binance_to_okx" => d = 1
      /\ i.action = "open" /\ i.direction = "okx_to_binance" => d = -1
  BY <1>1, DeltaFacts
<1>4. i.action \in {"open", "close"}
  BY DeltaFacts
<1>5. CASE i.action = "open" /\ \A ex \in Ex : legs[ex] = "fail"
  <2>1. \A ex \in Ex : LegAt(i, ex, legs[ex], 0, 0)
    BY <1>5 DEF LegAt
  <2>2. OpensNew(i, 0) /\ 0 \in -1 .. 1
    BY DEF OpensNew
  <2> QED BY <2>1, <2>2
<1>6. ASSUME NEW x \in Ex, i.action = "close" \/ legs[x] # "fail"
      PROVE  b \in -1 .. 1 /\ (i.action = "open" => b = 0 \/ b = -d)
  <2>1. PICK h \in Int, a \in {-1, 1} :
           /\ h = Held(x, b) /\ a = Delta(i, x)
           /\ x = "binance" => h = b /\ a = d
           /\ x = "okx" => h = -b /\ a = -d
    BY <1>1, <1>2, HeldFacts DEF Ex
  <2>2. legs[x] \in {"wait", "ok", "fail"}
    BY DEF Answered
  <2>3. h = 0 \/ h + a = 0
    BY <1>4, <1>6, <2>1, <2>2 DEF LegAt, Reduced
  <2>4. CASE x = "binance"
    BY <1>2, <2>1, <2>3, <2>4
  <2>5. CASE x = "okx"
    BY <1>2, <2>1, <2>3, <2>5
  <2> QED BY <2>4, <2>5 DEF Ex
<1>7. CASE ~ (i.action = "open" /\ \A ex \in Ex : legs[ex] = "fail")
  <2>1. PICK x \in Ex : i.action = "close" \/ legs[x] # "fail"
    BY <1>4, <1>7 DEF Ex
  <2>2. b \in -1 .. 1 /\ (i.action = "open" => b = 0 \/ b = -d)
    BY <1>6, <2>1
  <2>3. OpensNew(i, b)
    BY <1>3, <2>2 DEF OpensNew
  <2> QED BY <2>2, <2>3
<1> QED BY <1>5, <1>7

LEMMA PositionsSyncedSound ==
    ASSUME ArbInv, NEW r \in Readers, PositionsSynced(r)
    PROVE  IntentsInv' /\ StoreIsSound'
<1>1. /\ UNCHANGED <<engine, mode, symbols, queue, exec, pos>> /\ Reading(r) /\ ArbTypes
  BY DEF PositionsSynced, ArbInv
<1>2. PICK z \in Symbols : z = Current(r)
  BY <1>1, NextSymbolFacts
<1>3. PICK seen : seen = reader[r].seen
  OBVIOUS
<1>4. open' = [open EXCEPT ![z] = [d \in Directions |-> HasPosition(seen, d)]]
  BY <1>2, <1>3 DEF PositionsSynced, Synced
<1>5. /\ \A s \in Symbols : s # z => open'[s] = open[s]
      /\ \A d \in Directions : open'[z][d] = HasPosition(seen, d)
  BY <1>1, <1>4 DEF ArbTypes
<1>6. missed' = IF Overlooked(z, seen) THEN missed \union {z}
                ELSE IF \A ex \in Ex : pos[ex][z] = 0 THEN missed \ {z} ELSE missed
  BY <1>2, <1>3 DEF PositionsSynced
<1>7. /\ \A s \in Symbols : s # z => (s \in missed' <=> s \in missed)
      /\ z \in missed /\ z \notin missed' => \A ex \in Ex : pos[ex][z] = 0
      /\ z \notin missed' => ~ Overlooked(z, seen)
  BY <1>6
<1>8. IntentsInv'
  <2>1. ASSUME NEW d, \A ex \in Ex : pos[ex][z] = 0, Paired(z, d) PROVE FALSE
    <3>1. Buyer(d) \in Ex /\ ~ (0 > 0)
      BY DEF Buyer, Ex
    <3> QED BY <2>1, <3>1 DEF Paired
  <2>2. exec.symbol \in Symbols
    BY <1>1 DEF ArbTypes, ExecTypes
  <2>3. \A k \in 1 .. Len(exec.intents) :
           /\ exec.intents[k].action = "open" /\ exec.symbol \notin missed'
           /\ exec.stage = "legs" => k # 1
           => ~ Paired(exec.symbol, exec.intents[k].direction)
    BY <1>7, <2>1, <2>2 DEF ArbInv, IntentsInv
  <2> QED BY <1>1, <2>3 DEF ArbInv, IntentsInv, Paired
<1>9. ASSUME NEW s \in Symbols, s # z PROVE (Whole(s) => Whole(s)') /\ (UnderWay(s) => UnderWay(s)')
  <2>1. \A b \in Units : Recorded(s, b)' <=> Recorded(s, b)
    BY <1>5, <1>9 DEF Recorded
  <2>2. Whole(s) => Whole(s)'
    BY <1>1, <1>7, <1>9, <2>1 DEF Whole
  <2>3. UnderWay(s) => UnderWay(s)'
    BY <1>1, <1>7, <1>9, <2>1 DEF UnderWay, Moved, Intent
  <2> QED BY <2>2, <2>3
<1>10. Recorded(z, 0)' /\ 0 \in -1 .. 1 /\ 0 \in Units
  BY ArbConstants DEF Recorded, Units
<1>11. ASSUME z \in missed, z \notin missed', \A ex \in Ex : pos[ex][z] = 0
       PROVE  Whole(z)' /\ (exec.stage = "legs" /\ z = exec.symbol /\ UnderWay(z) => UnderWay(z)')
  <2>1. Whole(z)'
    BY <1>1, <1>10, <1>11, HeldNothing DEF Whole
  <2>2. ASSUME UnderWay(z), exec.stage = "legs" PROVE UnderWay(z)'
    <3>1. PICK b \in Units : \A ex \in Ex : LegAt(Intent, ex, exec.legs[ex], b, 0)
      BY <1>11, <2>2 DEF UnderWay
    <3>2. Intent \in Intents /\ exec.legs \in [Ex -> Answered]
      BY <1>1, <2>2, AtWork DEF Executing, ArbTypes, ExecTypes
    <3>3. PICK c \in -1 .. 1 : OpensNew(Intent, c) /\ \A ex \in Ex : LegAt(Intent, ex, exec.legs[ex], c, 0)
      BY <3>1, <3>2, FoundFlat
    <3>4. c \in Units
      BY ArbConstants DEF Units
    <3>5. Recorded(z, c)' \/ Moved(z, c)'
      <4>1. CASE c = 0
        BY <1>10, <4>1
      <4>2. CASE c # 0
        <5>1. Held("binance", c) = c /\ pos'["binance"][z] = 0
          BY <1>1, <1>11, HeldFacts DEF Ex
        <5> QED BY <4>2, <5>1 DEF Moved, Ex
      <4> QED BY <4>1, <4>2
    <3>6. Intent' = Intent
      BY <1>1 DEF Intent
    <3> QED BY <1>1, <1>11, <3>3, <3>4, <3>5, <3>6 DEF UnderWay
  <2> QED BY <2>1, <2>2
<1>12. ASSUME z \in missed'
       PROVE  (Whole(z) => Whole(z)') /\ (UnderWay(z) => UnderWay(z)')
  BY <1>1, <1>12 DEF Whole, UnderWay, Intent
<1>13. ASSUME z \notin missed, z \notin missed'
       PROVE  (Whole(z) => Whole(z)') /\ (UnderWay(z) => UnderWay(z)')
  <2>1. ASSUME NEW b \in -1 .. 1, ~ Moved(z, b) PROVE Recorded(z, b)'
    BY <1>5, <1>7, <1>13, <2>1, RecordedWhenSeen DEF Moved
  <2>2. ASSUME Whole(z) PROVE Whole(z)'
    <3>1. PICK b \in Units : b \in -1 .. 1 /\ ~ Moved(z, b)
      BY <1>13, <2>2 DEF Whole, Moved
    <3> QED BY <1>1, <2>1, <3>1 DEF Whole, Moved
  <2>3. ASSUME UnderWay(z) PROVE UnderWay(z)'
    <3>1. PICK b \in Units :
             /\ b \in -1 .. 1 /\ OpensNew(Intent, b)
             /\ \A ex \in Ex : LegAt(Intent, ex, exec.legs[ex], b, pos[ex][z])
      BY <1>13, <2>3 DEF UnderWay
    <3>2. Recorded(z, b)' \/ Moved(z, b)
      BY <2>1, <3>1
    <3>3. Moved(z, b)' <=> Moved(z, b)
      BY <1>1 DEF Moved
    <3>4. Intent' = Intent
      BY <1>1 DEF Intent
    <3> QED BY <1>1, <3>1, <3>2, <3>3, <3>4 DEF UnderWay
  <2> QED BY <2>2, <2>3
<1>14. Trusted' <=> Trusted
  BY <1>1, TrustUnchanged
<1>15. ASSUME NEW s \in Symbols, Trusted
       PROVE  IF exec'.stage = "legs" /\ s = exec'.symbol THEN UnderWay(s)' ELSE Whole(s)'
  <2>1. IF exec.stage = "legs" /\ s = exec.symbol THEN UnderWay(s) ELSE Whole(s)
    BY <1>15 DEF ArbInv, StoreIsSound
  <2> QED BY <1>1, <1>7, <1>9, <1>11, <1>12, <1>13, <2>1
<1>16. StoreIsSound'
  BY <1>14, <1>15 DEF StoreIsSound
<1> QED BY <1>8, <1>16

LEMMA ArbInvStep ==
    ASSUME Undisturbed
    PROVE  ArbInv /\ [Next]_vars => ArbInv'
<1> SUFFICES ASSUME ArbInv, [Next]_vars PROVE ArbInv'
  OBVIOUS
<1>1. ArbTypes' /\ engine # "down"
  BY ArbTypesStep DEF ArbInv
<1>2. CASE Started
  BY <1>1, <1>2, StartedSound DEF ArbInv, Started
<1>3. CASE TakeEvent
  BY <1>1, <1>3, TakeEventSound DEF ArbInv, TakeEvent
<1>4. CASE SendLegs
  BY <1>1, <1>4, SendLegsSound DEF ArbInv, SendLegs
<1>5. CASE PriceFailed
  BY <1>1, <1>5, PriceFailedSound DEF ArbInv, PriceFailed
<1>6. CASE Executed
  BY <1>1, <1>6, ExecutedSound DEF ArbInv, Executed
<1>7. CASE ExecutionFailed
  BY <1>1, <1>7, FailedSound DEF ArbInv, ExecutionFailed
<1>8. CASE PutRiskMode \/ Crash \/ Restart
  BY <1>1, <1>8 DEF PutRiskMode, Crash, Restart, Undisturbed
<1>9. CASE PutSymbols \/ UNCHANGED vars
  <2>1. UNCHANGED <<engine, mode, open, exec, pos, missed>>
    BY <1>9 DEF PutSymbols, vars
  <2> QED BY <1>1, <2>1, OthersSound DEF ArbInv
<1>10. ASSUME NEW e \in Events, Publish(e) PROVE ArbInv'
  <2>1. UNCHANGED <<engine, mode, open, exec, pos, missed>>
    BY <1>10 DEF Publish
  <2> QED BY <1>1, <2>1, OthersSound DEF ArbInv
<1>11. ASSUME NEW ex \in Ex, LegLands(ex) PROVE ArbInv'
  BY <1>1, <1>11, LegLandsSound DEF ArbInv, LegLands
<1>12. ASSUME NEW r \in Readers,
              \/ Reconcile(r) \/ PositionsSynced(r) \/ ReadFailed(r)
              \/ \E ex \in Ex : PositionRead(r, ex)
       PROVE  ArbInv'
  <2>1. CASE PositionsSynced(r)
    BY <1>1, <2>1, PositionsSyncedSound DEF ArbInv, PositionsSynced
  <2>2. CASE Reconcile(r) \/ ReadFailed(r) \/ \E ex \in Ex : PositionRead(r, ex)
    <3>1. UNCHANGED <<engine, open, exec, pos, missed>> /\ (mode' = mode \/ mode' = "close_only")
      BY <2>2 DEF Reconcile, ReadFailed, PositionRead
    <3> QED BY <1>1, <3>1, OthersSound DEF ArbInv
  <2> QED BY <1>12, <2>1, <2>2
<1> QED BY <1>2, <1>3, <1>4, <1>5, <1>6, <1>7, <1>8, <1>9, <1>10, <1>11, <1>12 DEF Next

(* As long as the mode is normal, or an open that was decided on in normal  *)
(* mode is not done, the exchanges hold of every symbol whole pairs or      *)
(* nothing; and of one that no reconciliation has missed, one unit at most, *)
(* which the store has recorded.                                            *)
THEOREM ArbInvariant ==
    ASSUME Undisturbed
    PROVE  Spec => []ArbInv
<1>1. Init => ArbInv
  BY TypesInit, SoundInit DEF ArbInv
<1>2. ArbInv /\ [Next]_vars => ArbInv'
  BY ArbInvStep
<1> QED BY <1>1, <1>2, PTL DEF Spec

(* What the loop is about to send: an open that is still planned, of a      *)
(* symbol that is whole.                                                    *)
LEMMA SentWhenFlat ==
    ASSUME ArbInv, SendLegs, Intent.action = "open"
    PROVE  /\ exec.symbol \notin missed => ~ Paired(exec.symbol, Intent.direction)
           /\ ~ Naked(exec.symbol)
<1>1. ArbTypes /\ Executing /\ exec.stage # "legs"
  BY DEF ArbInv, SendLegs, Executing
<1>2. /\ Len(exec.intents) \in Nat \ {0} /\ Intent = exec.intents[1] /\ exec.symbol \in Symbols
  BY <1>1, AtWork
<1>3. 1 \in 1 .. Len(exec.intents)
  BY <1>2
<1>4. exec.symbol \notin missed => ~ Paired(exec.symbol, Intent.direction)
  BY <1>1, <1>2, <1>3 DEF ArbInv, IntentsInv
<1>5. Whole(exec.symbol)
  BY <1>1, <1>2, <1>3 DEF ArbInv, StoreIsSound, Trusted, OpenIsPlanned
<1>6. PICK b \in Units : \A ex \in Ex : pos[ex][exec.symbol] = Held(ex, b)
  BY <1>5 DEF Whole
<1>7. b \in Int
  BY ArbConstants DEF Units
<1>8. ~ Naked(exec.symbol)
  BY <1>6, <1>7, PairedFacts
<1> QED BY <1>4, <1>8

(* The legs of an open are sent on top of a pair that is held already only  *)
(* when a reconciliation, overtaken by an execution, has recorded that      *)
(* there was none, and has found nothing flat since.  Reconciliations may   *)
(* overlap the loop and one another in any way.                             *)
THEOREM OpensOnlyWhenFlatTheorem ==
    ASSUME Undisturbed
    PROVE  Spec => OpensOnlyWhenFlat
<1>1. ArbInv /\ [Next]_vars =>
         [SendLegs /\ Intent.action = "open" /\ exec.symbol \notin missed =>
             ~ Paired(exec.symbol, Intent.direction)]_vars
  BY SentWhenFlat
<1> QED BY <1>1, ArbInvariant, PTL DEF Spec, OpensOnlyWhenFlat

(* The legs of an open are never sent while the symbol has a leg without    *)
(* its counterpart, though legs are refused, answers get lost and           *)
(* reconciliations overlap the loop.                                        *)
THEOREM NoOpenOnNakedLegTheorem ==
    ASSUME Undisturbed
    PROVE  Spec => NoOpenOnNakedLeg
<1>1. ArbInv /\ [Next]_vars =>
         [SendLegs /\ Intent.action = "open" => ~ Naked(exec.symbol)]_vars
  BY SentWhenFlat
<1> QED BY <1>1, ArbInvariant, PTL DEF Spec, NoOpenOnNakedLeg
=============================================================================
