--------------------------- MODULE MeanReversion ---------------------------
(***************************************************************************)
(* The back test behind /api/mean-reversion: evaluateMeanReversion of      *)
(* strategy/meanReversion.ts, one action per bar of the series.            *)
(*                                                                         *)
(* Abstractions.  Values are whole basis points, the ratios of the         *)
(* configuration are counted in hundredths, and a comparison of ratios is a*)
(* comparison of products.  The trades are kept as the sum of what they    *)
(* earned.  Time stamps, and the series returned for the chart, are left   *)
(* out.                                                                    *)
(***************************************************************************)
EXTENDS Integers, Sequences, FiniteSets, Functions

CONSTANTS
    Values,          \* what a bar may hold
    MaxBars,         \* bound: the length of the series
    LookbackBars,    \* the configuration, once sanitizeConfig has seen it
    EntryZ, ExitZ,
    RegimeLookbackBars, MinFlipRate, MaxTrendStrength,
    MaxHoldBars

ASSUME ReversionAssumption ==
    /\ Values \subseteq Int /\ MaxBars \in Nat
    /\ {LookbackBars, RegimeLookbackBars} \subseteq Nat \ {0}
    /\ {EntryZ, ExitZ, MinFlipRate, MaxTrendStrength} \subseteq Nat
    /\ MaxHoldBars \in Nat \ {0, 1}

VARIABLES
    bars,     \* the values so far
    ranging,  \* isRanging of the last bar
    position, \* -1, 0 or 1
    entry,    \* entryValue
    hold,     \* holdBars
    closed,   \* the sum of pnlBps of the closed trades
    total,    \* totalPnlBps
    range     \* rangePnlBps

ledger == <<position, entry, hold, closed, total, range>>
reversionVars == <<bars, ranging, ledger>>

ReversionInit ==
    /\ bars = <<>> /\ ranging = FALSE
    /\ position = 0 /\ entry = 0 /\ hold = 0
    /\ closed = 0 /\ total = 0 /\ range = 0

-----------------------------------------------------------------------------
(* The indicators at the last bar of a series. *)

Added(s) == FoldFunction(LAMBDA a, b : a + b, 0, s)
Square(n) == n * n
Size(n) == IF n < 0 THEN -n ELSE n
Squares(s) == [k \in DOMAIN s |-> Square(s[k])]
Sizes(s) == [k \in DOMAIN s |-> Size(s[k])]
LastBars(s, n) == SubSeq(s, Len(s) - n + 1, Len(s))

(* rollingStats, times lookbackBars: how far the last bar is from the mean, *)
(* and the variance.                                                        *)
Deviation(s) == LookbackBars * s[Len(s)] - Added(LastBars(s, LookbackBars))
Variance(s) ==
    LookbackBars * Added(Squares(LastBars(s, LookbackBars)))
        - Square(Added(LastBars(s, LookbackBars)))

HasZScore(s) == Len(s) >= LookbackBars /\ Variance(s) > 0
AtLeastZ(s, z) == Square(100 * Deviation(s)) >= z * z * Variance(s)
AtMostZ(s, z) == Square(100 * Deviation(s)) <= z * z * Variance(s)

(* regimeStats: how often the steps change sign, and how far they lead      *)
(* compared with the way they go.  Without two steps both ratios are 0.     *)
Steps(s) == [k \in 1 .. Len(s) - 1 |-> s[k + 1] - s[k]]
Flips(steps) ==
    Cardinality({k \in 1 .. Len(steps) - 1 : (steps[k] > 0) # (steps[k + 1] > 0)})

Choppy(window) ==
    LET moved == SelectSeq(Steps(window), LAMBDA d : d # 0)
    IN  IF Len(moved) <= 1 THEN MinFlipRate = 0
        ELSE /\ 100 * Flips(moved) >= MinFlipRate * (Len(moved) - 1)
             /\ 100 * Size(Added(moved)) <= MaxTrendStrength * Added(Sizes(moved))

IsRanging(s) ==
    Len(s) >= RegimeLookbackBars /\ Choppy(LastBars(s, RegimeLookbackBars))

(* signal: 1 is long, -1 short and 0 flat.                                  *)
Signal(s) ==
    IF ~ (HasZScore(s) /\ IsRanging(s) /\ AtLeastZ(s, EntryZ)) THEN 0
    ELSE IF Deviation(s) >= 0 THEN -1 ELSE 1

-----------------------------------------------------------------------------
(* One bar. *)

Value(s) == IF s = <<>> THEN 0 ELSE s[Len(s)]
Step(v) == IF bars = <<>> THEN 0 ELSE v - Value(bars)
Held == IF position = 0 THEN hold ELSE hold + 1

(* The step since the last bar is earned by the position carried into it,   *)
(* and booked to the regime of the last bar.                                *)
MarkToMarket(v) ==
    /\ total' = total + position * Step(v)
    /\ range' = IF ranging THEN range + position * Step(v) ELSE range

(* Mutant: the end of the ranging regime is not looked at. *)
ExitOnZOnly(s) ==
    \/ ~ HasZScore(s) \/ AtMostZ(s, ExitZ)
    \/ Held >= MaxHoldBars

ShouldExit(s) ==
    \/ ~ IsRanging(s)
    \/ ~ HasZScore(s) \/ AtMostZ(s, ExitZ)
    \/ Held >= MaxHoldBars

Enter(s) ==
    /\ position = 0
    /\ position' = Signal(s)
    /\ IF Signal(s) = 0 THEN UNCHANGED <<entry, hold>>
       ELSE entry' = Value(s) /\ hold' = 0
    /\ UNCHANGED closed

Exit(s) ==
    /\ position # 0 /\ ShouldExit(s)
    /\ closed' = closed + position * (Value(s) - entry)
    /\ position' = 0 /\ hold' = 0
    /\ UNCHANGED entry

Carry(s) ==
    /\ position # 0 /\ ~ ShouldExit(s)
    /\ hold' = Held
    /\ UNCHANGED <<position, entry, closed>>

Bar(v) ==
    /\ Len(bars) < MaxBars
    /\ bars' = Append(bars, v)
    /\ ranging' = IsRanging(bars')
    /\ MarkToMarket(v)
    /\ Enter(bars') \/ Exit(bars') \/ Carry(bars')

ReversionNext == \E v \in Values : Bar(v)
ReversionSpec == ReversionInit /\ [][ReversionNext]_reversionVars

-----------------------------------------------------------------------------
(* A position that is still open ends as a trade at the last bar.           *)
AllTrades == closed + position * (Value(bars) - entry)

(* The three ways the summary states the result agree: the step-by-step sum,*)
(* the sum of the trades with the last one still open, and what was earned  *)
(* in ranging bars - no position is ever carried out of a bar that is not   *)
(* ranging, so trendPnlBps is always 0; and no trade outlives maxHoldBars.  *)
LedgerBalances == total = AllTrades /\ range = total /\ hold < MaxHoldBars
=============================================================================
