---------------------------- MODULE BasisEngine ----------------------------
(***************************************************************************)
(* The evaluation of a symbol for the candidate board of the monitor       *)
(* (src/src/strategy/basisCandidateEngine.ts): from the recent samples of  *)
(* the spread, the direction worth trading, the dominant band of its net   *)
(* edge, whether that band is stable and the last move a spike, a plan of  *)
(* entry and exit in the band, and a score.                                *)
(*                                                                         *)
(* A sample is [age, aToB, bToA]: its age in minutes when it is evaluated  *)
(* and the two spreads in whole basis points.  Prices of the plan are in   *)
(* twentieths of a basis point, in which every share of the width that the *)
(* code uses (0.7, 0.35, 0.25) is a whole number, so that the rounding to  *)
(* three decimals changes nothing.  The score is the rounded sum, computed *)
(* over a common denominator.  The texts of the result are left out.       *)
(***************************************************************************)
EXTENDS Integers, FiniteSets, Sequences

CONSTANTS
  Cost,         \* feeBps + slippageBps
  Bin,          \* stableBinSizeBps
  MinBandWidth, \* stableMinBandWidthBps
  MinHits,      \* stableMinHitRatio, in hundredths
  MaxBandStd,   \* stableMaxBandStdBps
  SpikeNet,     \* spikeAbsNetBps
  SpikeDelta    \* spikeDelta1mBps

ASSUME EngineAssumption ==
  /\ Bin \in Nat \ {0}
  /\ {Cost, MinBandWidth, MinHits, MaxBandStd, SpikeNet, SpikeDelta} \subseteq Nat

Magnitude(n) == IF n < 0 THEN -n ELSE n
Most(m, n) == IF m >= n THEN m ELSE n
Least(m, n) == IF m <= n THEN m ELSE n

\* Sum of f[i] over a finite domain of integers 1..n.
Total(f) ==
  LET upTo[n \in 0..Cardinality(DOMAIN f)] ==
        IF n = 0 THEN 0 ELSE upTo[n - 1] + f[n]
  IN  upTo[Cardinality(DOMAIN f)]

---------------------------------------------------------------------------
(* Net edges *)

Net(samples) ==
  [i \in DOMAIN samples |->
     [samples[i] EXCEPT !.aToB = @ - Cost, !.bToA = @ - Cost]]

Direction(sample) ==
  IF sample.aToB > 0 /\ (sample.bToA > 0 => sample.aToB >= sample.bToA)
    THEN "binance_to_okx"
  ELSE IF sample.bToA > 0 THEN "okx_to_binance" ELSE "none"

Edge(sample, direction) ==
  CASE direction = "binance_to_okx" -> sample.aToB
    [] direction = "okx_to_binance" -> sample.bToA
    [] OTHER -> Most(sample.aToB, sample.bToA)

---------------------------------------------------------------------------
(* The dominant band: the fullest bin, widened over its occupied neighbours *)

BinOf(edge) == edge \div Bin

Occupied(edges) == {BinOf(edges[i]) : i \in DOMAIN edges}
Filled(edges, bin) == {i \in DOMAIN edges : BinOf(edges[i]) = bin}
FirstIn(edges, bin) == CHOOSE i \in Filled(edges, bin) :
                         \A j \in Filled(edges, bin) : i <= j

\* The sort is stable and the bins are listed in the order of their first sample.
FullerBin(edges, bin, other) ==
  LET count(b) == Cardinality(Filled(edges, b))
  IN  \/ count(bin) > count(other)
      \/ /\ count(bin) = count(other)
         /\ \/ Magnitude(bin) < Magnitude(other)
            \/ Magnitude(bin) = Magnitude(other) /\ FirstIn(edges, bin) <= FirstIn(edges, other)

Band(edges) ==
  LET bins == Occupied(edges)
      peak == CHOOSE b \in bins : \A other \in bins : FullerBin(edges, b, other)
      left == CHOOSE l \in bins : l <= peak /\ l..peak \subseteq bins /\ l - 1 \notin bins
      right == CHOOSE r \in bins : r >= peak /\ peak..r \subseteq bins /\ r + 1 \notin bins
  IN  [lower |-> left * Bin, upper |-> (right + 1) * Bin]

InBand(edges, band) == SelectSeq(edges, LAMBDA e : e >= band.lower /\ e < band.upper)

\* The deviation of the band's samples is at most MaxBandStd.
Tight(inBand) ==
  LET n == Len(inBand)
      square(v) == v * v
  IN  n * Total([i \in DOMAIN inBand |-> square(inBand[i])]) - square(Total(inBand))
        <= square(MaxBandStd * n)

Stable(edges, band) ==
  LET inBand == InBand(edges, band)
  IN  /\ band.upper - band.lower >= MinBandWidth
      /\ 100 * Len(inBand) >= MinHits * Len(edges)
      /\ Tight(inBand)

---------------------------------------------------------------------------
(* The move of the last minute *)

\* The last sample that is a minute old counts with its larger edge, whichever
\* direction that is in: a steady series of two different edges shows a move.
Delta(net, latest) ==
  LET old == {i \in DOMAIN net : net[i].age >= 1}
      anchor == net[CHOOSE i \in old : \A j \in old : i >= j]
      edge == IF Magnitude(anchor.aToB) >= Magnitude(anchor.bToA) THEN anchor.aToB ELSE anchor.bToA
  IN  IF old = {} THEN 0 ELSE Magnitude(latest - edge)

Spike(latest, delta) == Magnitude(latest) >= SpikeNet /\ delta >= SpikeDelta

---------------------------------------------------------------------------
(* Score and plan *)

\* Math.round of the sum, over the denominator 3 n.
Score(stable, spike, latest, hits, n, band, delta) ==
  LET third == n
      whole == 3 * n
      steady == IF stable
                  THEN 35 * whole + Least(25 * whole, 75 * hits)
                         + Least(10 * whole, (band.upper - band.lower) * third)
                  ELSE 0
      sudden == IF spike THEN (35 + Least(15, delta)) * whole ELSE 0
      sum == steady + sudden + Least(15 * whole, Magnitude(latest) * third)
  IN  Most(0, Least(100, (2 * sum + whole) \div (2 * whole)))

Plan(band) ==
  LET width == band.upper - band.lower
  IN  [entryLower |-> 20 * band.lower + 14 * width,
       entryUpper |-> 20 * band.upper,
       takeProfit |-> 20 * band.lower + 7 * width,
       stopLoss |-> 20 * band.upper + Most(160, 5 * width)]

\* What an entry now would gain at its target and lose at its stop.
Outlook(latest, plan, profitable) ==
  LET inZone == 20 * latest >= plan.entryLower /\ 20 * latest <= plan.entryUpper
      enter == profitable /\ inZone
  IN  [inZone |-> inZone,
       gain |-> IF enter THEN Most(0, 20 * latest - plan.takeProfit) ELSE 0,
       risk |-> IF enter THEN Most(0, plan.stopLoss - 20 * latest) ELSE 0]

---------------------------------------------------------------------------
(* evaluateSymbol *)

NoEdge == [direction |-> "none", net |-> 0, stable |-> FALSE, spike |-> FALSE,
           plan |-> [entryLower |-> 0, entryUpper |-> 0, takeProfit |-> 0, stopLoss |-> 0],
           outlook |-> [inZone |-> FALSE, gain |-> 0, risk |-> 0],
           reach |-> 0, profitable |-> FALSE, score |-> 0, age |-> 0]

Evaluate(samples) ==
  LET n == Len(samples)
      net == Net(samples)
      direction == Direction(net[n])
      latest == Edge(net[n], direction)
      edges == [i \in DOMAIN net |-> Edge(net[i], direction)]
      band == Band(edges)
      stable == Stable(edges, band)
      delta == Delta(net, latest)
      spike == Spike(latest, delta)
      plan == Plan(band)
      profitable == direction # "none" /\ latest > 0
  IN  IF n = 0 THEN NoEdge
      ELSE [direction |-> direction, net |-> latest, stable |-> stable, spike |-> spike,
            plan |-> plan,
            outlook |-> Outlook(latest, plan, profitable),
            reach |-> plan.entryUpper - plan.takeProfit,
            profitable |-> profitable,
            score |-> Score(stable, spike, latest, Len(InBand(edges, band)), n, band, delta),
            age |-> samples[n].age]
=============================================================================
