---------------------------- MODULE ChartReading ----------------------------
(***************************************************************************)
(* A chart that grows candle by candle, as the scans see it, and the       *)
(* setups they judge on it.  The setup timeframe is the chart: structure,  *)
(* zones, liquidity and trendlines are all read from it (decision.py:100-  *)
(* 108).  A market adds what the other timeframes and feeds say.           *)
(***************************************************************************)
EXTENDS SetupQuality

CONSTANTS
    Kinds,         \* the candles that may close, from their open
    Openings,      \* the charts a scan may begin with
    Axis,          \* the price a market is turned about
    Markets,       \* what the other frames and feeds may say
    MaxCandles     \* bound on the chart

\* Prices are whole numbers of a tick, volumes of some unit.
Candle ==
    {k \in [o : Int, h : Int, l : Int, c : Int, v : Nat] :
        k.l <= Min({k.o, k.c}) /\ Max({k.o, k.c}) <= k.h}

\* The indicators of another timeframe, and what the other feeds say.
Snapshot ==
    [close : Int, ema21 : Int, vwap : Int, rsi : Int, rsi_prev : Int,
     bb_lower : Int, bb_mid : Int, bb_upper : Int, range_pos : Int,
     volume : Nat, volume_prev : Nat, volume_avg20 : Nat]
Market ==
    [pa : [patterns : [1..6 -> Sides \cup {"none"}], breakout : Sides \cup {"none"},
           volume_ok : BOOLEAN, absorption : BOOLEAN],
     mtf : STRING, oi : Int \cup {None}, price : Int, funded : BOOLEAN,
     direction_factor : 0..100, rr : Nat \cup {None},
     setup : Snapshot \cup {None}, htf : Snapshot \cup {None}]

ASSUME ReadingAssumption ==
    /\ Kinds \subseteq [h : Int, l : Int, c : Int, v : Nat]
    /\ \A k \in Kinds : k.l <= Min({0, k.c}) /\ Max({0, k.c}) <= k.h
    /\ Openings \subseteq Seq(Candle) \ {<<>>}
    /\ Markets \subseteq Market /\ None \notin Snapshot
    /\ {Axis, MaxCandles} \subseteq Nat

VARIABLES
    chart,      \* the closed candles of the setup timeframe
    judged      \* the setup a scan judged on it, or None

readingVars == <<chart, judged>>

Init ==
    /\ chart \in Openings
    /\ judged = None

\* A candle opens where the one before it closed.
Placed(open, k) ==
    [o |-> open, h |-> open + k.h, l |-> open + k.l, c |-> open + k.c, v |-> k.v]

CandleCloses(k) ==
    /\ judged = None
    /\ Len(chart) < MaxCandles
    /\ chart' = Append(chart, Placed(Now(chart).c, k))
    /\ UNCHANGED judged

\* The direction is asked for by the structure, or by the answer of a model
\* (decision.py:262), which may be the other one.
Judge(want, m) ==
    /\ judged = None
    /\ judged' = [want |-> want, market |-> m, score |-> Score(chart, m, want)]
    /\ UNCHANGED chart

ScanEnds ==
    /\ judged # None
    /\ judged' = None
    /\ UNCHANGED chart

Next ==
    \/ \E k \in Kinds : CandleCloses(k)
    \/ \E want \in Sides, m \in Markets : Judge(want, m)
    \/ ScanEnds

Spec == Init /\ [][Next]_readingVars

-----------------------------------------------------------------------------
(* No look-ahead.                                                          *)

Offset(ch) == Len(ch) - Len(Window(ch, STRUCT_LOOKBACK))
Pivots(ch) ==
    LET w == Window(ch, STRUCT_LOOKBACK) IN
    {<<"H", i + Offset(ch)>> : i \in SwingHighs(w)}
    \cup {<<"L", i + Offset(ch)>> : i \in SwingLows(w)}

(* "The last few candles are never retro-labelled" (market_structure.py:12)*)
(* and liquidity.py:21: what a closed candle showed, no later one takes    *)
(* back or adds to.  When a candle closes, every pivot stays one as long   *)
(* as the window holds it, and only the newest candle that can be          *)
(* confirmed becomes one; the last sweep stays the last one, unless the    *)
(* new candle is one or the old one is too far back; and a sweep that was  *)
(* confirmed stays so.                                                     *)
NoRepaint ==
    [][chart' # chart =>
          /\ \A s \in Pivots(chart) :
                s[2] > Offset(chart') + STRUCT_PIVOT_LEFT => s \in Pivots(chart')
          /\ \A s \in Pivots(chart') :
                s[2] <= Len(chart) - STRUCT_PIVOT_RIGHT => s \in Pivots(chart)
          /\ \A side \in Sides :
                LET p == Sweep(chart, side)
                    q == Sweep(chart', side) IN
                /\ p + SWEEP_SEARCH_CANDLES > Len(chart') /\ p # 0
                       => q \in {p, Len(chart')}
                /\ p = 0 => q \in {0, Len(chart')}
                /\ p # 0 /\ q = p /\ Ready(chart, side) => Ready(chart', side)
      ]_readingVars

-----------------------------------------------------------------------------
(* Fairness between long and short.                                        *)

TurnedCandle(k) ==
    [o |-> 2 * Axis - k.o, h |-> 2 * Axis - k.l, l |-> 2 * Axis - k.h,
     c |-> 2 * Axis - k.c, v |-> k.v]
TurnedChart == [i \in DOMAIN chart |-> TurnedCandle(chart[i])]

TurnedStructure(s) ==
    [s EXCEPT !.trend = CASE s.trend = "uptrend" -> "downtrend"
                          [] s.trend = "downtrend" -> "uptrend"
                          [] OTHER -> s.trend,
              !.bias = OtherSide(@), !.bos = OtherSide(@), !.choch = OtherSide(@),
              !.displacement = OtherSide(@), !.retest = OtherSide(@)]

TurnedPa(pa) ==
    [pa EXCEPT !.patterns = [p \in DOMAIN pa.patterns |-> OtherSide(pa.patterns[p])],
               !.breakout = OtherSide(@)]

TurnedZone(at) ==
    [at EXCEPT !.side = CASE at.side = "support" -> "resistance"
                          [] at.side = "resistance" -> "support"
                          [] OTHER -> "none"]

TurnedSnap(s) ==
    IF s = None THEN None
    ELSE [s EXCEPT !.close = -@, !.ema21 = -@, !.vwap = -@, !.bb_mid = -@,
                   !.bb_lower = -s.bb_upper, !.bb_upper = -s.bb_lower,
                   !.rsi = 100 - @, !.rsi_prev = 100 - @, !.range_pos = 100 - @]

TurnedMarket(m) ==
    [m EXCEPT !.pa = TurnedPa(@), !.price = -@, !.setup = TurnedSnap(@),
              !.htf = TurnedSnap(@)]

\* Where the code has to prefer a side, it prefers the same one in the turned
\* market: a close beyond both last swings, a candle with a swing on either
\* end of which the trend still sees the low, both trendlines broken at once,
\* both ends of the range poked or tested, a zone centred on the close, two
\* zones equally strong.
TrendTied(w) ==
    \E i \in SwingHighs(w) \cap SwingLows(w) :
        LastSwings(Swings(w), 2 * STRUCT_TREND_SWINGS) \cap {2 * i, 2 * i + 1}
            = {2 * i + 1}
ChartTied ==
    LET w == Window(chart, STRUCT_LOOKBACK)
        z == Window(chart, SR_LOOKBACK) IN
    \/ Above(w, Swings(w)) /\ Below(w, Swings(w))
    \/ TrendTied(w)
    \/ \E y \in AllZones(z) : y.lo + y.hi = 2 * Unit(z) * Now(z).c
    \/ \E x, y \in AllZones(z) : x # y /\ x.strength = y.strength
LineTied ==
    LET w == Window(chart, TL_LOOKBACK) IN
    /\ AboveLine(w, Line(w, SwingHighs(w), FALSE), Len(w), Now(w).c, TL_BREAK_ATR)
    /\ BelowLine(w, Line(w, SwingLows(w), TRUE), Len(w), Now(w).c, TL_BREAK_ATR)
RangeTied ==
    \/ Len(chart) >= PA_BREAKOUT_LOOKBACK + 2 /\ PokedAbove(chart) /\ PokedBelow(chart)
    \/ /\ Len(chart) >= PA_BREAKOUT_LOOKBACK + Recent + 1
       /\ RetestsTop(chart) /\ RetestsBottom(chart)

\* The indicators prefer a side too: a flat RSI counts as falling, and the
\* bounds of an extreme are not as far from 50 on either side.
SnapTied(s) ==
    /\ s # None
    /\ \/ s.rsi = s.rsi_prev
       \/ ~(s.rsi <= 100 - RSI_OVERSOLD <=> s.rsi <= RSI_OVERBOUGHT)
       \/ ~(s.rsi >= 100 - RSI_OVERBOUGHT <=> s.rsi >= RSI_OVERSOLD)

\* A slope is measured against the price, which is another one when turned.
SteepTied ==
    \E ch \in {chart, TurnedChart} :
        LET w == Window(ch, TL_LOOKBACK) IN
        \/ Cardinality(SwingHighs(w)) > 1 /\ Steep(w, Line(w, SwingHighs(w), FALSE))
        \/ Cardinality(SwingLows(w)) > 1 /\ Steep(w, Line(w, SwingLows(w), TRUE))

(* Every detector and the quality of a setup read a chart for a long as    *)
(* they read the chart turned upside down for a short, but for the ties    *)
(* named above: no threshold, comparison or order of checks favours a side *)
(* (setup_quality.py, the detectors and scoring.py write both by hand).    *)
EvenHanded ==
    IF judged = None
    THEN /\ RangeTied \/ PriceAction(TurnedChart) = TurnedPa(PriceAction(chart))
         /\ ChartTied \/
               /\ Structure(TurnedChart) = TurnedStructure(Structure(chart))
               /\ AtZone(TurnedChart) = TurnedZone(AtZone(chart))
         /\ \A side \in Sides :
               Liquidity(TurnedChart)[side] = Liquidity(chart)[OtherSide(side)]
    ELSE \/ ChartTied \/ LineTied \/ SteepTied
         \/ SnapTied(judged.market.setup)
         \/ Score(TurnedChart, TurnedMarket(judged.market),
                  OtherSide(judged.want)) = judged.score

-----------------------------------------------------------------------------
(* The place of the indicators.                                            *)

(* "If the primary subtotal is below the floor, no amount of indicator     *)
(* agreement can rescue the setup" (setup_quality.py:10), and above it     *)
(* they move the quality by their bonus or their penalty at most, after    *)
(* the discounts and the clamps.                                           *)
IndicatorsBounded ==
    judged # None =>
        LET m == judged.market
            raw == RawPrimary(chart, m, judged.want)
            factor == TotalFactor(chart, m, judged.want)
            With(votes) == Graded(raw, factor, m.rr, votes) IN
        /\ With(0).primary < 100 * QUALITY_PRIMARY_FLOOR =>
              \A votes \in -6..6 : ~With(votes).passes
        /\ judged.score.quality - With(0).quality
              \in -100 * IND_CONFLICT_PENALTY_MAX..100 * IND_CONFIRM_BONUS_MAX
        /\ \A votes \in -6..5 : With(votes).quality <= With(votes + 1).quality
=============================================================================
