---------------------------- MODULE SetupQuality ----------------------------
(***************************************************************************)
(* setup_quality.py, scoring.indicator_confirmation and                    *)
(* futures_context.interpret: the evidence of a setup as a number.         *)
(*                                                                         *)
(* Points are in hundredths, so that a weight times a share in percent is  *)
(* a whole number; factors are in ten-thousandths.  Quotients are rounded  *)
(* down where the code rounds to two or four places.  The reasons that go  *)
(* into the texts are left out.                                            *)
(***************************************************************************)
EXTENDS Levels

CONSTANTS
    None,                 \* no snapshot, no risk, no ratio
    Weights,              \* QUALITY_W_*, a record with a field per layer
    QUALITY_PRIMARY_FLOOR, QUALITY_MIN,
    IND_CONFIRM_BONUS_MAX, IND_CONFLICT_PENALTY_MAX,
    Locations,            \* QUALITY_LOCATION_*: <<percent, factor>>, worst first
    QUALITY_SWEEP_EXEMPT_FACTOR,
    QUALITY_RSI_OVERSOLD, QUALITY_RSI_OVERBOUGHT, QUALITY_RSI_EXHAUSTION_FACTOR,
    QUALITY_BB_EXTREME_FACTOR, QUALITY_WEAK_VOLUME_FACTOR,
    QUALITY_DECLINING_VOLUME_FACTOR,
    QUALITY_RR_NONE_PENALTY, QUALITY_RR_MISS_PENALTY, MIN_RR,
    RSI_OVERBOUGHT, RSI_OVERSOLD,
    OI_CHANGE_MIN_PCT

ASSUME QualityAssumption ==
    /\ Weights \in [structure : Nat, sr : Nat, liquidity : Nat, price_action : Nat,
                    mtf : Nat, trendline : Nat, futures : Nat]
    /\ Locations \in Seq((0..100) \X (0..100))
    /\ None \notin Int
    /\ {QUALITY_PRIMARY_FLOOR, QUALITY_MIN, IND_CONFIRM_BONUS_MAX,
        IND_CONFLICT_PENALTY_MAX, QUALITY_RR_NONE_PENALTY,
        QUALITY_RR_MISS_PENALTY, OI_CHANGE_MIN_PCT} \subseteq Nat
    /\ {QUALITY_SWEEP_EXEMPT_FACTOR, QUALITY_RSI_EXHAUSTION_FACTOR,
        QUALITY_BB_EXTREME_FACTOR, QUALITY_WEAK_VOLUME_FACTOR,
        QUALITY_DECLINING_VOLUME_FACTOR} \subseteq 0..100
    /\ MIN_RR \in Nat \ {0}
ASSUME RsiAssumption ==
    {QUALITY_RSI_OVERSOLD, QUALITY_RSI_OVERBOUGHT, RSI_OVERSOLD, RSI_OVERBOUGHT}
        \subseteq Nat

Clamp(x, low, high) == Max({low, Min({x, high})})
When(condition, x) == IF condition THEN x ELSE 0

-----------------------------------------------------------------------------
(* The layers, in percent of their weight.                                 *)

StructureSupport(s, want) ==
    LET base == CASE s.bias = want /\ Against(s.trend) = want -> 35
                  [] s.bias = want /\ Against(s.trend) # want -> 50
                  [] s.bias = "neutral" -> 15
                  [] OTHER -> 0 IN
    Clamp(base + When(s.bos = want, 20) + When(s.choch = want, 25)
          + When(s.displacement = want, 15) + When(s.retest = want, 10), 0, 100)

SrSupport(at, want) ==
    LET good == IF want = "bullish" THEN "support" ELSE "resistance" IN
    CASE at.side = good -> 70 + When(at.major, 15)
      [] at.side \notin {good, "none"} -> 0
      [] OTHER -> 30

LiquiditySupport(l) ==
    Clamp((IF l.ready THEN 90 ELSE IF l.sweep THEN 40 ELSE 20) + When(l.pool, 10),
          0, 100)

PaSupport(pa, want) ==
    LET net == Signals(pa, want) - Signals(pa, OtherSide(want)) IN
    Min({Clamp(40 + 20 * net, 0, 100),
         IF pa.breakout = want /\ ~pa.volume_ok THEN 60 ELSE 100,
         IF pa.absorption THEN 70 ELSE 100})

\* What mtf.combine said of the three timeframes.
MtfSupport(mtf) ==
    CASE mtf = "counter_htf" -> 0
      [] mtf \in {"choch_reversal", "neutral_htf"} -> 50
      [] mtf = "aligned" -> 100
      [] OTHER -> 30

TrendlineSupport(tl, want) ==
    IF tl.broken = want THEN 80
    ELSE IF tl.retest THEN 60
    ELSE IF tl.channel THEN 50 ELSE 30

\* futures_context.interpret: open interest and price, in percent of change.
Interpret(oi, price, funded) ==
    [available |-> oi # None \/ funded,
     bias |-> IF oi = None THEN "neutral"
              ELSE IF Size(oi) < OI_CHANGE_MIN_PCT \/ oi = 0 \/ price = 0 THEN "neutral"
              ELSE IF price > 0 THEN "bullish" ELSE "bearish",
     high |-> oi # None /\ oi > 0]

FuturesSupport(f, want) ==
    CASE ~f.available \/ f.bias = "neutral" -> 50
      [] f.available /\ f.bias = want -> IF f.high THEN 80 ELSE 65
      [] OTHER -> 20

-----------------------------------------------------------------------------
(* _rr_penalty and _exhaustion_factor.                                     *)

RrPenalty(rr) ==
    IF rr = None THEN 100 * QUALITY_RR_NONE_PENALTY
    ELSE IF rr < MIN_RR
    THEN (100 * QUALITY_RR_MISS_PENALTY * (2 * MIN_RR - rr)) \div (2 * MIN_RR)
    ELSE 0

\* The room left in the 1H range, and what having none costs; a confirmed
\* sweep halves it.
LocationPenalties(snap, want, ready) ==
    LET room == IF want = "bullish" THEN 100 - snap.range_pos ELSE snap.range_pos
        tiers == {i \in DOMAIN Locations : room <= Locations[i][1]} IN
    IF tiers = {} THEN {}
    ELSE {10000 - (100 - Locations[Min(tiers)][2])
                    * (IF ready THEN QUALITY_SWEEP_EXEMPT_FACTOR ELSE 100)}

RsiExhausted(snap, want) ==
    IF want = "bullish" THEN snap.rsi >= QUALITY_RSI_OVERBOUGHT
    ELSE snap.rsi <= QUALITY_RSI_OVERSOLD

AtBand(snap, want) ==
    IF want = "bullish" THEN snap.close >= snap.bb_upper
    ELSE snap.close <= snap.bb_lower

VolumePenalties(snap) ==
    IF snap.volume_avg20 = 0 THEN {}
    ELSE IF 100 * snap.volume < PA_VOLUME_WEAK * snap.volume_avg20
         THEN {100 * QUALITY_WEAK_VOLUME_FACTOR}
    ELSE IF snap.volume < snap.volume_prev
         THEN {100 * QUALITY_DECLINING_VOLUME_FACTOR}
    ELSE {}

\* The worst penalty counts, and at most half.
ExhaustionFactor(want, snap, ready, s) ==
    LET strong == s.bos = want /\ s.displacement = want
        penalties ==
            LocationPenalties(snap, want, ready)
            \cup (IF ~strong /\ RsiExhausted(snap, want)
                  THEN {100 * QUALITY_RSI_EXHAUSTION_FACTOR} ELSE {})
            \cup (IF ~strong /\ AtBand(snap, want)
                  THEN {100 * QUALITY_BB_EXTREME_FACTOR} ELSE {})
            \cup VolumePenalties(snap) IN
    IF snap = None THEN 10000
    ELSE IF penalties = {} THEN 10000
    ELSE Max({5000, Min(penalties)})

-----------------------------------------------------------------------------
(* scoring.indicator_confirmation: six votes.                              *)

Vote(agrees, disagrees) == IF agrees THEN 1 ELSE IF disagrees THEN -1 ELSE 0

Votes(snap, want) ==
    LET long == want = "bullish"
        \* on the side of a trade that wants the close above x
        Beyond(x) == IF long THEN Vote(snap.close > x, snap.close < x)
                     ELSE Vote(snap.close < x, snap.close > x)
        rising == snap.rsi > snap.rsi_prev IN
    IF snap = None THEN 0
    ELSE Beyond(snap.ema21) + Beyond(snap.vwap)
         + Vote(rising = long, TRUE)
         + (IF long THEN Vote(snap.rsi <= RSI_OVERBOUGHT, TRUE)
                         + Vote(snap.close <= snap.bb_mid, snap.close >= snap.bb_upper)
            ELSE Vote(snap.rsi >= RSI_OVERSOLD, TRUE)
                 + Vote(snap.close >= snap.bb_mid, snap.close <= snap.bb_lower))
         + Vote(snap.volume > snap.volume_prev, FALSE)

\* The share of the votes in thousandths, rounded to the nearest.
Net(votes) == (2000 * votes + 6) \div 12

-----------------------------------------------------------------------------
(* score.  A market is a chart of the setup timeframe and what the other   *)
(* frames and feeds say: see Markets of ChartReading.                      *)

RawPrimary(chart, m, want) ==
    Weights.structure * StructureSupport(Structure(chart), want)
    + Weights.sr * SrSupport(AtZone(chart), want)
    + Weights.liquidity * LiquiditySupport(Liquidity(chart)[want])
    + Weights.price_action * PaSupport(m.pa, want)
    + Weights.mtf * MtfSupport(m.mtf)
    + Weights.trendline * TrendlineSupport(Trendlines(chart), want)
    + Weights.futures * FuturesSupport(Interpret(m.oi, m.price, m.funded), want)

TotalFactor(chart, m, want) ==
    (m.direction_factor * ExhaustionFactor(want, m.htf, Liquidity(chart)[want].ready,
                                           Structure(chart))) \div 100

\* The end of score, for the votes of the indicators.
GradedOnQuality(raw, factor, rr, votes) ==
    LET primary == (raw * factor) \div 10000
        net == Net(votes)
        indicator == IF net >= 0 THEN (net * IND_CONFIRM_BONUS_MAX * factor) \div 100000
                     ELSE (net * IND_CONFLICT_PENALTY_MAX) \div 10
        quality == Clamp(primary + indicator - RrPenalty(rr), 0, 10000) IN
    [primary |-> primary, quality |-> quality,
     passes |-> /\ quality >= 100 * QUALITY_PRIMARY_FLOOR
                /\ quality >= 100 * QUALITY_MIN]

Graded(raw, factor, rr, votes) ==
    LET primary == (raw * factor) \div 10000
        net == Net(votes)
        indicator == IF net >= 0 THEN (net * IND_CONFIRM_BONUS_MAX * factor) \div 100000
                     ELSE (net * IND_CONFLICT_PENALTY_MAX) \div 10
        quality == Clamp(primary + indicator - RrPenalty(rr), 0, 10000) IN
    [primary |-> primary, quality |-> quality,
     passes |-> /\ primary >= 100 * QUALITY_PRIMARY_FLOOR
                /\ quality >= 100 * QUALITY_MIN]

Score(chart, m, want) ==
    Graded(RawPrimary(chart, m, want), TotalFactor(chart, m, want), m.rr,
           Votes(m.setup, want))
=============================================================================
