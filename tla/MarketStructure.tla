-------------------------- MODULE MarketStructure --------------------------
(***************************************************************************)
(* market_structure.py: confirmed swing pivots, the trend they make, and   *)
(* the break, displacement, retest and bias of the last closed candle.     *)
(***************************************************************************)
EXTENDS Candles

CONSTANTS
    STRUCT_PIVOT_LEFT,
    STRUCT_PIVOT_RIGHT,
    STRUCT_MIN_SWINGS,
    STRUCT_TREND_SWINGS,
    STRUCT_DISPLACEMENT_ATR,
    STRUCT_RANGE_ATR,
    STRUCT_RETEST_ATR

ASSUME StructureAssumption ==
    {STRUCT_PIVOT_LEFT, STRUCT_PIVOT_RIGHT, STRUCT_MIN_SWINGS,
     STRUCT_TREND_SWINGS, STRUCT_DISPLACEMENT_ATR, STRUCT_RANGE_ATR,
     STRUCT_RETEST_ATR} \subseteq Nat

-----------------------------------------------------------------------------
(* swing_pivots: positions with enough closed candles on either side.      *)

ConfirmedEarly(w) == STRUCT_PIVOT_LEFT + 1 .. Len(w)

Confirmed(w) == STRUCT_PIVOT_LEFT + 1 .. Len(w) - STRUCT_PIVOT_RIGHT

Around(w, i) ==
    ((i - STRUCT_PIVOT_LEFT .. i + STRUCT_PIVOT_RIGHT) \cap DOMAIN w) \ {i}

SwingHighs(w) == {i \in Confirmed(w) : \A j \in Around(w, i) : w[j].h < w[i].h}
SwingLows(w) == {i \in Confirmed(w) : \A j \in Around(w, i) : w[j].l > w[i].l}

-----------------------------------------------------------------------------
(* _labelled_swings: one number per swing orders them by position, and the *)
(* high of a candle before its low.                                        *)

Swings(w) == {2 * i : i \in SwingHighs(w)} \cup {2 * i + 1 : i \in SwingLows(w)}
Highs(swings) == {s \in swings : s % 2 = 0}
Lows(swings) == {s \in swings : s % 2 = 1}
Price(w, s) == IF s % 2 = 0 THEN w[s \div 2].h ELSE w[s \div 2].l
LastPrice(w, swings) == Price(w, Max(swings))
PriceBefore(w, swings) == Price(w, Max(swings \ {Max(swings)}))

LastSwings(swings, n) ==
    {s \in swings : Cardinality({t \in swings : t > s}) < n}

\* _classify_trend
Trend(w, swings) ==
    LET recent == LastSwings(swings, 2 * STRUCT_TREND_SWINGS)
        highs == Highs(recent)
        lows == Lows(recent)
        prices == {Price(w, s) : s \in recent} IN
    IF Cardinality(highs) < 2 \/ Cardinality(lows) < 2 THEN "range"
    ELSE IF AtrSum(w) > 0 /\ 100 * AtrCount(w) * (Max(prices) - Min(prices))
                                < STRUCT_RANGE_ATR * AtrSum(w)
    THEN "consolidation"
    ELSE IF /\ LastPrice(w, highs) > PriceBefore(w, highs)
            /\ LastPrice(w, lows) > PriceBefore(w, lows)
    THEN "uptrend"
    ELSE IF /\ LastPrice(w, highs) < PriceBefore(w, highs)
            /\ LastPrice(w, lows) < PriceBefore(w, lows)
    THEN "downtrend"
    ELSE "range"

-----------------------------------------------------------------------------
(* analyze.                                                                *)

Above(w, swings) ==
    Highs(swings) # {} /\ Now(w).c > LastPrice(w, Highs(swings))
Below(w, swings) ==
    Lows(swings) # {} /\ Now(w).c < LastPrice(w, Lows(swings))

\* The side the close broke out on; a high is looked at first.
Broken(w, swings) ==
    IF Above(w, swings) THEN "bullish"
    ELSE IF Below(w, swings) THEN "bearish" ELSE "none"

Against(trend) ==
    CASE trend = "uptrend" -> "bearish" [] trend = "downtrend" -> "bullish"
      [] OTHER -> "none"

NoStructure ==
    [trend |-> "range", bias |-> "neutral", bos |-> "none", choch |-> "none",
     displacement |-> "none", retest |-> "none"]

Structure(chart) ==
    LET w == Window(chart, STRUCT_LOOKBACK)
        swings == Swings(w)
        trend == Trend(w, swings)
        broken == Broken(w, swings)
        level == LastPrice(w, IF broken = "bullish" THEN Highs(swings)
                              ELSE Lows(swings))
        turns == broken # "none" /\ broken = Against(trend) IN
    IF \/ Len(chart) < STRUCT_PIVOT_LEFT + STRUCT_PIVOT_RIGHT + 2
       \/ Cardinality(swings) < STRUCT_MIN_SWINGS
    THEN NoStructure
    ELSE [trend |-> trend,
          bos |-> IF turns THEN "none" ELSE broken,
          choch |-> IF turns THEN broken ELSE "none",
          displacement |->
              IF AtrSum(w) > 0 /\ Exceeds(w, Body(Now(w)), STRUCT_DISPLACEMENT_ATR)
              THEN Colour(Now(w)) ELSE "none",
          retest |->
              IF /\ broken # "none" /\ AtrSum(w) > 0
                 /\ ~Exceeds(w, Size(Now(w).c - level), STRUCT_RETEST_ATR)
              THEN broken ELSE "none",
          bias |-> IF turns THEN broken
                   ELSE CASE trend = "uptrend" -> "bullish"
                          [] trend = "downtrend" -> "bearish"
                          [] OTHER -> "neutral"]
=============================================================================
