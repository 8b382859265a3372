----------------------------- MODULE Detectors -----------------------------
(***************************************************************************)
(* The detectors that read a chart beside its structure: sweeps of         *)
(* liquidity (filter_1h.py, liquidity.py) and price action                 *)
(* (price_action.py).                                                      *)
(***************************************************************************)
EXTENDS MarketStructure

CONSTANTS
    SWEEP_WINDOW, SWEEP_SEARCH_CANDLES, SWEEP_WICK_BODY_RATIO, SWEEP_VOL_RATIO,
    LIQ_RECLAIM_CANDLES, LIQ_CONFIRM_CLOSE_ATR, LIQ_EQUAL_TOL_ATR, LIQ_MIN_EQUAL,
    PA_REJECTION_WICK_RATIO, PA_ENGULF_MIN_RATIO, PA_DISPLACEMENT_ATR,
    PA_VOLUME_STRONG, PA_VOLUME_WEAK, PA_BREAKOUT_LOOKBACK

ASSUME DetectorsAssumption ==
    /\ {SWEEP_WINDOW, SWEEP_SEARCH_CANDLES, SWEEP_WICK_BODY_RATIO, SWEEP_VOL_RATIO,
        LIQ_RECLAIM_CANDLES, LIQ_CONFIRM_CLOSE_ATR, LIQ_EQUAL_TOL_ATR, LIQ_MIN_EQUAL,
        PA_REJECTION_WICK_RATIO, PA_ENGULF_MIN_RATIO, PA_DISPLACEMENT_ATR,
        PA_VOLUME_STRONG, PA_VOLUME_WEAK, PA_BREAKOUT_LOOKBACK} \subseteq Nat
    /\ SWEEP_WINDOW # 0 /\ PA_BREAKOUT_LOOKBACK # 0

HighsOf(chart, S) == {chart[i].h : i \in S}
LowsOf(chart, S) == {chart[i].l : i \in S}
VolumeOf(chart, S) == MapThenSumSet(LAMBDA i : chart[i].v, S)

-----------------------------------------------------------------------------
(* filter_1h.detect_sweep.                                                 *)

Before(p) == p - SWEEP_WINDOW .. p - 1

Level(chart, side, p) ==
    IF side = "bullish" THEN Min(LowsOf(chart, Before(p)))
    ELSE Max(HighsOf(chart, Before(p)))

SweptTouching(chart, side, p) ==
    LET k == chart[p]
        level == Level(chart, side, p)
        wick == IF side = "bullish" THEN LowerWick(k) ELSE UpperWick(k) IN
    /\ IF side = "bullish" THEN k.l < level /\ k.c >= level
       ELSE k.h > level /\ k.c < level
    /\ 100 * wick > SWEEP_WICK_BODY_RATIO * Body(k)
    /\ VolumeOf(chart, Before(p)) > 0
    /\ 100 * SWEEP_WINDOW * k.v > SWEEP_VOL_RATIO * VolumeOf(chart, Before(p))

Swept(chart, side, p) ==
    LET k == chart[p]
        level == Level(chart, side, p)
        wick == IF side = "bullish" THEN LowerWick(k) ELSE UpperWick(k) IN
    /\ IF side = "bullish" THEN k.l < level /\ k.c > level
       ELSE k.h > level /\ k.c < level
    /\ 100 * wick > SWEEP_WICK_BODY_RATIO * Body(k)
    /\ VolumeOf(chart, Before(p)) > 0
    /\ 100 * SWEEP_WINDOW * k.v > SWEEP_VOL_RATIO * VolumeOf(chart, Before(p))

\* The position of the most recent sweep, 0 if there is none.
Sweep(chart, side) ==
    Max({0} \cup
        {p \in Max({SWEEP_WINDOW, Len(chart) - SWEEP_SEARCH_CANDLES}) + 1 .. Len(chart) :
            Swept(chart, side, p)})

-----------------------------------------------------------------------------
(* liquidity.py.                                                           *)

\* _confirm: a candle of the right colour holds the level by a buffer.
Confirms(chart, side, level, k) ==
    LET beyond == IF side = "bullish" THEN k.c - level ELSE level - k.c
        w == Window(chart, STRUCT_LOOKBACK) IN
    /\ IF side = "bullish" THEN k.c > k.o ELSE k.c < k.o
    /\ 100 * AtrCount(w) * beyond >= LIQ_CONFIRM_CLOSE_ATR * AtrSum(w)

Ready(chart, side) ==
    LET p == Sweep(chart, side) IN
    /\ p # 0
    /\ \E c \in p + 1 .. Min({Len(chart), p + LIQ_RECLAIM_CANDLES}) :
          Confirms(chart, side, Level(chart, side, p), chart[c])

\* _cluster_levels: are there equal lows or highs, a pool of stops?
Pool(chart, side) ==
    LET w == Window(chart, STRUCT_LOOKBACK)
        pivots == IF side = "bullish" THEN SwingLows(w) ELSE SwingHighs(w)
        At(i) == IF side = "bullish" THEN w[i].l ELSE w[i].h IN
    \E cluster \in Clusters(w, {At(i) : i \in pivots}, LIQ_EQUAL_TOL_ATR) :
        Cardinality({i \in pivots : At(i) \in cluster}) >= LIQ_MIN_EQUAL

\* analyze; a long takes the sell-side sweep, so each is known by its trade.
Liquidity(chart) ==
    LET thin == \/ Len(chart) < SWEEP_WINDOW + 1
                \/ AtrSum(Window(chart, STRUCT_LOOKBACK)) = 0 IN
    [side \in Sides |->
        [sweep |-> ~thin /\ Sweep(chart, side) # 0,
         ready |-> ~thin /\ Ready(chart, side),
         pool |-> ~thin /\ Pool(chart, side)]]

-----------------------------------------------------------------------------
(* price_action.py.                                                        *)

\* _volume_state, of the last candle against those before it
VolumeState(chart) ==
    LET n == Len(chart)
        prior == (IF n > PA_BREAKOUT_LOOKBACK THEN n - PA_BREAKOUT_LOOKBACK ELSE 1)
                     .. n - 1
        share == 100 * Cardinality(prior) * Now(chart).v
        total == VolumeOf(chart, prior) IN
    IF n < 2 \/ total = 0 THEN "normal"
    ELSE IF share >= PA_VOLUME_STRONG * total THEN "strong"
    ELSE IF share <= PA_VOLUME_WEAK * total THEN "weak"
    ELSE "normal"

Rejection(k) ==
    CASE /\ 100 * LowerWick(k) > PA_REJECTION_WICK_RATIO * Body(k)
         /\ LowerWick(k) > UpperWick(k) -> "bullish"
      [] /\ 100 * UpperWick(k) > PA_REJECTION_WICK_RATIO * Body(k)
         /\ UpperWick(k) > LowerWick(k) -> "bearish"
      [] OTHER -> "none"

Engulfing(j, k) ==
    IF Body(k) = 0 \/ 100 * Body(k) < PA_ENGULF_MIN_RATIO * Body(j) THEN "none"
    ELSE IF k.c > k.o /\ j.c < j.o /\ k.c >= j.o /\ k.o <= j.c THEN "bullish"
    ELSE IF k.c < k.o /\ j.c > j.o /\ k.c <= j.o /\ k.o >= j.c THEN "bearish"
    ELSE "none"

\* The positions a range is taken from, k candles before the last one ended.
Span(chart, k) ==
    Len(chart) - k - PA_BREAKOUT_LOOKBACK + 1 .. Len(chart) - k

Breakout(chart) ==
    LET k == Now(chart) IN
    IF Len(chart) < PA_BREAKOUT_LOOKBACK + 2 THEN "none"
    ELSE IF k.c > Max(HighsOf(chart, Span(chart, 1))) THEN "bullish"
    ELSE IF k.c < Min(LowsOf(chart, Span(chart, 1))) THEN "bearish"
    ELSE "none"

PokedAbove(chart) ==
    LET top == Max(HighsOf(chart, Span(chart, 1))) IN
    Now(chart).h > top /\ Now(chart).c < top
PokedBelow(chart) ==
    LET bottom == Min(LowsOf(chart, Span(chart, 1))) IN
    Now(chart).l < bottom /\ Now(chart).c > bottom

FailedBreakout(chart) ==
    IF Len(chart) < PA_BREAKOUT_LOOKBACK + 2 THEN "none"
    ELSE IF PokedAbove(chart) THEN "bearish"
    ELSE IF PokedBelow(chart) THEN "bullish"
    ELSE "none"

\* A close beyond the range before the last candles, which price now tests.
Recent == LIQ_RECLAIM_CANDLES + 1
RetestsTop(chart) ==
    LET top == Max(HighsOf(chart, Span(chart, Recent)))
        w == Window(chart, STRUCT_LOOKBACK) IN
    /\ \E i \in Len(chart) - Recent + 1 .. Len(chart) : chart[i].c > top
    /\ ~Exceeds(w, top - Now(chart).c, STRUCT_RETEST_ATR)
    /\ ~Exceeds(w, Now(chart).l - top, STRUCT_RETEST_ATR)
RetestsBottom(chart) ==
    LET bottom == Min(LowsOf(chart, Span(chart, Recent)))
        w == Window(chart, STRUCT_LOOKBACK) IN
    /\ \E i \in Len(chart) - Recent + 1 .. Len(chart) : chart[i].c < bottom
    /\ ~Exceeds(w, Now(chart).c - bottom, STRUCT_RETEST_ATR)
    /\ ~Exceeds(w, bottom - Now(chart).h, STRUCT_RETEST_ATR)

BreakoutRetest(chart) ==
    IF \/ AtrSum(Window(chart, STRUCT_LOOKBACK)) = 0
       \/ Len(chart) < PA_BREAKOUT_LOOKBACK + Recent + 1 THEN "none"
    ELSE IF RetestsTop(chart) THEN "bullish"
    ELSE IF RetestsBottom(chart) THEN "bearish"
    ELSE "none"

NoPriceAction ==
    [patterns |-> [p \in 1..6 |-> "none"], breakout |-> "none",
     volume_ok |-> FALSE, absorption |-> FALSE]

PriceAction(chart) ==
    LET k == Now(chart)
        w == Window(chart, STRUCT_LOOKBACK)
        displaced == /\ AtrSum(w) > 0
                     /\ Exceeds(w, Body(k), PA_DISPLACEMENT_ATR) IN
    IF Len(chart) < 3 THEN NoPriceAction
    ELSE [patterns |->
              <<Rejection(k), Engulfing(chart[Len(chart) - 1], k),
                IF displaced THEN Colour(k) ELSE "none", Breakout(chart),
                FailedBreakout(chart), BreakoutRetest(chart)>>,
          breakout |-> Breakout(chart),
          volume_ok |-> VolumeState(chart) = "strong",
          absorption |-> /\ VolumeState(chart) = "strong"
                         /\ Exceeds(w, k.h - k.l, 100) /\ AtrSum(w) > 0
                         /\ 2 * Body(k) < k.h - k.l]

Signals(pa, side) == Cardinality({p \in 1..6 : pa.patterns[p] = side})
=============================================================================
