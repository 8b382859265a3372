------------------------------ MODULE Candles ------------------------------
(***************************************************************************)
(* ta_utils.py and the frames the detectors read: a chart is a sequence of *)
(* closed candles, oldest first, its prices whole numbers of some tick.    *)
(* The multiples of the ATR and the ratios of config.py are in percent, so *)
(* that comparisons with them stay among integers.                         *)
(***************************************************************************)
EXTENDS Integers, Sequences, FiniteSets, SequencesExt, FiniteSetsExt

CONSTANTS
    STRUCT_LOOKBACK,      \* the frame most detectors look at
    STRUCT_ATR_LENGTH

ASSUME CandlesAssumption ==
    {STRUCT_LOOKBACK, STRUCT_ATR_LENGTH} \subseteq Nat \ {0}

Sides == {"bullish", "bearish"}
OtherSide(s) == CASE s = "bullish" -> "bearish"
                  [] s = "bearish" -> "bullish"
                  [] OTHER -> s

\* df.tail(k)
Window(chart, k) == SubSeq(chart, Max({1, Len(chart) - k + 1}), Len(chart))

Now(chart) == chart[Len(chart)]

Size(a) == IF a < 0 THEN -a ELSE a
Body(k) == Size(k.c - k.o)
UpperWick(k) == k.h - Max({k.o, k.c})
LowerWick(k) == Min({k.o, k.c}) - k.l

\* The side a candle closed on; a close at the open counts as bearish.
Colour(k) == IF k.c > k.o THEN "bullish" ELSE "bearish"

TrueRange(chart, i) ==
    LET k == chart[i] IN
    IF i = 1 THEN k.h - k.l
    ELSE Max({k.h - k.l, Size(k.h - chart[i - 1].c), Size(k.l - chart[i - 1].c)})

\* The mean true range as a fraction, AtrSum over AtrCount.
AtrCount(chart) == Min({Len(chart), STRUCT_ATR_LENGTH})
AtrSum(chart) ==
    MapThenSumSet(LAMBDA i : TrueRange(chart, i),
                  Len(chart) - AtrCount(chart) + 1 .. Len(chart))

\* Is the distance d more than percent of the chart's ATR?
Exceeds(chart, d, percent) ==
    100 * AtrCount(chart) * d > percent * AtrSum(chart)

\* Chains of prices, each within percent of the ATR of the next.
Chained(chart, prices, percent, a, b) ==
    \A p \in prices : a <= p /\ p < b =>
        \E q \in prices : q > p /\ ~Exceeds(chart, q - p, percent)

Clusters(chart, prices, percent) ==
    {{b \in prices : Chained(chart, prices, percent, Min({a, b}), Max({a, b}))} :
        a \in prices}
=============================================================================
