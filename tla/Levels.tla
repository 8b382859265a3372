------------------------------- MODULE Levels -------------------------------
(***************************************************************************)
(* The lines drawn on a chart: zones of support and resistance             *)
(* (support_resistance.py) and trendlines (trendlines.py).  The highs and  *)
(* lows of the day and the week before are left out: no decision reads     *)
(* them.                                                                   *)
(***************************************************************************)
EXTENDS Detectors

CONSTANTS
    SR_LOOKBACK, SR_CLUSTER_ATR_MULT, SR_ZONE_PAD_ATR, SR_MIN_TOUCHES,
    SR_MAJOR_TOUCHES, SR_PROXIMITY_ATR, SR_WICK_BONUS, SR_MAX_ZONES,
    TL_LOOKBACK, TL_MIN_TOUCHES, TL_TOLERANCE_ATR, TL_MAX_SLOPE_PCT, TL_BREAK_ATR

ASSUME LevelsAssumption ==
    /\ {SR_CLUSTER_ATR_MULT, SR_ZONE_PAD_ATR, SR_MIN_TOUCHES,
        SR_MAJOR_TOUCHES, SR_PROXIMITY_ATR, SR_WICK_BONUS, SR_MAX_ZONES,
        TL_MIN_TOUCHES, TL_TOLERANCE_ATR, TL_MAX_SLOPE_PCT, TL_BREAK_ATR} \subseteq Nat
    /\ {SR_LOOKBACK, TL_LOOKBACK} \subseteq Nat \ {0}
    /\ TL_MIN_TOUCHES > 1

-----------------------------------------------------------------------------
(* support_resistance.py.  The prices of a zone are in hundredths of a     *)
(* tick over AtrCount, so that its padding is a whole number.              *)

Unit(w) == 100 * AtrCount(w)

\* _score_zone, strength in hundredths and rounded down
Scored(w, lo, hi) ==
    LET L(i) == Unit(w) * w[i].l
        H(i) == Unit(w) * w[i].h
        C(i) == Unit(w) * w[i].c
        touching == {i \in DOMAIN w : L(i) <= hi /\ H(i) >= lo}
        inside == {i \in DOMAIN w : lo <= C(i) /\ C(i) <= hi}
        rejected == {i \in DOMAIN w : \/ H(i) >= lo /\ C(i) < lo
                                      \/ L(i) <= hi /\ C(i) > hi}
        volume == VolumeOf(w, DOMAIN w)
        share == IF touching = {} \/ volume = 0 THEN 0
                 ELSE (100 * VolumeOf(w, touching) * Len(w))
                          \div (Cardinality(touching) * volume) IN
    [lo |-> lo, hi |-> hi,
     touches |-> Cardinality(touching),
     strength |-> 100 * Cardinality(touching)
                  + SR_WICK_BONUS * Cardinality(rejected)
                  + share + 25 * Cardinality(inside),
     side |-> IF lo + hi >= 2 * Unit(w) * Now(w).c THEN "resistance"
              ELSE "support"]

\* The code sorts by strength, and equally strong zones by price.
Stronger(y, z) ==
    \/ y.strength > z.strength
    \/ y.strength = z.strength /\ y.lo < z.lo

AllZones(w) ==
    LET prices == HighsOf(w, SwingHighs(w)) \cup LowsOf(w, SwingLows(w))
        pad == SR_ZONE_PAD_ATR * AtrSum(w)
        found == {Scored(w, Unit(w) * Min(c) - pad, Unit(w) * Max(c) + pad) :
                     c \in Clusters(w, prices, SR_CLUSTER_ATR_MULT)} IN
    {z \in found : z.touches >= SR_MIN_TOUCHES}

\* The strongest few of either side.
Zones(w) ==
    {z \in AllZones(w) :
        Cardinality({y \in AllZones(w) : y.side = z.side /\ Stronger(y, z)})
            < SR_MAX_ZONES}

NoZone == [side |-> "none", major |-> FALSE]

\* The zones within reach of the last close.
ZonesHere(w) ==
    LET reach == SR_PROXIMITY_ATR * AtrSum(w)
        price == Unit(w) * Now(w).c IN
    {z \in Zones(w) : z.lo - reach <= price /\ price <= z.hi + reach}

\* at_zone
AtZone(chart) ==
    LET w == Window(chart, SR_LOOKBACK)
        near == ZonesHere(w) IN
    IF Len(chart) < SR_MIN_TOUCHES + 2 \/ AtrSum(w) = 0 \/ near = {} THEN NoZone
    ELSE LET z == CHOOSE z \in near : \A y \in near : ~Stronger(y, z) IN
         [side |-> z.side, major |-> z.touches >= SR_MAJOR_TOUCHES]

-----------------------------------------------------------------------------
(* trendlines.py.  A line is what numpy.polyfit of degree 1 computes, the  *)
(* least squares, as integers over a common denominator: its slope is      *)
(* rise / run, and its height at x is Height(line, x) / (n * run).         *)

At(w, i, low) == IF low THEN w[i].l ELSE w[i].h

Line(w, S, low) ==
    LET n == Cardinality(S)
        sx == SumSet(S)
        sy == MapThenSumSet(LAMBDA i : At(w, i, low), S)
        sxx == MapThenSumSet(LAMBDA i : i * i, S)
        sxy == MapThenSumSet(LAMBDA i : i * At(w, i, low), S) IN
    [n |-> n, sx |-> sx, sy |-> sy, run |-> n * sxx - sx * sx,
     rise |-> n * sxy - sx * sy]

Height(line, x) == line.sy * line.run + line.rise * (line.n * x - line.sx)

\* Is y further than percent of the ATR above the line at x?
AboveLine(w, line, x, y, percent) ==
    Exceeds(w, line.n * line.run * y - Height(line, x), percent * line.n * line.run)
BelowLine(w, line, x, y, percent) ==
    Exceeds(w, Height(line, x) - line.n * line.run * y, percent * line.n * line.run)
OnLine(w, line, x, y) ==
    /\ ~AboveLine(w, line, x, y, TL_TOLERANCE_ATR)
    /\ ~BelowLine(w, line, x, y, TL_TOLERANCE_ATR)

Steep(w, line) ==
    Now(w).c > 0 /\ 100 * Size(line.rise) > TL_MAX_SLOPE_PCT * Now(w).c * line.run

\* _fit_line: is there a line through these swings?
Fits(w, S, low) ==
    /\ Cardinality(S) >= TL_MIN_TOUCHES
    /\ ~Steep(w, Line(w, S, low))
    /\ Cardinality({i \in S : OnLine(w, Line(w, S, low), i, At(w, i, low))})
          >= TL_MIN_TOUCHES

\* Both lines rise or neither does, and their slopes differ by at most half
\* the steeper one.
Parallel(a, b) ==
    LET s == a.rise * b.run
        t == b.rise * a.run IN
    /\ (s >= 0) <=> (t >= 0)
    /\ 2 * Size(s - t) <= Max({Size(s), Size(t)})

NoLines == [broken |-> "none", retest |-> FALSE, channel |-> FALSE]

Trendlines(chart) ==
    LET w == Window(chart, TL_LOOKBACK)
        price == Now(w).c
        support == Line(w, SwingLows(w), TRUE)
        resistance == Line(w, SwingHighs(w), FALSE)
        drawn == [low \in BOOLEAN |->
                     Fits(w, IF low THEN SwingLows(w) ELSE SwingHighs(w), low)]
        up == drawn[FALSE] /\ AboveLine(w, resistance, Len(w), price, TL_BREAK_ATR)
        down == drawn[TRUE] /\ BelowLine(w, support, Len(w), price, TL_BREAK_ATR) IN
    IF \/ Len(chart) < STRUCT_PIVOT_LEFT + STRUCT_PIVOT_RIGHT + 2
       \/ AtrSum(w) = 0
    THEN NoLines
    ELSE [broken |-> IF up THEN "bullish" ELSE IF down THEN "bearish" ELSE "none",
          retest |-> \/ drawn[TRUE] /\ OnLine(w, support, Len(w), price)
                     \/ drawn[FALSE] /\ OnLine(w, resistance, Len(w), price),
          channel |-> drawn[TRUE] /\ drawn[FALSE] /\ Parallel(support, resistance)]
=============================================================================
