---------------------------- MODULE ReadingProofs ----------------------------
(***************************************************************************)
(* Proofs about ChartReading, for any candles, charts, markets and         *)
(* thresholds: what the indicators can do to the quality of a setup,       *)
(* that no detector takes back what it said of a closed candle, and that   *)
(* no direction is favoured but where the code breaks a tie.               *)
(***************************************************************************)
EXTENDS ChartReading, FiniteSetTheorems, SequenceTheorems, WellFoundedInduction, TLAPS

-----------------------------------------------------------------------------
(* Least and greatest elements.                                            *)

(* A set of natural numbers that is not empty has a least one. *)
LEMMA LeastOf ==
    ASSUME NEW S \in SUBSET Nat, S # {}
    PROVE  Min(S) \in S /\ \A x \in S : Min(S) <= x
<1>1. PICK x \in S : \A y \in S : ~ (<<y, x>> \in OpToRel(<, Nat))
  BY NatLessThanWellFounded, WFMin
<1>2. \A y \in S : x <= y
  <2> TAKE y \in S
  <2>1. ~ (y < x)
    BY <1>1 DEF OpToRel
  <2> QED
    BY <2>1
<1> QED
  BY <1>2 DEF Min

(* The greater and the lesser of two integers. *)
LEMMA MaxOfTwo ==
    ASSUME NEW a \in Int, NEW b \in Int
    PROVE  /\ Max({a, b}) = IF a >= b THEN a ELSE b
           /\ Min({a, b}) = IF a <= b THEN a ELSE b
  BY DEF Max, Min

(* A value is clamped into its bounds. *)
LEMMA Clamped ==
    ASSUME NEW x \in Int, NEW low \in Int, NEW high \in Int, low <= high
    PROVE  Clamp(x, low, high) = IF x < low THEN low ELSE IF x > high THEN high ELSE x
<1>1. Min({high, x}) = IF high <= x THEN high ELSE x
  BY MaxOfTwo
<1>2. Max({low, Min({high, x})}) = IF low >= Min({high, x}) THEN low ELSE Min({high, x})
  BY <1>1, MaxOfTwo
<1> QED
  BY <1>1, <1>2 DEF Clamp

-----------------------------------------------------------------------------
(* The numbers a score is made of.                                         *)

(* The points of a setup are a whole number. *)
LEMMA RawPoints ==
    ASSUME NEW ch, NEW m, NEW want
    PROVE  RawPrimary(ch, m, want) \in Int
<1> DEFINE s == Structure(ch)
           l == Liquidity(ch)[want]
           at == AtZone(ch)
           tl == Trendlines(ch)
           f == Interpret(m.oi, m.price, m.funded)
<1>1. StructureSupport(s, want) \in Int
  <2> HIDE DEF s
  <2> DEFINE base == CASE s.bias = want /\ Against(s.trend) = want -> 35
                       [] s.bias = want /\ Against(s.trend) # want -> 50
                       [] s.bias = "neutral" -> 15
                       [] OTHER -> 0
             sum == base + When(s.bos = want, 20) + When(s.choch = want, 25)
                    + When(s.displacement = want, 15) + When(s.retest = want, 10)
  <2>1. base \in Int
    OBVIOUS
  <2>2. /\ When(s.bos = want, 20) \in Int /\ When(s.choch = want, 25) \in Int
        /\ When(s.displacement = want, 15) \in Int /\ When(s.retest = want, 10) \in Int
    BY DEF When
  <2> HIDE DEF base
  <2>3. sum \in Int
    BY <2>1, <2>2
  <2>4. StructureSupport(s, want) = Clamp(sum, 0, 100)
    BY DEF StructureSupport, base
  <2> HIDE DEF sum
  <2> QED
    BY <2>3, <2>4, Clamped
<1>2. SrSupport(at, want) \in Int
  <2> HIDE DEF at
  <2> QED
    BY DEF SrSupport, When
<1>3. LiquiditySupport(l) \in Int
  <2> HIDE DEF l
  <2> DEFINE sum == (IF l.ready THEN 90 ELSE IF l.sweep THEN 40 ELSE 20) + When(l.pool, 10)
  <2>1. sum \in Int
    BY DEF When
  <2>2. LiquiditySupport(l) = Clamp(sum, 0, 100)
    BY DEF LiquiditySupport
  <2> HIDE DEF sum
  <2> QED
    BY <2>1, <2>2, Clamped
<1>4. PaSupport(m.pa, want) \in Int
  <2> DEFINE pa == m.pa
  <2> HIDE DEF pa
  <2>1. \A side : Signals(pa, side) \in Nat
    <3> TAKE side
    <3>1. IsFiniteSet(1..6)
      <4>1. \A n \in Nat : IsFiniteSet(1..n)
        BY FS_Interval
      <4> QED
        BY <4>1
    <3>2. IsFiniteSet({p \in 1..6 : pa.patterns[p] = side})
      BY <3>1, FS_Subset
    <3> QED
      BY <3>2, FS_CardinalityType DEF Signals
  <2> DEFINE net == Signals(pa, want) - Signals(pa, OtherSide(want))
             clamped == Clamp(40 + 20 * net, 0, 100)
             second == IF pa.breakout = want /\ ~pa.volume_ok THEN 60 ELSE 100
             third == IF pa.absorption THEN 70 ELSE 100
  <2>2. net \in Int
    BY <2>1
  <2> HIDE DEF net
  <2>3. clamped \in Nat
    <3>1. 40 + 20 * net \in Int
      BY <2>2
    <3> QED
      BY <3>1, Clamped
  <2>4. second \in Nat /\ third \in Nat
    OBVIOUS
  <2>5. PaSupport(pa, want) = Min({clamped, second, third})
    BY DEF PaSupport, net
  <2> HIDE DEF clamped, second, third
  <2>6. Min({clamped, second, third}) \in {clamped, second, third}
    BY <2>3, <2>4, LeastOf
  <2> QED
    BY <2>3, <2>4, <2>5, <2>6 DEF pa
<1>5. MtfSupport(m.mtf) \in Int
  BY DEF MtfSupport
<1>6. TrendlineSupport(tl, want) \in Int
  <2> HIDE DEF tl
  <2> QED
    BY DEF TrendlineSupport
<1>7. FuturesSupport(f, want) \in Int
  <2> HIDE DEF f
  <2> QED
    BY DEF FuturesSupport
<1>8. /\ {Weights.structure, Weights.sr, Weights.liquidity, Weights.price_action} \subseteq Nat
      /\ {Weights.mtf, Weights.trendline, Weights.futures} \subseteq Nat
  BY QualityAssumption
<1>9. RawPrimary(ch, m, want) =
        Weights.structure * StructureSupport(s, want)
        + Weights.sr * SrSupport(at, want)
        + Weights.liquidity * LiquiditySupport(l)
        + Weights.price_action * PaSupport(m.pa, want)
        + Weights.mtf * MtfSupport(m.mtf)
        + Weights.trendline * TrendlineSupport(tl, want)
        + Weights.futures * FuturesSupport(f, want)
  BY DEF RawPrimary
<1> HIDE DEF s, l, at, tl, f
<1> QED
  BY <1>1, <1>2, <1>3, <1>4, <1>5, <1>6, <1>7, <1>8, <1>9

\* A factor in ten-thousandths.
Share(x) == x \in Nat /\ x <= 10000

(* A factor in percent is one in ten-thousandths. *)
LEMMA Percents ==
    ASSUME NEW x \in 0..100
    PROVE  Share(100 * x)
  BY DEF Share

(* A discount taken from the whole, times a percentage of itself. *)
LEMMA Discounts ==
    ASSUME NEW off \in 0..100, NEW part \in 0..100, NEW left, left = 10000 - off * part
    PROVE  Share(left)
<1>1. off * part \in Nat
  BY SMT
<1>2. off * (100 - part) >= 0 /\ off * (100 - part) = off * 100 - off * part
  BY SMT
<1> QED
  BY <1>1, <1>2, SMT DEF Share

(* The worst discount of the 1H frame leaves between half and all. *)
LEMMA ExhaustionBounds ==
    ASSUME NEW want, NEW snap, NEW ready, NEW s
    PROVE  Share(ExhaustionFactor(want, snap, ready, s))
<1> DEFINE strong == s.bos = want /\ s.displacement = want
           room == IF want = "bullish" THEN 100 - snap.range_pos ELSE snap.range_pos
           tiers == {i \in DOMAIN Locations : room <= Locations[i][1]}
           place == LocationPenalties(snap, want, ready)
           rsi == IF ~strong /\ RsiExhausted(snap, want)
                  THEN {100 * QUALITY_RSI_EXHAUSTION_FACTOR} ELSE {}
           band == IF ~strong /\ AtBand(snap, want)
                   THEN {100 * QUALITY_BB_EXTREME_FACTOR} ELSE {}
           volume == VolumePenalties(snap)
           penalties == place \cup rsi \cup band \cup volume
<1>1. \A x \in place : Share(x)
  <2>1. CASE tiers = {}
    BY <2>1 DEF LocationPenalties
  <2>2. CASE tiers # {}
    <3>1. tiers \subseteq Nat
      BY QualityAssumption
    <3> DEFINE i == Min(tiers)
    <3>2. i \in tiers
      BY <3>1, <2>2, LeastOf
    <3>3. Locations[i] \in (0..100) \X (0..100)
      BY <3>2, QualityAssumption
    <3> DEFINE off == 100 - Locations[i][2]
               part == IF ready THEN QUALITY_SWEEP_EXEMPT_FACTOR ELSE 100
    <3>4. off \in 0..100
      BY <3>3
    <3>5. part \in 0..100
      BY QualityAssumption
    <3>6. place = {10000 - off * part}
      BY <2>2 DEF LocationPenalties
    <3> DEFINE left == 10000 - off * part
    <3> HIDE DEF off, part, place
    <3>7. left = 10000 - off * part /\ place = {left}
      BY <3>6
    <3> HIDE DEF left
    <3>8. Share(left)
      BY <3>4, <3>5, <3>7, Discounts
    <3> QED
      BY <3>7, <3>8
  <2> QED
    BY <2>1, <2>2
<1>2. /\ Share(100 * QUALITY_RSI_EXHAUSTION_FACTOR)
      /\ Share(100 * QUALITY_BB_EXTREME_FACTOR)
      /\ Share(100 * QUALITY_WEAK_VOLUME_FACTOR)
      /\ Share(100 * QUALITY_DECLINING_VOLUME_FACTOR)
  BY QualityAssumption, Percents
<1>3. \A x \in rsi : Share(x)
  BY <1>2
<1>4. \A x \in band : Share(x)
  BY <1>2
<1>5. \A x \in volume : Share(x)
  BY <1>2 DEF VolumePenalties
<1>6. ExhaustionFactor(want, snap, ready, s) =
        IF snap = None THEN 10000
        ELSE IF penalties = {} THEN 10000
        ELSE Max({5000, Min(penalties)})
  BY DEF ExhaustionFactor
<1> HIDE DEF place, rsi, band, volume
<1>7. \A x \in penalties : Share(x)
  BY <1>1, <1>3, <1>4, <1>5
<1> HIDE DEF penalties
<1>8. ASSUME penalties # {} PROVE Share(Max({5000, Min(penalties)}))
  <2>1. penalties \in SUBSET Nat
    BY <1>7 DEF Share
  <2>2. Min(penalties) \in penalties
    BY <2>1, <1>8, LeastOf
  <2>3. Share(Min(penalties))
    BY <1>7, <2>2
  <2> HIDE DEF penalties
  <2> QED
    BY <2>3, MaxOfTwo, SMT DEF Share
<1>9. Share(10000)
  BY SMT DEF Share
<1> QED
  BY <1>6, <1>8, <1>9

(* The discounts together leave nothing less and nothing more. *)
LEMMA FactorBounds ==
    ASSUME NEW ch, NEW m \in Markets, NEW want
    PROVE  Share(TotalFactor(ch, m, want))
<1> DEFINE ready == Liquidity(ch)[want].ready
           e == ExhaustionFactor(want, m.htf, ready, Structure(ch))
           d == m.direction_factor
<1>1. Share(e)
  <2> HIDE DEF ready
  <2> QED
    BY ExhaustionBounds
<1>2. d \in 0..100
  <2>1. m \in Market
    BY ReadingAssumption
  <2> QED
    BY <2>1 DEF Market
<1>3. TotalFactor(ch, m, want) = (d * e) \div 100
  BY DEF TotalFactor
<1> HIDE DEF e, d
<1>4. d * e \in Nat
  BY <1>1, <1>2, SMT DEF Share
<1>5. (100 - d) * e >= 0 /\ (100 - d) * e = 100 * e - d * e
  BY <1>1, <1>2, SMT DEF Share
<1>6. 100 * e \in Nat /\ 100 * e <= 1000000
  BY <1>1, SMT DEF Share
<1>7. d * e <= 1000000
  BY <1>4, <1>5, <1>6, SMT
<1> DEFINE p == d * e
<1> HIDE DEF p
<1>8. p \in Nat /\ p <= 1000000
  BY <1>4, <1>7 , SMT DEF p
<1>9. (p \div 100) \in Nat /\ (p \div 100) <= 10000
  BY <1>8, SMT
<1> QED
  BY <1>3, <1>9, SMT DEF p, Share

-----------------------------------------------------------------------------
(* The place of the indicators.                                            *)

\* What the votes of the indicators add to a setup.
Indicator(factor, votes) ==
    IF Net(votes) >= 0 THEN (Net(votes) * IND_CONFIRM_BONUS_MAX * factor) \div 100000
    ELSE (Net(votes) * IND_CONFLICT_PENALTY_MAX) \div 10

(* Six votes for a setup make the whole, six against it the whole again,   *)
(* none nothing, and one more never less.                                  *)
LEMMA NetBounds ==
    ASSUME NEW votes \in -6..6
    PROVE  /\ Net(votes) \in Int
           /\ -1000 <= Net(votes) /\ Net(votes) <= 1000
           /\ Net(0) = 0
           /\ votes < 6 => Net(votes) <= Net(votes + 1)
  BY SMT DEF Net

(* The votes of a snapshot are six at most, either way. *)
LEMMA VotesBounds ==
    ASSUME NEW snap, NEW want
    PROVE  Votes(snap, want) \in -6..6
<1> DEFINE long == want = "bullish"
           a == IF long THEN Vote(snap.close > snap.ema21, snap.close < snap.ema21)
                ELSE Vote(snap.close < snap.ema21, snap.close > snap.ema21)
           b == IF long THEN Vote(snap.close > snap.vwap, snap.close < snap.vwap)
                ELSE Vote(snap.close < snap.vwap, snap.close > snap.vwap)
           c == Vote((snap.rsi > snap.rsi_prev) = long, TRUE)
           d == IF long THEN Vote(snap.rsi <= RSI_OVERBOUGHT, TRUE)
                ELSE Vote(snap.rsi >= RSI_OVERSOLD, TRUE)
           e == IF long THEN Vote(snap.close <= snap.bb_mid, snap.close >= snap.bb_upper)
                ELSE Vote(snap.close >= snap.bb_mid, snap.close <= snap.bb_lower)
           f == Vote(snap.volume > snap.volume_prev, FALSE)
<1>1. a \in -1..1 /\ b \in -1..1
  BY DEF Vote
<1>2. c \in -1..1 /\ d \in -1..1
  BY DEF Vote
<1>3. e \in -1..1 /\ f \in -1..1
  BY DEF Vote
<1>4. CASE long
  <2>1. snap # None => Votes(snap, want) = a + b + c + (d + e) + f
    BY <1>4 DEF Votes
  <2>2. snap = None => Votes(snap, want) = 0
    BY DEF Votes
  <2> HIDE DEF a, b, c, d, e, f
  <2> QED
    BY <1>1, <1>2, <1>3, <2>1, <2>2
<1>5. CASE ~ long
  <2>1. snap # None => Votes(snap, want) = a + b + c + (d + e) + f
    BY <1>5 DEF Votes
  <2>2. snap = None => Votes(snap, want) = 0
    BY DEF Votes
  <2> HIDE DEF a, b, c, d, e, f
  <2> QED
    BY <1>1, <1>2, <1>3, <2>1, <2>2
<1> QED
  BY <1>4, <1>5

(* The indicators add their bonus at most and take their penalty at most,  *)
(* and one more vote never takes anything.                                 *)
LEMMA IndicatorBounds ==
    ASSUME NEW factor, Share(factor), NEW votes \in -6..6
    PROVE  /\ Indicator(factor, votes) \in Int
           /\ -100 * IND_CONFLICT_PENALTY_MAX <= Indicator(factor, votes)
           /\ Indicator(factor, votes) <= 100 * IND_CONFIRM_BONUS_MAX
           /\ Indicator(factor, 0) = 0
           /\ votes < 6 => Indicator(factor, votes) <= Indicator(factor, votes + 1)
<1> DEFINE B == IND_CONFIRM_BONUS_MAX
           P == IND_CONFLICT_PENALTY_MAX
           w == B * factor
<1>1. B \in Nat /\ P \in Nat
  BY QualityAssumption
<1> HIDE DEF B, P
<1>2. w \in Nat
  BY <1>1, SMT DEF Share
<1>3. w <= B * 10000
  <2>1. B * (10000 - factor) >= 0 /\ B * (10000 - factor) = B * 10000 - B * factor
    BY <1>1, SMT DEF Share
  <2> QED
    BY <1>1, <1>2, <2>1, SMT
\* What n thousandths of the votes add.
<1> DEFINE Up(n) == (n * w) \div 100000
           Down(n) == (n * P) \div 10
<1>4. \A v \in -6..6 : Indicator(factor, v) = IF Net(v) >= 0 THEN Up(Net(v)) ELSE Down(Net(v))
  <2> TAKE v \in -6..6
  <2>1. Net(v) \in Int
    BY NetBounds
  <2>2. Net(v) * B * factor = Net(v) * w
    BY <1>1, <2>1, SMT DEF Share
  <2> QED
    BY <2>2 DEF Indicator, B, P
<1> HIDE DEF w
<1>5. \A n \in Nat : n <= 1000 => n * w \in Nat /\ n * w <= 1000 * w
  <2> SUFFICES ASSUME NEW n \in Nat, n <= 1000
               PROVE  n * w \in Nat /\ n * w <= 1000 * w
    OBVIOUS
  <2>1. n * w \in Nat /\ (1000 - n) * w >= 0 /\ (1000 - n) * w = 1000 * w - n * w
    BY <1>2, SMT
  <2> QED
    BY <1>2, <2>1, SMT
<1>6. \A n \in Nat : n <= 1000 => Up(n) \in Nat /\ Up(n) <= 100 * B
  <2> SUFFICES ASSUME NEW n \in Nat, n <= 1000
               PROVE  Up(n) \in Nat /\ Up(n) <= 100 * B
    OBVIOUS
  <2> DEFINE x == n * w
  <2>1. x \in Nat /\ x <= 10000000 * B
    BY <1>1, <1>2, <1>3, <1>5, SMT
  <2> HIDE DEF x
  <2>2. (x \div 100000) \in Nat /\ (x \div 100000) <= 100 * B
    BY <1>1, <2>1, SMT
  <2> QED
    BY <2>2 DEF x
<1>7. \A n \in Int : -1000 <= n /\ n < 0 =>
        Down(n) \in Int /\ Down(n) <= 0 /\ -100 * P <= Down(n)
  <2> SUFFICES ASSUME NEW n \in Int, -1000 <= n, n < 0
               PROVE  Down(n) \in Int /\ Down(n) <= 0 /\ -100 * P <= Down(n)
    OBVIOUS
  <2> DEFINE x == n * P
  <2>1. x \in Int /\ x <= 0 /\ (n + 1000) * P >= 0 /\ (n + 1000) * P = x + 1000 * P
    BY <1>1, SMT
  <2> HIDE DEF x
  <2>2. (x \div 10) \in Int /\ (x \div 10) <= 0 /\ -100 * P <= (x \div 10)
    BY <1>1, <2>1, SMT
  <2> QED
    BY <2>2 DEF x
<1>8. \A n, k \in Nat : n <= k /\ k <= 1000 => Up(n) <= Up(k)
  <2> SUFFICES ASSUME NEW n \in Nat, NEW k \in Nat, n <= k, k <= 1000
               PROVE  Up(n) <= Up(k)
    OBVIOUS
  <2> DEFINE x == n * w
             y == k * w
  <2>1. x \in Nat /\ y \in Nat
    BY <1>5
  <2>2. (k - n) * w >= 0 /\ (k - n) * w = y - x
    BY <1>2, SMT
  <2>3. (k - n) * w \in Int
    BY <1>2, SMT
  <2>4. x <= y
    BY <2>1, <2>2, <2>3, SMT
  <2> HIDE DEF x, y
  <2>5. (x \div 100000) <= (y \div 100000)
    BY <2>1, <2>4, SMT
  <2> QED
    BY <2>5 DEF x, y
<1>9. \A n, k \in Int : n <= k => Down(n) <= Down(k)
  <2> SUFFICES ASSUME NEW n \in Int, NEW k \in Int, n <= k
               PROVE  Down(n) <= Down(k)
    OBVIOUS
  <2> DEFINE x == n * P
             y == k * P
  <2>1. x \in Int /\ y \in Int
    BY <1>1, SMT
  <2>2. (k - n) * P >= 0 /\ (k - n) * P = y - x
    BY <1>1, SMT
  <2>3. x <= y
    BY <2>1, <2>2, SMT
  <2> HIDE DEF x, y
  <2>4. (x \div 10) <= (y \div 10)
    BY <2>1, <2>3, SMT
  <2> QED
    BY <2>4 DEF x, y
<1>10. Up(0) = 0
  <2>1. 0 * w = 0
    BY <1>2, SMT
  <2> QED
    BY <2>1, SMT
<1> HIDE DEF Up, Down
<1> DEFINE n == Net(votes)
           k == Net(votes + 1)
<1>11. n \in Int /\ -1000 <= n /\ n <= 1000
  BY NetBounds
<1>12. ASSUME votes < 6
       PROVE  /\ votes + 1 \in -6..6
              /\ k \in Int /\ n <= k /\ -1000 <= k /\ k <= 1000
  <2>1. votes + 1 \in -6..6
    BY <1>12, SMT
  <2>2. k \in Int /\ -1000 <= k /\ k <= 1000
    BY <2>1, NetBounds
  <2>3. n <= k
    BY <1>12, NetBounds
  <2> QED
    BY <2>1, <2>2, <2>3
<1>13. Indicator(factor, votes) = IF n >= 0 THEN Up(n) ELSE Down(n)
  BY <1>4
<1>14. votes < 6 => Indicator(factor, votes + 1) = IF k >= 0 THEN Up(k) ELSE Down(k)
  BY <1>4, <1>12
<1>15. Indicator(factor, 0) = 0
  <2>1. Net(0) = 0
    BY NetBounds
  <2> QED
    BY <1>4, <1>10, <2>1
<1> HIDE DEF n, k
<1>16. Indicator(factor, votes) \in Int /\ -100 * P <= Indicator(factor, votes)
       /\ Indicator(factor, votes) <= 100 * B
  <2>1. CASE n >= 0
    <3>1. n \in Nat
      BY <1>11, <2>1
    <3>2. Up(n) \in Nat /\ Up(n) <= 100 * B
      BY <1>6, <1>11, <3>1
    <3> QED
      BY <1>1, <1>13, <2>1, <3>2
  <2>2. CASE ~ (n >= 0)
    <3>1. n < 0
      BY <1>11, <2>2
    <3>2. Down(n) \in Int /\ Down(n) <= 0 /\ -100 * P <= Down(n)
      BY <1>7, <1>11, <3>1
    <3> QED
      BY <1>1, <1>13, <2>2, <3>2
  <2> QED
    BY <2>1, <2>2
<1>17. ASSUME votes < 6 PROVE Indicator(factor, votes) <= Indicator(factor, votes + 1)
  <2>1. CASE n >= 0
    <3>1. k >= 0 /\ n \in Nat /\ k \in Nat
      BY <1>11, <1>12, <1>17, <2>1
    <3>2. Up(n) <= Up(k)
      BY <1>8, <1>12, <1>17, <3>1
    <3> QED
      BY <1>13, <1>14, <1>17, <2>1, <3>1, <3>2
  <2>2. CASE ~ (n >= 0) /\ k >= 0
    <3>1. n < 0 /\ k \in Nat
      BY <1>11, <1>12, <1>17, <2>2
    <3>2. Down(n) \in Int /\ Down(n) <= 0
      BY <1>7, <1>11, <3>1
    <3>3. Up(k) \in Nat
      BY <1>6, <1>12, <1>17, <3>1
    <3>4. Down(n) <= Up(k)
      BY <3>2, <3>3
    <3> QED
      BY <1>13, <1>14, <1>17, <2>2, <3>4
  <2>3. CASE ~ (n >= 0) /\ ~ (k >= 0)
    <3>1. Down(n) <= Down(k)
      BY <1>9, <1>11, <1>12, <1>17
    <3> QED
      BY <1>13, <1>14, <1>17, <2>3, <3>1
  <2> QED
    BY <1>11, <1>12, <1>17, <2>1, <2>2, <2>3
<1> QED
  BY <1>15, <1>16, <1>17 DEF B, P

\* The quality of a setup, out of what it is made of.
Graded0(raw, factor, rr, votes) ==
    Clamp((raw * factor) \div 10000 + Indicator(factor, votes) - RrPenalty(rr), 0, 10000)

LEMMA GradedParts ==
    ASSUME NEW raw, NEW factor, NEW rr, NEW votes
    PROVE  /\ Graded(raw, factor, rr, votes).primary = (raw * factor) \div 10000
           /\ Graded(raw, factor, rr, votes).quality = Graded0(raw, factor, rr, votes)
           /\ Graded(raw, factor, rr, votes).passes =>
                  Graded(raw, factor, rr, votes).primary >= 100 * QUALITY_PRIMARY_FLOOR
  BY DEF Graded, Graded0, Indicator

(* What an unreachable target costs is a whole number. *)
LEMMA RrPoints ==
    ASSUME NEW rr \in Nat \cup {None}
    PROVE  RrPenalty(rr) \in Int
<1>1. /\ MIN_RR \in Nat /\ MIN_RR > 0
      /\ QUALITY_RR_NONE_PENALTY \in Nat /\ QUALITY_RR_MISS_PENALTY \in Nat
  BY QualityAssumption
<1>2. CASE rr = None
  BY <1>1, <1>2 DEF RrPenalty
<1>3. CASE rr # None
  <2>1. rr \in Nat
    BY <1>3
  <2> DEFINE x == 100 * QUALITY_RR_MISS_PENALTY * (2 * MIN_RR - rr)
             y == 2 * MIN_RR
  <2>2. x \in Int /\ y \in Nat /\ y > 0
    BY <1>1, <2>1, SMT
  <2>3. RrPenalty(rr) = IF rr < MIN_RR THEN x \div y ELSE 0
    BY <1>3 DEF RrPenalty
  <2> HIDE DEF x, y
  <2>4. x \div y \in Int
    BY <2>2, SMT
  <2> QED
    BY <2>3, <2>4
<1> QED
  BY <1>2, <1>3

(* The judgement of a setup was made on the chart as it is. *)
JudgedInv ==
    judged # None =>
        /\ judged.market \in Markets /\ judged.want \in Sides
        /\ judged.score = Score(chart, judged.market, judged.want)

LEMMA JudgedHolds == Spec => []JudgedInv
<1>1. Init => JudgedInv
  BY DEF Init, JudgedInv
<1>2. JudgedInv /\ [Next]_readingVars => JudgedInv'
  <2> SUFFICES ASSUME JudgedInv, [Next]_readingVars PROVE JudgedInv'
    OBVIOUS
  <2>1. ASSUME NEW k \in Kinds, CandleCloses(k) PROVE JudgedInv'
    BY <2>1 DEF CandleCloses, JudgedInv
  <2>2. ASSUME NEW want \in Sides, NEW m \in Markets, Judge(want, m) PROVE JudgedInv'
    BY <2>2 DEF Judge, JudgedInv
  <2>3. CASE ScanEnds
    BY <2>3 DEF ScanEnds, JudgedInv
  <2>4. CASE UNCHANGED readingVars
    BY <2>4 DEF JudgedInv, readingVars
  <2> QED
    BY <2>1, <2>2, <2>3, <2>4 DEF Next
<1> QED
  BY <1>1, <1>2, PTL DEF Spec

(* IndicatorsBounded follows from the numbers alone: the indicators reach  *)
(* neither the primary points nor their floor (setup_quality.py:316), and  *)
(* a clamp moves two qualities no further apart than the sums it clamps.   *)
LEMMA JudgedBounded == JudgedInv => IndicatorsBounded
<1> SUFFICES ASSUME JudgedInv, judged # None PROVE IndicatorsBounded
  BY DEF IndicatorsBounded
<1> DEFINE m == judged.market
           raw == RawPrimary(chart, m, judged.want)
           factor == TotalFactor(chart, m, judged.want)
           With(votes) == Graded(raw, factor, m.rr, votes)
           votes0 == Votes(m.setup, judged.want)
           base == (raw * factor) \div 10000 - RrPenalty(m.rr)
<1>1. m \in Markets /\ judged.score = With(votes0)
  BY DEF JudgedInv, Score
<1>2. raw \in Int
  BY RawPoints
<1>3. Share(factor)
  BY <1>1, FactorBounds
<1>4. votes0 \in -6..6
  BY VotesBounds
<1>5. RrPenalty(m.rr) \in Int
  <2>1. m \in Market
    BY <1>1, ReadingAssumption
  <2>2. m.rr \in Nat \cup {None}
    BY <2>1 DEF Market
  <2> HIDE DEF m
  <2> QED
    BY <2>2, RrPoints
<1> HIDE DEF m, raw, factor, votes0
<1>7. (raw * factor) \div 10000 \in Int
  <2> DEFINE x == raw * factor
  <2>1. x \in Int
    BY <1>2, <1>3, SMT DEF Share
  <2> HIDE DEF x
  <2>2. x \div 10000 \in Int
    BY <2>1, SMT
  <2> QED
    BY <2>2 DEF x
<1>8. base \in Int
  BY <1>5, <1>7
<1>9. \A v \in -6..6 :
        With(v).quality = Clamp(base + Indicator(factor, v), 0, 10000)
  <2> TAKE v \in -6..6
  <2>1. Indicator(factor, v) \in Int
    BY <1>3, IndicatorBounds
  <2>2. (raw * factor) \div 10000 + Indicator(factor, v) - RrPenalty(m.rr)
            = base + Indicator(factor, v)
    BY <1>5, <1>7, <2>1
  <2> QED
    BY <2>2, GradedParts DEF Graded0
<1> HIDE DEF base
<1>10. \A v \in -6..6 :
        With(v).quality = IF base + Indicator(factor, v) < 0 THEN 0
                          ELSE IF base + Indicator(factor, v) > 10000 THEN 10000
                          ELSE base + Indicator(factor, v)
  <2> TAKE v \in -6..6
  <2>1. base + Indicator(factor, v) \in Int
    BY <1>3, <1>8, IndicatorBounds
  <2> QED
    BY <1>9, <2>1, Clamped, SMT
<1>11. ASSUME With(0).primary < 100 * QUALITY_PRIMARY_FLOOR
       PROVE  \A v \in -6..6 : ~With(v).passes
  <2> TAKE v \in -6..6
  <2>1. With(v).primary = With(0).primary
    BY GradedParts, SMTT(30)
  <2>2. With(0).primary \in Int /\ 100 * QUALITY_PRIMARY_FLOOR \in Int
    BY <1>7, GradedParts, QualityAssumption, SMTT(30)
  <2>3. With(v).passes => With(v).primary >= 100 * QUALITY_PRIMARY_FLOOR
    BY GradedParts
  <2> HIDE DEF With
  <2> QED
    BY <1>11, <2>1, <2>2, <2>3
<1>12. judged.score.quality - With(0).quality
          \in -100 * IND_CONFLICT_PENALTY_MAX..100 * IND_CONFIRM_BONUS_MAX
  <2> DEFINE low == -100 * IND_CONFLICT_PENALTY_MAX
             high == 100 * IND_CONFIRM_BONUS_MAX
             i == Indicator(factor, votes0)
  <2>1. i \in Int /\ low <= i /\ i <= high /\ Indicator(factor, 0) = 0
    BY <1>3, <1>4, IndicatorBounds
  <2>2. low \in Int /\ low <= 0 /\ high \in Nat
    BY QualityAssumption, SMTT(30)
  <2>3. judged.score.quality = IF base + i < 0 THEN 0
                               ELSE IF base + i > 10000 THEN 10000 ELSE base + i
    BY <1>1, <1>4, <1>10
  <2>4. With(0).quality = IF base < 0 THEN 0 ELSE IF base > 10000 THEN 10000 ELSE base
    <3>1. 0 \in -6..6
      OBVIOUS
    <3>2. base + Indicator(factor, 0) = base
      BY <1>8, <2>1
    <3> HIDE DEF With
    <3> QED
      BY <1>10, <3>1, <3>2
  <2> HIDE DEF low, high, i, With
  <2>5. judged.score.quality - With(0).quality \in low..high
    BY <1>8, <2>1, <2>2, <2>3, <2>4, SMT
  <2> QED
    BY <2>5 DEF low, high
<1>13. \A v \in -6..5 : With(v).quality <= With(v + 1).quality
  <2> TAKE v \in -6..5
  <2>1. v \in -6..6 /\ v + 1 \in -6..6 /\ v < 6
    OBVIOUS
  <2> DEFINE i == Indicator(factor, v)
             j == Indicator(factor, v + 1)
  <2>2. i \in Int /\ i <= j
    BY <1>3, <2>1, IndicatorBounds
  <2>3. j \in Int
    BY <1>3, <2>1, IndicatorBounds
  <2>4. With(v).quality = IF base + i < 0 THEN 0
                          ELSE IF base + i > 10000 THEN 10000 ELSE base + i
    BY <1>10, <2>1
  <2>5. With(v + 1).quality = IF base + j < 0 THEN 0
                              ELSE IF base + j > 10000 THEN 10000 ELSE base + j
    BY <1>10, <2>1
  <2> HIDE DEF i, j, With
  <2> QED
    BY <1>8, <2>2, <2>3, <2>4, <2>5, SMT
<1> HIDE DEF With
<1> QED
  BY <1>11, <1>12, <1>13 DEF IndicatorsBounded, With, raw, factor, m

(* In every run the indicators stay in their place: below the floor they    *)
(* rescue no setup, above it they move its quality by their bonus or their  *)
(* penalty at most (setup_quality.py:257-329).                              *)
THEOREM IndicatorsCorrect == Spec => []IndicatorsBounded
  BY JudgedHolds, JudgedBounded, PTL

-----------------------------------------------------------------------------
(* A chart and the chart with one more candle.                             *)

(* A set of natural numbers with a bound has a greatest one. *)
LEMMA GreatestOf ==
    ASSUME NEW S \in SUBSET Nat, S # {}, NEW n \in Nat, \A x \in S : x <= n
    PROVE  Max(S) \in S /\ \A x \in S : x <= Max(S)
<1> DEFINE gaps == {k \in 0..n : n - k \in S}
<1>1. gaps \in SUBSET Nat
  OBVIOUS
<1>2. gaps # {}
  <2>1. PICK x \in S : TRUE
    OBVIOUS
  <2>2. n - x \in gaps
    BY <2>1
  <2> QED
    BY <2>2
<1> DEFINE g == Min(gaps)
<1>3. g \in gaps /\ \A k \in gaps : g <= k
  BY <1>1, <1>2, LeastOf
<1>4. \A x \in S : x <= n - g
  <2> TAKE x \in S
  <2>1. n - x \in gaps
    OBVIOUS
  <2> HIDE DEF gaps
  <2>2. g <= n - x
    BY <1>3, <2>1
  <2>3. g \in Nat
    BY <1>1, <1>3
  <2> HIDE DEF g
  <2> QED
    BY <2>2, <2>3
<1>5. n - g \in S
  BY <1>3
<1> HIDE DEF g, gaps
<1> QED
  BY <1>4, <1>5 DEF Max

ChartOK(ch) == ch \in Seq(Candle) /\ ch # <<>>

\* One more candle has closed.
Grown(ch, longer) ==
    /\ ChartOK(ch) /\ ChartOK(longer)
    /\ Len(longer) = Len(ch) + 1
    /\ \A i \in 1..Len(ch) : longer[i] = ch[i]

LEMMA ChartFacts ==
    ASSUME NEW ch, ChartOK(ch)
    PROVE  /\ Len(ch) \in Nat \ {0}
           /\ DOMAIN ch = 1..Len(ch)
           /\ \A i \in 1..Len(ch) : ch[i] \in Candle
<1>1. Len(ch) \in Nat \ {0}
  BY EmptySeq DEF ChartOK
<1>2. ch \in [1..Len(ch) -> Candle]
  BY LenProperties DEF ChartOK
<1> QED
  BY <1>1, <1>2

(* The position the window of the last k candles begins behind. *)
LEMMA WindowFacts ==
    ASSUME NEW ch, ChartOK(ch), NEW k \in Nat \ {0}
    PROVE  LET w == Window(ch, k)
               off == IF Len(ch) > k THEN Len(ch) - k ELSE 0 IN
           /\ ChartOK(w)
           /\ Len(w) = Len(ch) - off
           /\ \A i \in 1..Len(w) : w[i] = ch[i + off]
<1> DEFINE w == Window(ch, k)
           off == IF Len(ch) > k THEN Len(ch) - k ELSE 0
           first == Max({1, Len(ch) - k + 1})
<1>1. Len(ch) \in Nat \ {0} /\ \A i \in 1..Len(ch) : ch[i] \in Candle
  BY ChartFacts
<1>2. first = off + 1
  <2>1. Len(ch) - k + 1 \in Int
    BY <1>1
  <2>2. first = IF 1 >= Len(ch) - k + 1 THEN 1 ELSE Len(ch) - k + 1
    BY <2>1, MaxOfTwo
  <2> HIDE DEF first
  <2> QED
    BY <1>1, <2>2
<1>3. off \in Nat /\ off < Len(ch)
  BY <1>1
<1>4. w = SubSeq(ch, off + 1, Len(ch))
  BY <1>2 DEF Window
<1> HIDE DEF off, w, first
<1>5. /\ w \in Seq(Candle)
      /\ Len(w) = IF off + 1 <= Len(ch) THEN Len(ch) - (off + 1) + 1 ELSE 0
      /\ \A i \in 1..Len(ch) - (off + 1) + 1 : w[i] = ch[(off + 1) + i - 1]
  <2>1. \A i \in off + 1 .. Len(ch) : ch[i] \in Candle
    BY <1>1, <1>3
  <2> QED
    BY <1>1, <1>3, <1>4, <2>1, SubSeqProperties
<1>6. Len(w) = Len(ch) - off /\ Len(w) > 0
  BY <1>1, <1>3, <1>5
<1>7. w # <<>>
  <2>1. Len(<<>>) = 0
    BY EmptySeq
  <2> QED
    BY <1>6, <2>1
<1>8. \A i \in 1..Len(w) : w[i] = ch[i + off]
  <2> TAKE i \in 1..Len(w)
  <2>1. i \in 1..Len(ch) - (off + 1) + 1 /\ (off + 1) + i - 1 = i + off
    BY <1>1, <1>3, <1>6
  <2> QED
    BY <1>5, <2>1
<1> QED
  BY <1>5, <1>6, <1>7, <1>8 DEF ChartOK, w, off

-----------------------------------------------------------------------------
(* Pivots.                                                                 *)

Neighbours(p) == (p - STRUCT_PIVOT_LEFT .. p + STRUCT_PIVOT_RIGHT) \ {p}
Peak(ch, p) == \A j \in Neighbours(p) : ch[j].h < ch[p].h
Trough(ch, p) == \A j \in Neighbours(p) : ch[j].l > ch[p].l

\* Where a pivot of the chart can be.
Confirmable(ch) == Offset(ch) + STRUCT_PIVOT_LEFT + 1 .. Len(ch) - STRUCT_PIVOT_RIGHT

LEMMA OffsetIs ==
    ASSUME NEW ch, ChartOK(ch)
    PROVE  /\ Offset(ch) = IF Len(ch) > STRUCT_LOOKBACK
                           THEN Len(ch) - STRUCT_LOOKBACK ELSE 0
           /\ Offset(ch) \in Nat /\ Offset(ch) < Len(ch)
<1>1. STRUCT_LOOKBACK \in Nat \ {0}
  BY CandlesAssumption
<1>2. Len(ch) \in Nat \ {0}
  BY ChartFacts
<1>3. Len(Window(ch, STRUCT_LOOKBACK)) =
        Len(ch) - IF Len(ch) > STRUCT_LOOKBACK THEN Len(ch) - STRUCT_LOOKBACK ELSE 0
  BY <1>1, WindowFacts
<1> QED
  BY <1>1, <1>2, <1>3 DEF Offset

(* A pivot of the window is a peak or a trough of the chart, with enough   *)
(* closed candles on either side.                                          *)
LEMMA PivotsAre ==
    ASSUME NEW ch, ChartOK(ch)
    PROVE  Pivots(ch) = {<<"H", p>> : p \in {q \in Confirmable(ch) : Peak(ch, q)}}
                        \cup {<<"L", p>> : p \in {q \in Confirmable(ch) : Trough(ch, q)}}
<1> DEFINE w == Window(ch, STRUCT_LOOKBACK)
           off == Offset(ch)
           Left == STRUCT_PIVOT_LEFT
           Right == STRUCT_PIVOT_RIGHT
<1>1. Left \in Nat /\ Right \in Nat
  BY StructureAssumption
<1>2. off \in Nat /\ Len(ch) \in Nat
  BY OffsetIs, ChartFacts
<1>3. Len(w) = Len(ch) - off /\ ChartOK(w) /\ \A i \in 1..Len(w) : w[i] = ch[i + off]
  <2>1. STRUCT_LOOKBACK \in Nat \ {0}
    BY CandlesAssumption
  <2>2. off = IF Len(ch) > STRUCT_LOOKBACK THEN Len(ch) - STRUCT_LOOKBACK ELSE 0
    BY OffsetIs
  <2> HIDE DEF off
  <2> QED
    BY <2>1, <2>2, WindowFacts
<1>4. DOMAIN w = 1..Len(w)
  BY <1>3, ChartFacts
<1> HIDE DEF w, off, Left, Right
<1>5. \A i \in Int : i \in Confirmed(w) <=> i + off \in Confirmable(ch)
  BY <1>1, <1>2, <1>3 DEF Confirmed, Confirmable, off, Left, Right
<1>6. \A i \in Confirmed(w) :
        /\ i \in 1..Len(w)
        /\ \A j \in Int : j \in Around(w, i) <=> j + off \in Neighbours(i + off)
        /\ Around(w, i) \subseteq 1..Len(w)
        /\ \A j \in Neighbours(i + off) : j - off \in Around(w, i)
  BY <1>1, <1>2, <1>3, <1>4 DEF Confirmed, Around, Neighbours, Left, Right
<1>7. \A i \in Confirmed(w) : (\A j \in Around(w, i) : w[j].h < w[i].h) <=> Peak(ch, i + off)
  <2> SUFFICES ASSUME NEW i \in Confirmed(w)
               PROVE  (\A j \in Around(w, i) : w[j].h < w[i].h) <=> Peak(ch, i + off)
    OBVIOUS
  <2>1. w[i] = ch[i + off]
    BY <1>3, <1>6
  <2>2. ASSUME \A j \in Around(w, i) : w[j].h < w[i].h, NEW j \in Neighbours(i + off)
        PROVE  ch[j].h < ch[i + off].h
    <3>1. j - off \in Around(w, i) /\ j - off \in 1..Len(w)
      BY <1>6
    <3>2. w[j - off] = ch[(j - off) + off] /\ (j - off) + off = j
      BY <1>2, <1>3, <3>1 DEF Neighbours
    <3>3. w[j - off].h < w[i].h
      BY <2>2, <3>1
    <3> QED
      BY <2>1, <3>2, <3>3
  <2>3. ASSUME Peak(ch, i + off), NEW j \in Around(w, i)
        PROVE  w[j].h < w[i].h
    <3>1. j \in 1..Len(w) /\ j + off \in Neighbours(i + off)
      BY <1>6
    <3>2. w[j] = ch[j + off]
      BY <1>3, <3>1
    <3>3. ch[j + off].h < ch[i + off].h
      BY <2>3, <3>1 DEF Peak
    <3> QED
      BY <2>1, <3>2, <3>3
  <2> QED
    BY <2>2, <2>3 DEF Peak
<1>8. \A i \in Confirmed(w) : (\A j \in Around(w, i) : w[j].l > w[i].l) <=> Trough(ch, i + off)
  <2> SUFFICES ASSUME NEW i \in Confirmed(w)
               PROVE  (\A j \in Around(w, i) : w[j].l > w[i].l) <=> Trough(ch, i + off)
    OBVIOUS
  <2>1. w[i] = ch[i + off]
    BY <1>3, <1>6
  <2>2. ASSUME \A j \in Around(w, i) : w[j].l > w[i].l, NEW j \in Neighbours(i + off)
        PROVE  ch[j].l > ch[i + off].l
    <3>1. j - off \in Around(w, i) /\ j - off \in 1..Len(w)
      BY <1>6
    <3>2. w[j - off] = ch[(j - off) + off] /\ (j - off) + off = j
      BY <1>2, <1>3, <3>1 DEF Neighbours
    <3>3. w[j - off].l > w[i].l
      BY <2>2, <3>1
    <3> QED
      BY <2>1, <3>2, <3>3
  <2>3. ASSUME Trough(ch, i + off), NEW j \in Around(w, i)
        PROVE  w[j].l > w[i].l
    <3>1. j \in 1..Len(w) /\ j + off \in Neighbours(i + off)
      BY <1>6
    <3>2. w[j] = ch[j + off]
      BY <1>3, <3>1
    <3>3. ch[j + off].l > ch[i + off].l
      BY <2>3, <3>1 DEF Trough
    <3> QED
      BY <2>1, <3>2, <3>3
  <2> QED
    BY <2>2, <2>3 DEF Trough
<1>9. Confirmed(w) \subseteq Int /\ Confirmable(ch) \subseteq Int
  BY DEF Confirmed, Confirmable
<1> DEFINE high == {q \in Confirmable(ch) : Peak(ch, q)}
           low == {q \in Confirmable(ch) : Trough(ch, q)}
<1>10. {<<"H", i + off>> : i \in SwingHighs(w)} = {<<"H", p>> : p \in high}
  <2>1. \A i \in SwingHighs(w) : i + off \in high
    BY <1>5, <1>7, <1>9 DEF SwingHighs
  <2>2. \A p \in high : p - off \in SwingHighs(w) /\ (p - off) + off = p
    <3> TAKE p \in high
    <3>1. p \in Int /\ p - off \in Int /\ (p - off) + off = p
      BY <1>2, <1>9
    <3>2. p - off \in Confirmed(w)
      BY <1>5, <3>1
    <3> QED
      BY <1>7, <3>1, <3>2 DEF SwingHighs
  <2> HIDE DEF high
  <2> QED
    BY <2>1, <2>2
<1>11. {<<"L", i + off>> : i \in SwingLows(w)} = {<<"L", p>> : p \in low}
  <2>1. \A i \in SwingLows(w) : i + off \in low
    BY <1>5, <1>8, <1>9 DEF SwingLows
  <2>2. \A p \in low : p - off \in SwingLows(w) /\ (p - off) + off = p
    <3> TAKE p \in low
    <3>1. p \in Int /\ p - off \in Int /\ (p - off) + off = p
      BY <1>2, <1>9
    <3>2. p - off \in Confirmed(w)
      BY <1>5, <3>1
    <3> QED
      BY <1>8, <3>1, <3>2 DEF SwingLows
  <2> HIDE DEF low
  <2> QED
    BY <2>1, <2>2
<1> QED
  BY <1>10, <1>11, Zenon DEF Pivots, w, off

(* A pivot stays one while the window holds it, and only the newest candle *)
(* that can be confirmed becomes one (market_structure.py:12).             *)
LEMMA PivotsKeep ==
    ASSUME NEW ch, NEW longer, Grown(ch, longer)
    PROVE  /\ \A s \in Pivots(ch) :
                 s[2] > Offset(longer) + STRUCT_PIVOT_LEFT => s \in Pivots(longer)
           /\ \A s \in Pivots(longer) :
                 s[2] <= Len(ch) - STRUCT_PIVOT_RIGHT => s \in Pivots(ch)
<1>1. ChartOK(ch) /\ ChartOK(longer) /\ Len(longer) = Len(ch) + 1
      /\ \A i \in 1..Len(ch) : longer[i] = ch[i]
  BY DEF Grown
<1>2. Len(ch) \in Nat
  BY <1>1, ChartFacts
<1>3. /\ Offset(ch) \in Nat /\ Offset(longer) \in Nat
      /\ Offset(ch) <= Offset(longer)
  <2>1. STRUCT_LOOKBACK \in Nat
    BY CandlesAssumption
  <2>2. /\ Offset(ch) = IF Len(ch) > STRUCT_LOOKBACK
                        THEN Len(ch) - STRUCT_LOOKBACK ELSE 0
        /\ Offset(longer) = IF Len(longer) > STRUCT_LOOKBACK
                            THEN Len(longer) - STRUCT_LOOKBACK ELSE 0
    BY <1>1, OffsetIs
  <2> QED
    BY <1>1, <1>2, <2>1, <2>2
<1>4. STRUCT_PIVOT_LEFT \in Nat /\ STRUCT_PIVOT_RIGHT \in Nat
  BY StructureAssumption
<1>5. \A p \in Confirmable(ch) : Neighbours(p) \subseteq 1..Len(ch) /\ p \in 1..Len(ch)
  BY <1>2, <1>3, <1>4 DEF Confirmable, Neighbours
<1>6. \A p \in Confirmable(ch) :
        /\ Peak(ch, p) <=> Peak(longer, p)
        /\ Trough(ch, p) <=> Trough(longer, p)
  <2> SUFFICES ASSUME NEW p \in Confirmable(ch)
               PROVE  /\ Peak(ch, p) <=> Peak(longer, p)
                      /\ Trough(ch, p) <=> Trough(longer, p)
    OBVIOUS
  <2>1. longer[p] = ch[p] /\ \A j \in Neighbours(p) : longer[j] = ch[j]
    BY <1>1, <1>5
  <2> QED
    BY <2>1 DEF Peak, Trough
<1>7. \A p \in Confirmable(ch) :
        p > Offset(longer) + STRUCT_PIVOT_LEFT => p \in Confirmable(longer)
  BY <1>1, <1>2, <1>3, <1>4 DEF Confirmable
<1>8. \A p \in Confirmable(longer) :
        p <= Len(ch) - STRUCT_PIVOT_RIGHT => p \in Confirmable(ch)
  BY <1>1, <1>2, <1>3, <1>4 DEF Confirmable
<1> DEFINE highs(c) == {q \in Confirmable(c) : Peak(c, q)}
           lows(c) == {q \in Confirmable(c) : Trough(c, q)}
<1>9. /\ Pivots(ch) = {<<"H", p>> : p \in highs(ch)} \cup {<<"L", p>> : p \in lows(ch)}
      /\ Pivots(longer) = {<<"H", p>> : p \in highs(longer)}
                          \cup {<<"L", p>> : p \in lows(longer)}
  BY <1>1, PivotsAre
<1>10. ASSUME NEW s \in Pivots(ch), s[2] > Offset(longer) + STRUCT_PIVOT_LEFT
       PROVE  s \in Pivots(longer)
  <2>1. CASE \E p \in highs(ch) : s = <<"H", p>>
    <3>1. PICK p \in highs(ch) : s = <<"H", p>>
      BY <2>1
    <3>2. s[2] = p
      BY <3>1
    <3>3. p \in highs(longer)
      BY <1>6, <1>7, <1>10, <3>2
    <3> QED
      BY <1>9, <3>1, <3>3
  <2>2. CASE \E p \in lows(ch) : s = <<"L", p>>
    <3>1. PICK p \in lows(ch) : s = <<"L", p>>
      BY <2>2
    <3>2. s[2] = p
      BY <3>1
    <3>3. p \in lows(longer)
      BY <1>6, <1>7, <1>10, <3>2
    <3> QED
      BY <1>9, <3>1, <3>3
  <2> QED
    BY <1>9, <1>10, <2>1, <2>2
<1>11. ASSUME NEW s \in Pivots(longer), s[2] <= Len(ch) - STRUCT_PIVOT_RIGHT
       PROVE  s \in Pivots(ch)
  <2>1. CASE \E p \in highs(longer) : s = <<"H", p>>
    <3>1. PICK p \in highs(longer) : s = <<"H", p>>
      BY <2>1
    <3>2. s[2] = p
      BY <3>1
    <3>3. p \in highs(ch)
      BY <1>6, <1>8, <1>11, <3>2
    <3> QED
      BY <1>9, <3>1, <3>3
  <2>2. CASE \E p \in lows(longer) : s = <<"L", p>>
    <3>1. PICK p \in lows(longer) : s = <<"L", p>>
      BY <2>2
    <3>2. s[2] = p
      BY <3>1
    <3>3. p \in lows(ch)
      BY <1>6, <1>8, <1>11, <3>2
    <3> QED
      BY <1>9, <3>1, <3>3
  <2> QED
    BY <1>9, <1>11, <2>1, <2>2
<1> QED
  BY <1>10, <1>11

-----------------------------------------------------------------------------
(* Sweeps.                                                                 *)

(* A volume depends on the candles it is summed over only. *)
LEMMA SameVolume ==
    ASSUME NEW S, NEW ch, NEW longer, \A i \in S : ch[i] = longer[i]
    PROVE  VolumeOf(ch, S) = VolumeOf(longer, S)
<1> DEFINE any(s) == CHOOSE x \in s : TRUE
           step(c, f) == [s \in SUBSET S |->
                            IF s = {} THEN 0 ELSE c[any(s)].v + f[s \ {any(s)}]]
<1>1. VolumeOf(ch, S) = (CHOOSE f : f = step(ch, f))[S]
  BY Zenon DEF VolumeOf, MapThenSumSet, MapThenFoldSet
<1>2. VolumeOf(longer, S) = (CHOOSE f : f = step(longer, f))[S]
  BY Zenon DEF VolumeOf, MapThenSumSet, MapThenFoldSet
<1>3. \A f : step(ch, f) = step(longer, f)
  <2> TAKE f
  <2>1. \A s \in SUBSET S : s # {} => any(s) \in S
    OBVIOUS
  <2> QED
    BY <2>1
<1>4. (CHOOSE f : f = step(ch, f)) = (CHOOSE f : f = step(longer, f))
  <2> HIDE DEF step
  <2> QED
    BY <1>3, Zenon
<1> QED
  BY <1>1, <1>2, <1>4, Zenon

(* Whether a closed candle is a sweep depends on it and those before it. *)
LEMMA SweptStays ==
    ASSUME NEW ch, NEW longer, Grown(ch, longer), NEW side,
           NEW p \in SWEEP_WINDOW + 1..Len(ch)
    PROVE  /\ Level(longer, side, p) = Level(ch, side, p)
           /\ Swept(longer, side, p) <=> Swept(ch, side, p)
<1>1. SWEEP_WINDOW \in Nat /\ Len(ch) \in Nat
  BY DetectorsAssumption, ChartFacts DEF Grown
<1>2. p \in 1..Len(ch) /\ Before(p) \subseteq 1..Len(ch)
  BY <1>1 DEF Before
<1>3. longer[p] = ch[p] /\ \A i \in Before(p) : longer[i] = ch[i]
  BY <1>2 DEF Grown
<1>4. /\ LowsOf(longer, Before(p)) = LowsOf(ch, Before(p))
      /\ HighsOf(longer, Before(p)) = HighsOf(ch, Before(p))
  BY <1>3 DEF LowsOf, HighsOf
<1>5. Level(longer, side, p) = Level(ch, side, p)
  BY <1>4 DEF Level
<1>6. VolumeOf(longer, Before(p)) = VolumeOf(ch, Before(p))
  BY <1>3, SameVolume
<1> QED
  BY <1>3, <1>5, <1>6, Zenon DEF Swept

\* Where the last sweep is looked for.
Searched(ch) == Max({SWEEP_WINDOW, Len(ch) - SWEEP_SEARCH_CANDLES}) + 1 .. Len(ch)
Sweeps(ch, side) == {0} \cup {p \in Searched(ch) : Swept(ch, side, p)}

LEMMA SweepIs ==
    ASSUME NEW ch, ChartOK(ch), NEW side
    PROVE  /\ Sweep(ch, side) \in Sweeps(ch, side)
           /\ Sweeps(ch, side) \subseteq Nat
           /\ \A p \in Sweeps(ch, side) : p <= Sweep(ch, side)
           /\ \A p \in Int : p \in Searched(ch) <=>
                 /\ SWEEP_WINDOW < p /\ p <= Len(ch)
                 /\ Len(ch) - SWEEP_SEARCH_CANDLES < p
<1>1. Len(ch) \in Nat
  BY ChartFacts
<1>2. SWEEP_WINDOW \in Nat /\ SWEEP_SEARCH_CANDLES \in Nat
  BY DetectorsAssumption
<1> DEFINE b == Len(ch) - SWEEP_SEARCH_CANDLES
           m == Max({SWEEP_WINDOW, b})
<1>3. m = IF SWEEP_WINDOW >= b THEN SWEEP_WINDOW ELSE b
  <2>1. b \in Int
    BY <1>1, <1>2
  <2> HIDE DEF b
  <2> QED
    BY <1>2, <2>1, MaxOfTwo
<1>4. Searched(ch) = m + 1 .. Len(ch)
  BY DEF Searched
<1> HIDE DEF m
<1>5. Searched(ch) \subseteq 1..Len(ch)
  BY <1>1, <1>2, <1>3, <1>4
<1>6. \A p \in Int : p \in Searched(ch) <=>
        /\ SWEEP_WINDOW < p /\ p <= Len(ch)
        /\ Len(ch) - SWEEP_SEARCH_CANDLES < p
  BY <1>1, <1>2, <1>3, <1>4
<1>7. /\ Sweeps(ch, side) \subseteq Nat /\ Sweeps(ch, side) # {}
      /\ \A p \in Sweeps(ch, side) : p <= Len(ch)
  BY <1>1, <1>5 DEF Sweeps
<1>8. Sweep(ch, side) = Max(Sweeps(ch, side))
  BY DEF Sweep, Sweeps, Searched
<1> QED
  BY <1>1, <1>6, <1>7, <1>8, GreatestOf

(* The last sweep stays the last one, unless the new candle is one or the  *)
(* old one is too far back (filter_1h.py:55).                              *)
LEMMA SweepKeeps ==
    ASSUME NEW ch, NEW longer, Grown(ch, longer), NEW side
    PROVE  LET p == Sweep(ch, side)
               q == Sweep(longer, side) IN
           /\ p + SWEEP_SEARCH_CANDLES > Len(longer) /\ p # 0
                  => q \in {p, Len(longer)}
           /\ p = 0 => q \in {0, Len(longer)}
<1> DEFINE p == Sweep(ch, side)
           q == Sweep(longer, side)
<1>1. ChartOK(ch) /\ ChartOK(longer) /\ Len(longer) = Len(ch) + 1
  BY DEF Grown
<1>2. Len(ch) \in Nat /\ SWEEP_WINDOW \in Nat /\ SWEEP_SEARCH_CANDLES \in Nat
  BY <1>1, ChartFacts, DetectorsAssumption
<1>3. /\ p \in Sweeps(ch, side) /\ q \in Sweeps(longer, side)
      /\ Sweeps(ch, side) \subseteq Nat /\ Sweeps(longer, side) \subseteq Nat
      /\ \A x \in Sweeps(ch, side) : x <= p
      /\ \A x \in Sweeps(longer, side) : x <= q
  BY <1>1, SweepIs
<1>4. /\ \A x \in Int : x \in Searched(ch) <=>
            SWEEP_WINDOW < x /\ x <= Len(ch) /\ Len(ch) - SWEEP_SEARCH_CANDLES < x
      /\ \A x \in Int : x \in Searched(longer) <=>
            /\ SWEEP_WINDOW < x /\ x <= Len(longer)
            /\ Len(longer) - SWEEP_SEARCH_CANDLES < x
  BY <1>1, SweepIs
<1>5. p \in Nat /\ q \in Nat
  BY <1>3
<1> HIDE DEF p, q
\* A sweep of the grown chart is its last candle or one of the chart.
<1>6. q \in Sweeps(ch, side) \/ q = Len(longer)
  <2>1. CASE q = 0
    BY <2>1 DEF Sweeps
  <2>2. CASE q # 0 /\ q # Len(longer)
    <3>1. q \in Searched(longer) /\ Swept(longer, side, q)
      BY <1>3, <2>2 DEF Sweeps
    <3>2. SWEEP_WINDOW < q /\ q <= Len(longer) /\ Len(longer) - SWEEP_SEARCH_CANDLES < q
      BY <1>4, <1>5, <3>1
    <3>3. q \in SWEEP_WINDOW + 1..Len(ch)
      BY <1>1, <1>2, <1>5, <2>2, <3>2
    <3>4. q \in Searched(ch)
      BY <1>1, <1>2, <1>4, <1>5, <3>2, <3>3
    <3>5. Swept(ch, side, q)
      BY <3>1, <3>3, SweptStays
    <3> QED
      BY <3>4, <3>5 DEF Sweeps
  <2> QED
    BY <2>1, <2>2
<1>7. ASSUME p + SWEEP_SEARCH_CANDLES > Len(longer), p # 0
      PROVE  q \in {p, Len(longer)}
  <2>1. p \in Searched(ch) /\ Swept(ch, side, p)
    BY <1>3, <1>7 DEF Sweeps
  <2>2. SWEEP_WINDOW < p /\ p <= Len(ch)
    BY <1>4, <1>5, <2>1
  <2>3. p \in Searched(longer)
    BY <1>1, <1>2, <1>4, <1>5, <1>7, <2>2
  <2>4. p \in SWEEP_WINDOW + 1..Len(ch)
    BY <1>2, <1>5, <2>2
  <2>5. Swept(longer, side, p)
    BY <2>1, <2>4, SweptStays
  <2>6. p <= q
    BY <1>3, <2>3, <2>5 DEF Sweeps
  <2>7. q \in Sweeps(ch, side) => q <= p
    BY <1>3
  <2> QED
    BY <1>5, <1>6, <2>6, <2>7
<1>8. ASSUME p = 0 PROVE q \in {0, Len(longer)}
  <2>1. q \in Sweeps(ch, side) => q <= p
    BY <1>3
  <2> QED
    BY <1>5, <1>6, <1>8, <2>1
<1> QED
  BY <1>7, <1>8 DEF p, q

-----------------------------------------------------------------------------
(* Sums and extremes of whole numbers are whole numbers.                   *)

\* Some element, the one a sum takes first, and what it adds.
OneOf(s) == CHOOSE x \in s : TRUE
Adds(v, f, s) == IF s = {} THEN 0 ELSE v[OneOf(s)] + f[s \ {OneOf(s)}]

(* The sums of a finite set's subsets exist: if they did up to some size   *)
(* only, those one larger could be added to them.                          *)
LEMMA SumsExist ==
    ASSUME NEW S, IsFiniteSet(S), NEW v, \A x \in S : v[x] \in Int
    PROVE  \E f \in [SUBSET S -> Int] : \A s \in SUBSET S : f[s] = Adds(v, f, s)
<1> DEFINE upto(n) == {s \in SUBSET S : Cardinality(s) <= n}
           good(n) == \E f \in [upto(n) -> Int] : \A s \in upto(n) : f[s] = Adds(v, f, s)
           bad == {n \in Nat : ~good(n)}
<1>1. \A s \in SUBSET S : IsFiniteSet(s) /\ Cardinality(s) \in Nat
  BY FS_Subset, FS_CardinalityType
<1>2. \A s \in SUBSET S : s # {} =>
        /\ OneOf(s) \in s /\ v[OneOf(s)] \in Int
        /\ s \ {OneOf(s)} \in SUBSET S
        /\ Cardinality(s \ {OneOf(s)}) = Cardinality(s) - 1
  <2> SUFFICES ASSUME NEW s \in SUBSET S, s # {}
               PROVE  /\ OneOf(s) \in s /\ v[OneOf(s)] \in Int
                      /\ s \ {OneOf(s)} \in SUBSET S
                      /\ Cardinality(s \ {OneOf(s)}) = Cardinality(s) - 1
    OBVIOUS
  <2>1. OneOf(s) \in s
    BY DEF OneOf
  <2>2. IsFiniteSet(s)
    BY <1>1
  <2>3. Cardinality(s \ {OneOf(s)}) = Cardinality(s) - 1
    BY <2>1, <2>2, FS_RemoveElement
  <2> QED
    BY <2>1, <2>3
<1>3. good(0)
  <2>1. \A s \in upto(0) : s = {}
    <3> SUFFICES ASSUME NEW s \in upto(0) PROVE s = {}
      OBVIOUS
    <3>1. Cardinality(s) = 0 /\ IsFiniteSet(s)
      BY <1>1
    <3> QED
      BY <3>1, FS_EmptySet
  <2> DEFINE f == [s \in upto(0) |-> 0]
  <2>2. f \in [upto(0) -> Int] /\ \A s \in upto(0) : f[s] = Adds(v, f, s)
    BY <2>1 DEF Adds
  <2> QED
    BY <2>2
<1>4. ASSUME NEW n \in Nat, good(n) PROVE good(n + 1)
  <2>1. PICK f \in [upto(n) -> Int] : \A s \in upto(n) : f[s] = Adds(v, f, s)
    BY <1>4
  <2> DEFINE g == [s \in upto(n + 1) |-> Adds(v, f, s)]
  <2>2. \A s \in upto(n + 1) : s # {} => s \ {OneOf(s)} \in upto(n)
    <3> SUFFICES ASSUME NEW s \in upto(n + 1), s # {}
                 PROVE  s \ {OneOf(s)} \in upto(n)
      OBVIOUS
    <3>1. Cardinality(s) \in Nat /\ Cardinality(s) <= n + 1
      BY <1>1
    <3>2. s \ {OneOf(s)} \in SUBSET S /\ Cardinality(s \ {OneOf(s)}) = Cardinality(s) - 1
      BY <1>2
    <3> QED
      BY <3>1, <3>2
  <2>3. \A s \in upto(n) : s \in upto(n + 1)
    BY <1>1
  <2>4. \A s \in upto(n) : g[s] = f[s]
    <3> HIDE DEF upto
    <3> QED
      BY <2>1, <2>3
  <2>5. \A s \in upto(n + 1) : Adds(v, f, s) = Adds(v, g, s) /\ Adds(v, f, s) \in Int
    <3> SUFFICES ASSUME NEW s \in upto(n + 1)
                 PROVE  Adds(v, f, s) = Adds(v, g, s) /\ Adds(v, f, s) \in Int
      OBVIOUS
    <3>1. CASE s = {}
      BY <3>1 DEF Adds
    <3>2. CASE s # {}
      <4>1. s \ {OneOf(s)} \in upto(n)
        BY <2>2, <3>2
      <4>2. v[OneOf(s)] \in Int
        BY <1>2, <3>2
      <4> DEFINE r == s \ {OneOf(s)}
      <4>3. Adds(v, f, s) = v[OneOf(s)] + f[r] /\ Adds(v, g, s) = v[OneOf(s)] + g[r]
        BY <3>2 DEF Adds
      <4> HIDE DEF upto, g, r
      <4>4. r \in upto(n)
        BY <4>1 DEF r
      <4>5. f[r] \in Int /\ g[r] = f[r]
        BY <2>1, <2>4, <4>4
      <4> QED
        BY <4>2, <4>3, <4>5
    <3> QED
      BY <3>1, <3>2
  <2>6. g \in [upto(n + 1) -> Int] /\ \A s \in upto(n + 1) : g[s] = Adds(v, g, s)
    <3>1. \A s \in upto(n + 1) : g[s] = Adds(v, f, s)
      OBVIOUS
    <3>2. g \in [upto(n + 1) -> Int]
      BY <2>5
    <3> HIDE DEF g, upto
    <3> QED
      BY <2>5, <3>1, <3>2
  <2> HIDE DEF g, upto
  <2> QED
    BY <2>6
<1> HIDE DEF good
<1>5. bad = {}
  <2> SUFFICES ASSUME bad # {} PROVE FALSE
    OBVIOUS
  <2> DEFINE n == Min(bad)
  <2>1. n \in bad /\ \A k \in bad : n <= k
    BY LeastOf
  <2>2. n # 0
    BY <1>3, <2>1
  <2>3. n - 1 \in Nat /\ n - 1 \notin bad
    BY <2>1, <2>2
  <2>4. good(n - 1)
    BY <2>3
  <2>5. good((n - 1) + 1) /\ (n - 1) + 1 = n
    BY <1>4, <2>1, <2>3, <2>4
  <2> QED
    BY <2>1, <2>5
<1>6. Cardinality(S) \in Nat /\ upto(Cardinality(S)) = SUBSET S
  <2>1. Cardinality(S) \in Nat
    BY FS_CardinalityType
  <2>2. \A s \in SUBSET S : Cardinality(s) <= Cardinality(S)
    BY FS_Subset
  <2> QED
    BY <2>1, <2>2
<1>7. good(Cardinality(S))
  BY <1>5, <1>6
<1>8. PICK f \in [SUBSET S -> Int] : \A s \in SUBSET S : f[s] = Adds(v, f, s)
  BY <1>6, <1>7 DEF good
<1> QED
  BY <1>8

(* What a sum over a finite set of whole numbers is. *)
LEMMA SumsAreWhole ==
    ASSUME NEW S, IsFiniteSet(S), NEW v, \A x \in S : v[x] \in Int,
           NEW f, f = [s \in SUBSET S |-> Adds(v, f, s)]
    PROVE  f[S] \in Int
<1> DEFINE bad == {n \in Nat : \E s \in SUBSET S : Cardinality(s) = n /\ f[s] \notin Int}
<1>1. \A s \in SUBSET S : IsFiniteSet(s) /\ Cardinality(s) \in Nat
  BY FS_Subset, FS_CardinalityType
<1>2. bad = {}
  <2> SUFFICES ASSUME bad # {} PROVE FALSE
    OBVIOUS
  <2> DEFINE n == Min(bad)
  <2>1. n \in bad /\ \A k \in bad : n <= k
    BY LeastOf
  <2>2. PICK s \in SUBSET S : Cardinality(s) = n /\ f[s] \notin Int
    BY <2>1
  <2>3. f[s] = Adds(v, f, s)
    OBVIOUS
  <2>4. s # {}
    BY <2>2, <2>3 DEF Adds
  <2> DEFINE r == s \ {OneOf(s)}
  <2>5. OneOf(s) \in s
    BY <2>4 DEF OneOf
  <2>6. r \in SUBSET S /\ IsFiniteSet(s) /\ v[OneOf(s)] \in Int
    BY <1>1, <2>5
  <2>7. Cardinality(r) = Cardinality(s) - 1 /\ Cardinality(r) \in Nat
    BY <1>1, <2>5, <2>6, FS_RemoveElement
  <2>8. Cardinality(r) \notin bad
    <3>1. n \in Nat /\ Cardinality(r) < n
      BY <2>1, <2>2, <2>7
    <3> HIDE DEF bad, n, r
    <3> QED
      BY <2>1, <2>7, <3>1
  <2>9. f[r] \in Int
    <3> HIDE DEF r
    <3> QED
      BY <2>6, <2>7, <2>8
  <2>10. f[s] = v[OneOf(s)] + f[r]
    BY <2>3, <2>4 DEF Adds
  <2> QED
    BY <2>2, <2>6, <2>9, <2>10
<1>3. Cardinality(S) \in Nat /\ Cardinality(S) \notin bad
  BY <1>1, <1>2
<1> QED
  BY <1>3

(* How far apart two whole numbers are is one. *)
LEMMA SizeWhole ==
    ASSUME NEW x \in Int, NEW y \in Int
    PROVE  x - y \in Int /\ Size(x - y) \in Int
  BY DEF Size

(* The sum of the true ranges of a chart is a whole number. *)
LEMMA AtrSumWhole ==
    ASSUME NEW ch, ChartOK(ch)
    PROVE  AtrSum(ch) \in Int /\ AtrCount(ch) \in Nat \ {0}
<1> DEFINE S == Len(ch) - AtrCount(ch) + 1 .. Len(ch)
           v == [i \in S |-> TrueRange(ch, i)]
           step(f) == [s \in SUBSET S |-> Adds(v, f, s)]
<1>1. Len(ch) \in Nat \ {0} /\ \A i \in 1..Len(ch) : ch[i] \in Candle
  BY ChartFacts
<1>2. STRUCT_ATR_LENGTH \in Nat \ {0}
  BY CandlesAssumption
<1>3. AtrCount(ch) = IF Len(ch) <= STRUCT_ATR_LENGTH THEN Len(ch) ELSE STRUCT_ATR_LENGTH
  <2>1. Len(ch) \in Int /\ STRUCT_ATR_LENGTH \in Int
    BY <1>1, <1>2
  <2>2. Min({Len(ch), STRUCT_ATR_LENGTH}) =
          IF Len(ch) <= STRUCT_ATR_LENGTH THEN Len(ch) ELSE STRUCT_ATR_LENGTH
    BY <2>1, MaxOfTwo
  <2> QED
    BY <2>2 DEF AtrCount
<1>4. AtrCount(ch) \in Nat \ {0} /\ AtrCount(ch) <= Len(ch)
  BY <1>1, <1>2, <1>3
<1>5. S \subseteq 1..Len(ch) /\ IsFiniteSet(S)
  <2>1. Len(ch) - AtrCount(ch) + 1 \in Int
    BY <1>1, <1>4
  <2>2. IsFiniteSet(S)
    BY <1>1, <2>1, FS_Interval
  <2> QED
    BY <1>1, <1>4, <2>2
<1>6. \A i \in S : TrueRange(ch, i) \in Int
  <2> SUFFICES ASSUME NEW i \in S PROVE TrueRange(ch, i) \in Int
    OBVIOUS
  <2>1. i \in 1..Len(ch) /\ ch[i] \in Candle
    BY <1>1, <1>5
  <2>2. CASE i = 1
    BY <2>1, <2>2 DEF TrueRange, Candle
  <2>3. CASE i # 1
    <3>1. i - 1 \in 1..Len(ch)
      BY <1>1, <2>1, <2>3
    <3> DEFINE a == ch[i].h - ch[i].l
               b == Size(ch[i].h - ch[i - 1].c)
               d == Size(ch[i].l - ch[i - 1].c)
    <3>2. ch[i - 1] \in Candle
      BY <1>1, <3>1
    <3>3. a \in Int /\ b \in Int /\ d \in Int
      <4>1. ch[i].h \in Int /\ ch[i].l \in Int /\ ch[i - 1].c \in Int
        BY <2>1, <3>2 DEF Candle
      <4> QED
        BY <4>1, SizeWhole
    <3>4. TrueRange(ch, i) = Max({a, b, d})
      BY <2>3 DEF TrueRange
    <3> HIDE DEF a, b, d
    <3>5. \E x \in {a, b, d} : \A y \in {a, b, d} : x >= y
      BY <3>3
    <3>6. Max({a, b, d}) \in {a, b, d}
      BY <3>5 DEF Max
    <3> QED
      BY <3>3, <3>4, <3>6
  <2> QED
    BY <2>2, <2>3
<1>7. \A x \in S : v[x] \in Int
  <2> HIDE DEF S
  <2> QED
    BY <1>6
<1>8. AtrSum(ch) = (CHOOSE f : f = step(f))[S]
  <2> DEFINE plain(f) == [s \in SUBSET S |->
                IF s = {} THEN 0 ELSE TrueRange(ch, OneOf(s)) + f[s \ {OneOf(s)}]]
  <2>1. AtrSum(ch) = (CHOOSE f : f = plain(f))[S]
    BY Zenon DEF AtrSum, MapThenSumSet, MapThenFoldSet, OneOf
  <2>2. \A f : plain(f) = step(f)
    <3> TAKE f
    <3> HIDE DEF S
    <3>1. \A s \in SUBSET S : s # {} => v[OneOf(s)] = TrueRange(ch, OneOf(s))
      BY DEF OneOf
    <3> HIDE DEF v
    <3> QED
      BY <3>1 DEF Adds
  <2>3. (CHOOSE f : f = plain(f)) = (CHOOSE f : f = step(f))
    <3> HIDE DEF plain, step
    <3> QED
      BY <2>2, Zenon
  <2> QED
    BY <2>1, <2>3, Zenon
<1> HIDE DEF S, v
<1> DEFINE F == CHOOSE f : f = step(f)
<1>9. F = step(F)
  <2>1. \E f : f = step(f)
    <3>1. PICK f \in [SUBSET S -> Int] : \A s \in SUBSET S : f[s] = Adds(v, f, s)
      BY <1>5, <1>7, SumsExist
    <3>2. f = step(f)
      BY <3>1
    <3> HIDE DEF step
    <3> QED
      BY <3>2
  <2> HIDE DEF step
  <2> QED
    BY <2>1, Zenon
<1> HIDE DEF F
<1>10. F[S] \in Int
  BY <1>5, <1>7, <1>9, SumsAreWhole
<1> QED
  BY <1>4, <1>8, <1>10, Zenon DEF F

(* A span of whole numbers has a least one, and a greatest. *)
LEMMA ExtremesOfSpan ==
    ASSUME NEW a \in Int, NEW b \in Int, a <= b, NEW v, \A i \in a..b : v[i] \in Int
    PROVE  Min({v[i] : i \in a..b}) \in Int /\ Max({v[i] : i \in a..b}) \in Int
<1> DEFINE least(n) == \E m \in a..n : \A i \in a..n : v[m] <= v[i]
           greatest(n) == \E m \in a..n : \A i \in a..n : v[m] >= v[i]
           both(n) == least(n) /\ greatest(n)
           bad == {n \in Nat : a + n <= b /\ ~both(a + n)}
<1>1. both(a)
  BY DEF least, greatest
<1>2. ASSUME NEW n \in a..b - 1, both(n) PROVE both(n + 1)
  <2>1. n + 1 \in a..b /\ n \in a..b /\ a..n \subseteq a..b /\ a..n + 1 \subseteq a..b
    OBVIOUS
  <2>2. \A i \in a..n + 1 : i \in a..n \/ i = n + 1
    OBVIOUS
  <2>3. a..n \subseteq a..n + 1 /\ n + 1 \in a..n + 1
    OBVIOUS
  <2>4. least(n + 1)
    <3>1. PICK m \in a..n : \A i \in a..n : v[m] <= v[i]
      BY <1>2
    <3>2. CASE v[m] <= v[n + 1]
      BY <2>2, <2>3, <3>1, <3>2
    <3>3. CASE ~ (v[m] <= v[n + 1])
      <4>1. v[m] \in Int /\ v[n + 1] \in Int
        BY <2>1, <3>1
      <4>2. \A i \in a..n + 1 : v[n + 1] <= v[i]
        BY <2>1, <2>2, <3>1, <3>3, <4>1
      <4> QED
        BY <2>3, <4>2
    <3> QED
      BY <3>2, <3>3
  <2>5. greatest(n + 1)
    <3>1. PICK m \in a..n : \A i \in a..n : v[m] >= v[i]
      BY <1>2
    <3>2. CASE v[m] >= v[n + 1]
      BY <2>2, <2>3, <3>1, <3>2
    <3>3. CASE ~ (v[m] >= v[n + 1])
      <4>1. v[m] \in Int /\ v[n + 1] \in Int
        BY <2>1, <3>1
      <4>2. \A i \in a..n + 1 : v[n + 1] >= v[i]
        BY <2>1, <2>2, <3>1, <3>3, <4>1
      <4> QED
        BY <2>3, <4>2
    <3> QED
      BY <3>2, <3>3
  <2> HIDE DEF least, greatest
  <2> QED
    BY <2>4, <2>5
<1> HIDE DEF both
<1>3. bad = {}
  <2> SUFFICES ASSUME bad # {} PROVE FALSE
    OBVIOUS
  <2> DEFINE n == Min(bad)
  <2>1. n \in bad /\ \A k \in bad : n <= k
    BY LeastOf
  <2> HIDE DEF n
  <2>2. n \in Nat /\ a + n <= b /\ ~both(a + n)
    BY <2>1
  <2>3. n # 0
    <3>1. a + 0 = a
      OBVIOUS
    <3> QED
      BY <1>1, <2>2, <3>1
  <2>4. n - 1 \in Nat /\ n - 1 \notin bad /\ a + (n - 1) \in a..b - 1
    BY <2>1, <2>2, <2>3
  <2>5. both(a + (n - 1))
    BY <2>4
  <2>6. both((a + (n - 1)) + 1) /\ (a + (n - 1)) + 1 = a + n
    BY <1>2, <2>2, <2>4, <2>5
  <2> QED
    BY <2>2, <2>6
<1>4. both(b)
  <2> DEFINE n == b - a
  <2>1. n \in Nat /\ a + n = b
    OBVIOUS
  <2> HIDE DEF n
  <2>2. a + n <= b
    BY <2>1
  <2>3. both(a + n)
    <3>1. ~both(a + n) => n \in bad
      BY <2>1, <2>2
    <3> QED
      BY <1>3, <3>1
  <2> QED
    BY <2>1, <2>3
<1>5. PICK m \in a..b : \A i \in a..b : v[m] <= v[i]
  BY <1>4 DEF both
<1>6. PICK k \in a..b : \A i \in a..b : v[k] >= v[i]
  BY <1>4 DEF both
<1>7. Min({v[i] : i \in a..b}) \in {v[i] : i \in a..b}
  <2>1. \E x \in {v[i] : i \in a..b} : \A y \in {v[i] : i \in a..b} : x <= y
    BY <1>5
  <2> QED
    BY <2>1 DEF Min
<1>8. Max({v[i] : i \in a..b}) \in {v[i] : i \in a..b}
  <2>1. \E x \in {v[i] : i \in a..b} : \A y \in {v[i] : i \in a..b} : x >= y
    BY <1>6
  <2> QED
    BY <2>1 DEF Max
<1> QED
  BY <1>7, <1>8

(* The level a sweep pierced is a price. *)
LEMMA LevelWhole ==
    ASSUME NEW ch, ChartOK(ch), NEW side, NEW p \in SWEEP_WINDOW + 1..Len(ch)
    PROVE  Level(ch, side, p) \in Int
<1>1. Len(ch) \in Nat /\ \A i \in 1..Len(ch) : ch[i] \in Candle
  BY ChartFacts
<1>2. SWEEP_WINDOW \in Nat /\ SWEEP_WINDOW > 0
  BY DetectorsAssumption
<1> DEFINE a == p - SWEEP_WINDOW
           b == p - 1
           low == [i \in a..b |-> ch[i].l]
           high == [i \in a..b |-> ch[i].h]
<1>3. a \in Int /\ b \in Int /\ a <= b
  BY <1>1, <1>2
<1>4. \A i \in a..b : ch[i].l \in Int /\ ch[i].h \in Int
  <2> SUFFICES ASSUME NEW i \in a..b PROVE ch[i].l \in Int /\ ch[i].h \in Int
    OBVIOUS
  <2>1. i \in 1..Len(ch)
    BY <1>1, <1>2
  <2> QED
    BY <1>1, <2>1 DEF Candle
<1>5. Before(p) = a..b
  BY DEF Before
<1> HIDE DEF a, b
<1>6. /\ \A i \in a..b : low[i] \in Int /\ low[i] = ch[i].l
      /\ \A i \in a..b : high[i] \in Int /\ high[i] = ch[i].h
  BY <1>4
<1>7. /\ LowsOf(ch, Before(p)) = {low[i] : i \in a..b}
      /\ HighsOf(ch, Before(p)) = {high[i] : i \in a..b}
  BY <1>5, <1>6 DEF LowsOf, HighsOf
<1> HIDE DEF low, high
<1>8. Min({low[i] : i \in a..b}) \in Int
  <2>1. \A i \in a..b : low[i] \in Int
    BY <1>6
  <2> QED
    BY <1>3, <2>1, ExtremesOfSpan
<1>9. Max({high[i] : i \in a..b}) \in Int
  <2>1. \A i \in a..b : high[i] \in Int
    BY <1>6
  <2> QED
    BY <1>3, <2>1, ExtremesOfSpan
<1> QED
  BY <1>7, <1>8, <1>9 DEF Level

-----------------------------------------------------------------------------
(* No look-ahead.                                                          *)

(* With no buffer to hold a level by, what confirms a sweep is a candle of *)
(* the right colour that closes at the level or beyond it, and no ATR.     *)
LEMMA ConfirmsIs ==
    ASSUME LIQ_CONFIRM_CLOSE_ATR = 0, NEW ch, ChartOK(ch), NEW side \in Sides,
           NEW level \in Int, NEW k \in Candle
    PROVE  Confirms(ch, side, level, k) <=>
             IF side = "bullish" THEN k.c > k.o /\ k.c >= level
             ELSE k.c < k.o /\ k.c <= level
<1> DEFINE w == Window(ch, STRUCT_LOOKBACK)
           beyond == IF side = "bullish" THEN k.c - level ELSE level - k.c
           n == AtrCount(w)
           sum == AtrSum(w)
<1>1. ChartOK(w)
  <2>1. STRUCT_LOOKBACK \in Nat \ {0}
    BY CandlesAssumption
  <2> QED
    BY <2>1, WindowFacts
<1>2. n \in Nat \ {0} /\ sum \in Int
  BY <1>1, AtrSumWhole
<1>3. k.c \in Int /\ beyond \in Int
  BY DEF Candle
<1>4. Confirms(ch, side, level, k) <=>
        /\ IF side = "bullish" THEN k.c > k.o ELSE k.c < k.o
        /\ 100 * n * beyond >= 0 * sum
  BY DEF Confirms
<1> HIDE DEF n, sum
<1>5. beyond >= 0 <=> IF side = "bullish" THEN k.c >= level ELSE k.c <= level
  BY <1>3
<1> HIDE DEF beyond
<1>6. 0 * sum = 0
  BY <1>2
<1>7. 100 * n * beyond >= 0 <=> beyond >= 0
  <2>1. beyond >= 0 => n * beyond >= 0
    BY <1>2, <1>3, SMT
  <2>2. beyond < 0 => n * beyond < 0
    BY <1>2, <1>3, SMT
  <2>3. n * beyond \in Int
    BY <1>2, <1>3, SMT
  <2>4. 100 * n * beyond = 100 * (n * beyond)
    BY <1>2, <1>3, SMT
  <2> QED
    BY <1>3, <2>1, <2>2, <2>3, <2>4, SMT
<1> QED
  BY <1>4, <1>5, <1>6, <1>7

(* A sweep that was confirmed stays so (liquidity.py:21). *)
LEMMA ReadyKeeps ==
    ASSUME LIQ_CONFIRM_CLOSE_ATR = 0, NEW ch, NEW longer, Grown(ch, longer),
           NEW side \in Sides, Sweep(ch, side) # 0,
           Sweep(longer, side) = Sweep(ch, side), Ready(ch, side)
    PROVE  Ready(longer, side)
<1> DEFINE p == Sweep(ch, side)
           level == Level(ch, side, p)
           end(c) == Min({Len(c), p + LIQ_RECLAIM_CANDLES})
<1>1. ChartOK(ch) /\ ChartOK(longer) /\ Len(longer) = Len(ch) + 1
  BY DEF Grown
<1>2. Len(ch) \in Nat /\ LIQ_RECLAIM_CANDLES \in Nat /\ SWEEP_WINDOW \in Nat
  BY <1>1, ChartFacts, DetectorsAssumption
<1>3. p \in SWEEP_WINDOW + 1..Len(ch)
  <2>1. p \in Nat /\ p \in Searched(ch)
    <3>1. p \in Sweeps(ch, side) /\ p \in Nat
      BY <1>1, SweepIs
    <3> QED
      BY <3>1 DEF Sweeps
  <2>2. SWEEP_WINDOW < p /\ p <= Len(ch)
    BY <1>1, <2>1, SweepIs
  <2> HIDE DEF p
  <2> QED
    BY <1>2, <2>1, <2>2
<1>4. Level(longer, side, p) = level /\ level \in Int
  BY <1>1, <1>3, SweptStays, LevelWhole
<1>5. PICK c \in p + 1..end(ch) : Confirms(ch, side, level, ch[c])
  BY DEF Ready
<1> HIDE DEF p, level
<1>6. end(ch) \in Int /\ end(longer) \in Int /\ end(ch) <= end(longer) /\ end(ch) <= Len(ch)
  <2>1. /\ Len(ch) \in Int /\ Len(longer) \in Int /\ p + LIQ_RECLAIM_CANDLES \in Int
        /\ Len(ch) <= Len(longer)
    BY <1>1, <1>2, <1>3
  <2> DEFINE r == p + LIQ_RECLAIM_CANDLES
  <2> HIDE DEF r
  <2>2. /\ Min({Len(ch), r}) = IF Len(ch) <= r THEN Len(ch) ELSE r
        /\ Min({Len(longer), r}) = IF Len(longer) <= r THEN Len(longer) ELSE r
    BY <2>1, MaxOfTwo DEF r
  <2>3. r \in Int /\ end(ch) = Min({Len(ch), r}) /\ end(longer) = Min({Len(longer), r})
    BY <2>1 DEF r
  <2> HIDE DEF end
  <2> QED
    BY <2>1, <2>2, <2>3
<1> HIDE DEF end
<1>7. c \in p + 1..end(longer) /\ c \in 1..Len(ch)
  BY <1>2, <1>3, <1>5, <1>6
<1>8. longer[c] = ch[c] /\ ch[c] \in Candle
  BY <1>1, <1>7, ChartFacts DEF Grown
<1>9. Confirms(longer, side, level, longer[c])
  BY <1>1, <1>4, <1>5, <1>8, ConfirmsIs
<1>10. Ready(longer, side) <=>
         /\ p # 0
         /\ \E d \in p + 1..end(longer) : Confirms(longer, side, Level(longer, side, p), longer[d])
  BY DEF Ready, p, end
<1> QED
  BY <1>4, <1>7, <1>9, <1>10 DEF p

\* A chart always has a candle, and its candles are made of prices.
ChartInv == ChartOK(chart)

LEMMA CandleGrows ==
    ASSUME ChartInv, NEW k \in Kinds, CandleCloses(k)
    PROVE  Grown(chart, chart')
<1>1. ChartOK(chart) /\ chart' = Append(chart, Placed(Now(chart).c, k))
  BY DEF ChartInv, CandleCloses
<1>2. Now(chart) \in Candle
  BY <1>1, ChartFacts DEF Now
<1>3. Placed(Now(chart).c, k) \in Candle
  <2> DEFINE open == Now(chart).c
             p == Placed(open, k)
  <2>1. open \in Int /\ k.h \in Int /\ k.l \in Int /\ k.c \in Int /\ k.v \in Nat
    BY <1>2, ReadingAssumption DEF Candle
  <2>2. k.l <= Min({0, k.c}) /\ Max({0, k.c}) <= k.h
    BY ReadingAssumption
  <2>3. /\ p \in [o : Int, h : Int, l : Int, c : Int, v : Nat]
        /\ p.o = open /\ p.h = open + k.h /\ p.l = open + k.l /\ p.c = open + k.c
    BY <2>1 DEF Placed
  <2> HIDE DEF open, p
  <2>4. /\ Min({0, k.c}) = IF 0 <= k.c THEN 0 ELSE k.c
        /\ Max({0, k.c}) = IF 0 >= k.c THEN 0 ELSE k.c
        /\ Min({p.o, p.c}) = IF p.o <= p.c THEN p.o ELSE p.c
        /\ Max({p.o, p.c}) = IF p.o >= p.c THEN p.o ELSE p.c
    <3>1. 0 \in Int /\ k.c \in Int /\ p.o \in Int /\ p.c \in Int
      BY <2>1, <2>3
    <3> QED
      BY <3>1, MaxOfTwo
  <2>5. p \in Candle
    BY <2>1, <2>2, <2>3, <2>4 DEF Candle
  <2> QED
    BY <2>5 DEF open, p
<1> QED
  BY <1>1, <1>3, AppendProperties DEF Grown, ChartOK

LEMMA ChartHolds == Spec => []ChartInv
<1>1. Init => ChartInv
  BY ReadingAssumption DEF Init, ChartInv, ChartOK
<1>2. ChartInv /\ [Next]_readingVars => ChartInv'
  <2> SUFFICES ASSUME ChartInv, [Next]_readingVars PROVE ChartInv'
    OBVIOUS
  <2>1. ASSUME NEW k \in Kinds, CandleCloses(k) PROVE ChartInv'
    BY <2>1, CandleGrows DEF Grown, ChartInv
  <2>2. CASE UNCHANGED chart
    BY <2>2 DEF ChartInv
  <2>3. ASSUME NEW want \in Sides, NEW m \in Markets, Judge(want, m) PROVE UNCHANGED chart
    BY <2>3 DEF Judge
  <2>4. ScanEnds => UNCHANGED chart
    BY DEF ScanEnds
  <2> QED
    BY <2>1, <2>2, <2>3, <2>4 DEF Next, readingVars
<1> QED
  BY <1>1, <1>2, PTL DEF Spec

\* What a step that changes the chart may not do.
KeepsItsWord ==
    chart' # chart =>
        /\ \A s \in Pivots(chart) :
              s[2] > Offset(chart') + STRUCT_PIVOT_LEFT => s \in Pivots(chart')
        /\ \A s \in Pivots(chart') :
              s[2] <= Len(chart) - STRUCT_PIVOT_RIGHT => s \in Pivots(chart)
        /\ \A side \in Sides :
              LET p == Sweep(chart, side)
                  q == Sweep(chart', side) IN
              /\ p + SWEEP_SEARCH_CANDLES > Len(chart') /\ p # 0
                     => q \in {p, Len(chart')}
              /\ p = 0 => q \in {0, Len(chart')}
              /\ p # 0 /\ q = p /\ Ready(chart, side) => Ready(chart', side)

(* NoRepaint (market_structure.py:12, liquidity.py:21), with no buffer, as *)
(* it is configured (config.py:318): one in multiples of the ATR would be  *)
(* measured anew at every candle, by which a confirmation could go again.  *)
THEOREM NothingRepainted == LIQ_CONFIRM_CLOSE_ATR = 0 => (Spec => NoRepaint)
<1> SUFFICES ASSUME LIQ_CONFIRM_CLOSE_ATR = 0 PROVE Spec => NoRepaint
  OBVIOUS
<1>1. ChartInv /\ [Next]_readingVars => [KeepsItsWord]_readingVars
  <2> SUFFICES ASSUME ChartInv, Next, chart' # chart PROVE KeepsItsWord
    BY DEF KeepsItsWord
  <2>1. PICK k \in Kinds : CandleCloses(k)
    BY DEF Next, Judge, ScanEnds
  <2>2. Grown(chart, chart')
    BY <2>1, CandleGrows
  <2>3. \A side \in Sides :
          Sweep(chart, side) # 0 /\ Sweep(chart', side) = Sweep(chart, side)
              /\ Ready(chart, side) => Ready(chart', side)
    BY <2>2, ReadyKeeps
  <2> QED
    BY <2>2, <2>3, PivotsKeep, SweepKeeps DEF KeepsItsWord
<1> QED
  BY <1>1, ChartHolds, PTL DEF Spec, NoRepaint, KeepsItsWord

-----------------------------------------------------------------------------
(* A chart turned upside down.                                             *)

\* What prices are turned from.
Turn == 2 * Axis

LEMMA TurnWhole == Turn \in Int
  BY ReadingAssumption DEF Turn

(* A candle closes and opens between its low and its high. *)
LEMMA CandleFacts ==
    ASSUME NEW k \in Candle
    PROVE  /\ k.o \in Int /\ k.h \in Int /\ k.l \in Int /\ k.c \in Int /\ k.v \in Nat
           /\ k.l <= k.o /\ k.l <= k.c /\ k.o <= k.h /\ k.c <= k.h
<1>1. /\ k.o \in Int /\ k.h \in Int /\ k.l \in Int /\ k.c \in Int /\ k.v \in Nat
      /\ k.l <= Min({k.o, k.c}) /\ Max({k.o, k.c}) <= k.h
  BY DEF Candle
<1>2. /\ Min({k.o, k.c}) = IF k.o <= k.c THEN k.o ELSE k.c
      /\ Max({k.o, k.c}) = IF k.o >= k.c THEN k.o ELSE k.c
  BY <1>1, MaxOfTwo
<1> QED
  BY <1>1, <1>2

(* A candle turned is one, its wicks the other way round. *)
LEMMA TurnedFacts ==
    ASSUME NEW k \in Candle
    PROVE  LET t == TurnedCandle(k) IN
           /\ t \in Candle
           /\ t.o = Turn - k.o /\ t.h = Turn - k.l /\ t.l = Turn - k.h
           /\ t.c = Turn - k.c /\ t.v = k.v
           /\ TurnedCandle(t) = k
           /\ Body(t) = Body(k) /\ Body(k) \in Nat
           /\ UpperWick(t) = LowerWick(k) /\ LowerWick(t) = UpperWick(k)
           /\ UpperWick(k) \in Nat /\ LowerWick(k) \in Nat
           /\ k.c # k.o => Colour(t) = OtherSide(Colour(k))
<1> DEFINE t == TurnedCandle(k)
<1>1. /\ k.o \in Int /\ k.h \in Int /\ k.l \in Int /\ k.c \in Int /\ k.v \in Nat
      /\ k.l <= k.o /\ k.l <= k.c /\ k.o <= k.h /\ k.c <= k.h
  BY CandleFacts
<1>2. /\ t.o = Turn - k.o /\ t.h = Turn - k.l /\ t.l = Turn - k.h
      /\ t.c = Turn - k.c /\ t.v = k.v
      /\ t \in [o : Int, h : Int, l : Int, c : Int, v : Nat]
  BY <1>1, TurnWhole DEF TurnedCandle, Turn
<1>3. /\ Min({k.o, k.c}) = IF k.o <= k.c THEN k.o ELSE k.c
      /\ Max({k.o, k.c}) = IF k.o >= k.c THEN k.o ELSE k.c
      /\ Min({t.o, t.c}) = IF t.o <= t.c THEN t.o ELSE t.c
      /\ Max({t.o, t.c}) = IF t.o >= t.c THEN t.o ELSE t.c
  BY <1>1, <1>2, MaxOfTwo, TurnWhole, ZenonT(40)
<1>4. t \in Candle
  BY <1>1, <1>2, <1>3, TurnWhole DEF Candle
<1>5. TurnedCandle(t) = k
  <2>1. k = [o |-> k.o, h |-> k.h, l |-> k.l, c |-> k.c, v |-> k.v]
    BY DEF Candle
  <2>2. /\ Turn - t.o = k.o /\ Turn - t.l = k.h /\ Turn - t.h = k.l
        /\ Turn - t.c = k.c /\ t.v = k.v
    BY <1>1, <1>2, TurnWhole
  <2>3. TurnedCandle(t) = [o |-> Turn - t.o, h |-> Turn - t.l, l |-> Turn - t.h,
                           c |-> Turn - t.c, v |-> t.v]
    BY DEF TurnedCandle, Turn
  <2> HIDE DEF t
  <2> QED
    BY <2>1, <2>2, <2>3
<1> HIDE DEF t
<1>6. Body(t) = Body(k) /\ Body(k) \in Nat
  BY <1>1, <1>2, TurnWhole DEF Body, Size
<1>7. /\ UpperWick(t) = LowerWick(k) /\ LowerWick(t) = UpperWick(k)
      /\ UpperWick(k) \in Nat /\ LowerWick(k) \in Nat
  BY <1>1, <1>2, <1>3, TurnWhole DEF UpperWick, LowerWick
<1>8. k.c # k.o => Colour(t) = OtherSide(Colour(k))
  BY <1>1, <1>2, TurnWhole DEF Colour, OtherSide
<1> QED
  BY <1>2, <1>4, <1>5, <1>6, <1>7, <1>8 DEF t

\* The chart tc is the chart ch turned upside down.
Mirror(ch, tc) ==
    /\ ChartOK(ch) /\ ChartOK(tc)
    /\ Len(tc) = Len(ch)
    /\ \A i \in 1..Len(ch) : tc[i] = TurnedCandle(ch[i])

(* Then the other is the one turned. *)
LEMMA MirrorBack ==
    ASSUME NEW ch, NEW tc, Mirror(ch, tc)
    PROVE  Mirror(tc, ch)
<1>1. \A i \in 1..Len(ch) : ch[i] = TurnedCandle(tc[i])
  BY ChartFacts, TurnedFacts DEF Mirror
<1> QED
  BY <1>1 DEF Mirror

(* The candles of either chart, price by price. *)
LEMMA MirrorFacts ==
    ASSUME NEW ch, NEW tc, Mirror(ch, tc)
    PROVE  /\ Len(ch) \in Nat \ {0} /\ Len(tc) = Len(ch)
           /\ DOMAIN ch = 1..Len(ch) /\ DOMAIN tc = 1..Len(ch)
           /\ \A i \in 1..Len(ch) :
                /\ ch[i] \in Candle /\ tc[i] \in Candle
                /\ ch[i].o \in Int /\ ch[i].h \in Int /\ ch[i].l \in Int
                /\ ch[i].c \in Int /\ ch[i].v \in Nat
                /\ ch[i].l <= ch[i].c /\ ch[i].c <= ch[i].h
                /\ ch[i].l <= ch[i].o /\ ch[i].o <= ch[i].h
                /\ tc[i].o = Turn - ch[i].o /\ tc[i].c = Turn - ch[i].c
                /\ tc[i].h = Turn - ch[i].l /\ tc[i].l = Turn - ch[i].h
                /\ tc[i].v = ch[i].v
<1>1. Len(ch) \in Nat \ {0} /\ DOMAIN ch = 1..Len(ch) /\ DOMAIN tc = 1..Len(ch)
  BY ChartFacts DEF Mirror
<1>2. ASSUME NEW i \in 1..Len(ch)
      PROVE  ch[i] \in Candle /\ tc[i] \in Candle /\ tc[i] = TurnedCandle(ch[i])
  BY ChartFacts DEF Mirror
<1> QED
  BY <1>1, <1>2, CandleFacts, TurnedFacts DEF Mirror

LEMMA MirrorWindow ==
    ASSUME NEW ch, NEW tc, Mirror(ch, tc), NEW k \in Nat \ {0}
    PROVE  Mirror(Window(ch, k), Window(tc, k))
<1> DEFINE w == Window(ch, k)
           t == Window(tc, k)
           off == IF Len(ch) > k THEN Len(ch) - k ELSE 0
<1>1. Len(ch) \in Nat /\ Len(tc) = Len(ch)
  BY MirrorFacts
<1>2. /\ ChartOK(w) /\ Len(w) = Len(ch) - off
      /\ \A i \in 1..Len(w) : w[i] = ch[i + off]
  BY WindowFacts DEF Mirror
<1>3. /\ ChartOK(t) /\ Len(t) = Len(ch) - off
      /\ \A i \in 1..Len(t) : t[i] = tc[i + off]
  BY <1>1, WindowFacts DEF Mirror
<1>4. off \in Nat
  BY <1>1
<1> HIDE DEF w, t, off
<1>5. \A i \in 1..Len(w) : i + off \in 1..Len(ch)
  BY <1>1, <1>2, <1>4
<1> QED
  BY <1>2, <1>3, <1>5 DEF Mirror, w, t

LEMMA MirrorNow ==
    ASSUME NEW ch, NEW tc, Mirror(ch, tc)
    PROVE  /\ Len(ch) \in 1..Len(ch)
           /\ Now(ch) = ch[Len(ch)] /\ Now(tc) = tc[Len(ch)]
           /\ Now(ch) \in Candle /\ Now(tc) = TurnedCandle(Now(ch))
           /\ Now(ch).c \in Int /\ Now(tc).c = Turn - Now(ch).c
  BY MirrorFacts, TurnedFacts DEF Now, Mirror

-----------------------------------------------------------------------------
(* The scale of a chart is that of the chart turned.                       *)

LEMMA MirrorVolume ==
    ASSUME NEW ch, NEW tc, Mirror(ch, tc), NEW S \in SUBSET (1..Len(ch))
    PROVE  VolumeOf(tc, S) = VolumeOf(ch, S)
<1> DEFINE any(s) == CHOOSE x \in s : TRUE
           step(c, f) == [s \in SUBSET S |->
                            IF s = {} THEN 0 ELSE c[any(s)].v + f[s \ {any(s)}]]
<1>1. VolumeOf(ch, S) = (CHOOSE f : f = step(ch, f))[S]
  BY Zenon DEF VolumeOf, MapThenSumSet, MapThenFoldSet
<1>2. VolumeOf(tc, S) = (CHOOSE f : f = step(tc, f))[S]
  BY Zenon DEF VolumeOf, MapThenSumSet, MapThenFoldSet
<1>3. \A f : step(ch, f) = step(tc, f)
  <2> TAKE f
  <2>1. \A s \in SUBSET S : s # {} => tc[any(s)].v = ch[any(s)].v
    <3> SUFFICES ASSUME NEW s \in SUBSET S, s # {} PROVE tc[any(s)].v = ch[any(s)].v
      OBVIOUS
    <3>1. any(s) \in 1..Len(ch)
      OBVIOUS
    <3> HIDE DEF any
    <3> QED
      BY <3>1, MirrorFacts
  <2> HIDE DEF any
  <2> QED
    BY <2>1
<1>4. (CHOOSE f : f = step(ch, f)) = (CHOOSE f : f = step(tc, f))
  <2> HIDE DEF step
  <2> QED
    BY <1>3, Zenon
<1> QED
  BY <1>1, <1>2, <1>4, Zenon

LEMMA MirrorRange ==
    ASSUME NEW ch, NEW tc, Mirror(ch, tc), NEW i \in 1..Len(ch)
    PROVE  TrueRange(tc, i) = TrueRange(ch, i)
<1> DEFINE k == ch[i]
           t == tc[i]
<1>1. /\ k.h \in Int /\ k.l \in Int
      /\ t.h = Turn - k.l /\ t.l = Turn - k.h
  BY MirrorFacts
<1>2. t.h - t.l = k.h - k.l
  BY <1>1, TurnWhole
<1>3. CASE i = 1
  BY <1>2, <1>3 DEF TrueRange
<1>4. CASE i # 1
  <2> DEFINE p == ch[i - 1].c
             q == tc[i - 1].c
  <2>1. p \in Int /\ q = Turn - p
    <3>1. i - 1 \in 1..Len(ch)
      BY <1>4, MirrorFacts
    <3> QED
      BY <3>1, MirrorFacts
  <2> HIDE DEF p, q, k, t
  <2>2. Size(t.h - q) = Size(k.l - p) /\ Size(t.l - q) = Size(k.h - p)
    <3>1. t.h - q = -(k.l - p) /\ t.l - q = -(k.h - p) /\ k.l - p \in Int /\ k.h - p \in Int
      BY <1>1, <2>1, TurnWhole
    <3>2. \A x \in Int : Size(-x) = Size(x)
      BY DEF Size
    <3> DEFINE x == k.l - p
               y == k.h - p
    <3> HIDE DEF x, y
    <3>3. x \in Int /\ y \in Int /\ t.h - q = -x /\ t.l - q = -y
      BY <3>1 DEF x, y
    <3> QED
      BY <3>2, <3>3 DEF x, y
  <2>3. {t.h - t.l, Size(t.h - q), Size(t.l - q)} = {k.h - k.l, Size(k.h - p), Size(k.l - p)}
    BY <1>2, <2>2
  <2> QED
    BY <1>4, <2>3 DEF TrueRange, p, q, k, t
<1> QED
  BY <1>3, <1>4

(* The candles an ATR is taken over are of the chart. *)
LEMMA AtrSpan ==
    ASSUME NEW ch, ChartOK(ch)
    PROVE  Len(ch) - AtrCount(ch) + 1 .. Len(ch) \subseteq 1..Len(ch)
<1>1. Len(ch) \in Nat /\ AtrCount(ch) \in Nat \ {0}
  BY ChartFacts, AtrSumWhole
<1>2. AtrCount(ch) = IF Len(ch) <= STRUCT_ATR_LENGTH THEN Len(ch) ELSE STRUCT_ATR_LENGTH
  <2>1. Len(ch) \in Int /\ STRUCT_ATR_LENGTH \in Int
    BY <1>1, CandlesAssumption
  <2>2. Min({Len(ch), STRUCT_ATR_LENGTH}) =
          IF Len(ch) <= STRUCT_ATR_LENGTH THEN Len(ch) ELSE STRUCT_ATR_LENGTH
    BY <2>1, MaxOfTwo
  <2> QED
    BY <2>2 DEF AtrCount
<1> QED
  BY <1>1, <1>2, CandlesAssumption

LEMMA MirrorAtr ==
    ASSUME NEW ch, NEW tc, Mirror(ch, tc)
    PROVE  /\ AtrCount(tc) = AtrCount(ch) /\ AtrSum(tc) = AtrSum(ch)
           /\ AtrSum(ch) \in Int /\ AtrCount(ch) \in Nat \ {0}
           /\ \A d, percent : Exceeds(tc, d, percent) <=> Exceeds(ch, d, percent)
<1> DEFINE S == Len(ch) - AtrCount(ch) + 1 .. Len(ch)
           any(s) == CHOOSE x \in s : TRUE
           step(c, f) == [s \in SUBSET S |->
                            IF s = {} THEN 0 ELSE TrueRange(c, any(s)) + f[s \ {any(s)}]]
<1>1. AtrCount(tc) = AtrCount(ch)
  BY DEF AtrCount, Mirror
<1>2. S \subseteq 1..Len(ch)
  BY AtrSpan DEF Mirror
<1>3. AtrSum(ch) = (CHOOSE f : f = step(ch, f))[S]
  BY Zenon DEF AtrSum, MapThenSumSet, MapThenFoldSet
<1>4. AtrSum(tc) = (CHOOSE f : f = step(tc, f))[S]
  <2>1. Len(tc) - AtrCount(tc) + 1 .. Len(tc) = S
    BY <1>1 DEF Mirror
  <2>2. AtrSum(tc) = MapThenSumSet(LAMBDA i : TrueRange(tc, i), S)
    BY <2>1, Zenon DEF AtrSum
  <2> QED
    BY <2>2, Zenon DEF MapThenSumSet, MapThenFoldSet
<1> HIDE DEF S
<1>5. \A f : step(ch, f) = step(tc, f)
  <2> TAKE f
  <2>1. \A s \in SUBSET S : s # {} => TrueRange(tc, any(s)) = TrueRange(ch, any(s))
    <3> SUFFICES ASSUME NEW s \in SUBSET S, s # {}
                 PROVE  TrueRange(tc, any(s)) = TrueRange(ch, any(s))
      OBVIOUS
    <3>1. any(s) \in 1..Len(ch)
      BY <1>2
    <3> HIDE DEF any
    <3> QED
      BY <3>1, MirrorRange
  <2> HIDE DEF any
  <2> QED
    BY <2>1
<1>6. (CHOOSE f : f = step(ch, f)) = (CHOOSE f : f = step(tc, f))
  <2> HIDE DEF step
  <2> QED
    BY <1>5, Zenon
<1>7. AtrSum(tc) = AtrSum(ch)
  BY <1>3, <1>4, <1>6, Zenon
<1>8. \A d, percent : Exceeds(tc, d, percent) <=> Exceeds(ch, d, percent)
  BY <1>1, <1>7 DEF Exceeds
<1> QED
  BY <1>1, <1>7, <1>8, AtrSumWhole DEF Mirror

(* A distance that is more than so much of the ATR is so if it is longer. *)
LEMMA ExceedsMore ==
    ASSUME NEW ch, ChartOK(ch), NEW d \in Int, NEW e \in Int, d <= e, NEW percent \in Nat,
           Exceeds(ch, d, percent)
    PROVE  Exceeds(ch, e, percent)
<1> DEFINE n == AtrCount(ch)
           sum == AtrSum(ch)
           x == 100 * n * d
           y == 100 * n * e
           z == percent * sum
<1>1. n \in Nat /\ sum \in Int
  BY AtrSumWhole
<1> HIDE DEF n, sum
<1>2. x \in Int /\ y \in Int /\ z \in Int
  BY <1>1, SMT
<1>3. (100 * n) * (e - d) >= 0 /\ (100 * n) * (e - d) = y - x
  BY <1>1, SMT
<1>4. x <= y
  BY <1>2, <1>3, SMT
<1>5. (Exceeds(ch, d, percent) <=> x > z) /\ (Exceeds(ch, e, percent) <=> y > z)
  BY DEF Exceeds, n, sum
<1> HIDE DEF x, y, z
<1> QED
  BY <1>2, <1>4, <1>5

-----------------------------------------------------------------------------
(* Extremes of finite sets of prices.                                      *)

(* A finite set of whole numbers that is not empty has a least one, and a *)
(* greatest: if it had for sizes up to some only, one larger would have.   *)
LEMMA Extremes ==
    ASSUME NEW S \in SUBSET Int, IsFiniteSet(S), S # {}
    PROVE  /\ Min(S) \in S /\ \A x \in S : Min(S) <= x
           /\ Max(S) \in S /\ \A x \in S : x <= Max(S)
<1> DEFINE has(T) == (\E m \in T : \A x \in T : m <= x) /\ (\E m \in T : \A x \in T : x <= m)
           bad == {n \in Nat : \E T \in SUBSET S : T # {} /\ Cardinality(T) = n /\ ~has(T)}
<1>1. \A T \in SUBSET S : IsFiniteSet(T) /\ Cardinality(T) \in Nat
  BY FS_Subset, FS_CardinalityType
<1>2. bad = {}
  <2> SUFFICES ASSUME bad # {} PROVE FALSE
    OBVIOUS
  <2> DEFINE n == Min(bad)
  <2>1. n \in bad /\ \A k \in bad : n <= k
    BY LeastOf
  <2> HIDE DEF n
  <2>2. PICK T \in SUBSET S : T # {} /\ Cardinality(T) = n /\ ~has(T)
    BY <2>1
  <2>3. PICK a \in T : TRUE
    BY <2>2
  <2> DEFINE R == T \ {a}
  <2>4. R \in SUBSET S /\ Cardinality(R) = n - 1 /\ Cardinality(R) \in Nat
    BY <1>1, <2>2, <2>3, FS_RemoveElement
  <2>5. T = R \cup {a} /\ a \in Int /\ R \in SUBSET Int
    BY <2>3
  <2> HIDE DEF R
  <2>6. R # {}
    <3> SUFFICES ASSUME R = {} PROVE FALSE
      OBVIOUS
    <3>1. T = {a}
      BY <2>5
    <3> QED
      BY <2>2, <2>5, <3>1
  <2>7. has(R)
    <3>1. n - 1 \notin bad
      BY <2>1, <2>4
    <3> HIDE DEF has
    <3> QED
      BY <2>4, <2>6, <3>1
  <2>8. has(T)
    <3>1. PICK m \in R : \A x \in R : m <= x
      BY <2>7
    <3>2. PICK k \in R : \A x \in R : x <= k
      BY <2>7
    <3>3. m \in Int /\ k \in Int
      BY <2>5, <3>1, <3>2
    <3>4. \E u \in T : \A x \in T : u <= x
      <4>1. CASE m <= a
        BY <2>5, <3>1, <4>1
      <4>2. CASE ~(m <= a)
        <5>1. \A x \in R : a <= x
          BY <2>5, <3>1, <3>3, <4>2
        <5> QED
          BY <2>5, <5>1
      <4> QED
        BY <4>1, <4>2
    <3>5. \E u \in T : \A x \in T : x <= u
      <4>1. CASE a <= k
        BY <2>5, <3>2, <4>1
      <4>2. CASE ~(a <= k)
        <5>1. \A x \in R : x <= a
          BY <2>5, <3>2, <3>3, <4>2
        <5> QED
          BY <2>5, <5>1
      <4> QED
        BY <4>1, <4>2
    <3> QED
      BY <3>4, <3>5
  <2> QED
    BY <2>2, <2>8
<1>3. has(S)
  <2> DEFINE n == Cardinality(S)
  <2>1. n \in Nat /\ n \notin bad
    BY <1>1, <1>2
  <2> HIDE DEF has
  <2> QED
    BY <2>1
<1>4. Min(S) \in S /\ \A x \in S : Min(S) <= x
  BY <1>3 DEF Min
<1>5. Max(S) \in S /\ \A x \in S : x <= Max(S)
  BY <1>3 DEF Max
<1> QED
  BY <1>4, <1>5

\* The prices of a set, turned.
Flip(S) == {Turn - x : x \in S}

(* The least of them is the greatest turned, and the other way round. *)
LEMMA FlipExtremes ==
    ASSUME NEW S \in SUBSET Int, IsFiniteSet(S), S # {}
    PROVE  /\ Flip(S) \in SUBSET Int /\ IsFiniteSet(Flip(S)) /\ Flip(S) # {}
           /\ Min(Flip(S)) = Turn - Max(S) /\ Max(Flip(S)) = Turn - Min(S)
           /\ Min(S) \in Int /\ Max(S) \in Int
<1>1. /\ Min(S) \in S /\ \A x \in S : Min(S) <= x
      /\ Max(S) \in S /\ \A x \in S : x <= Max(S)
  BY Extremes
<1>2. Flip(S) \in SUBSET Int /\ Flip(S) # {}
  <2>1. Turn - Max(S) \in Flip(S)
    BY <1>1 DEF Flip
  <2>2. \A x \in S : Turn - x \in Int
    BY TurnWhole
  <2> QED
    BY <2>1, <2>2 DEF Flip
<1>3. IsFiniteSet(Flip(S))
  <2> DEFINE f == [x \in S |-> Turn - x]
  <2>1. f \in Surjection(S, Flip(S))
    BY DEF Surjection, Flip
  <2> QED
    BY <2>1, FS_Surjection
<1>4. /\ Min(Flip(S)) \in Flip(S) /\ \A x \in Flip(S) : Min(Flip(S)) <= x
      /\ Max(Flip(S)) \in Flip(S) /\ \A x \in Flip(S) : x <= Max(Flip(S))
  BY <1>2, <1>3, Extremes
<1>5. \A x \in S : x \in Int /\ Turn - x \in Flip(S)
  BY DEF Flip
<1>6. Min(Flip(S)) = Turn - Max(S)
  <2>1. PICK x \in S : Min(Flip(S)) = Turn - x
    BY <1>4 DEF Flip
  <2>2. Min(Flip(S)) <= Turn - Max(S) /\ x <= Max(S)
    BY <1>1, <1>4, <1>5
  <2>3. x \in Int /\ Max(S) \in Int
    BY <1>1, <1>5, <2>1
  <2> QED
    BY <2>1, <2>2, <2>3, TurnWhole
<1>7. Max(Flip(S)) = Turn - Min(S)
  <2>1. PICK x \in S : Max(Flip(S)) = Turn - x
    BY <1>4 DEF Flip
  <2>2. Turn - Min(S) <= Max(Flip(S)) /\ Min(S) <= x
    BY <1>1, <1>4, <1>5
  <2>3. x \in Int /\ Min(S) \in Int
    BY <1>1, <1>5, <2>1
  <2> QED
    BY <2>1, <2>2, <2>3, TurnWhole
<1> QED
  BY <1>1, <1>2, <1>3, <1>5, <1>6, <1>7

(* The prices of the candles of a set, and those of the turned chart. *)
LEMMA MirrorPrices ==
    ASSUME NEW ch, NEW tc, Mirror(ch, tc), NEW S \in SUBSET (1..Len(ch))
    PROVE  /\ HighsOf(tc, S) = Flip(LowsOf(ch, S))
           /\ LowsOf(tc, S) = Flip(HighsOf(ch, S))
           /\ LowsOf(ch, S) \in SUBSET Int /\ IsFiniteSet(LowsOf(ch, S))
           /\ HighsOf(ch, S) \in SUBSET Int /\ IsFiniteSet(HighsOf(ch, S))
           /\ S # {} => LowsOf(ch, S) # {} /\ HighsOf(ch, S) # {}
<1>1. \A i \in S : /\ ch[i].h \in Int /\ ch[i].l \in Int
                   /\ tc[i].h = Turn - ch[i].l /\ tc[i].l = Turn - ch[i].h
  BY MirrorFacts
<1>2. HighsOf(tc, S) = Flip(LowsOf(ch, S)) /\ LowsOf(tc, S) = Flip(HighsOf(ch, S))
  BY <1>1 DEF HighsOf, LowsOf, Flip
<1>3. IsFiniteSet(S)
  <2>1. Len(ch) \in Int /\ 1 \in Int
    BY MirrorFacts
  <2>2. IsFiniteSet(1..Len(ch))
    BY <2>1, FS_Interval
  <2> QED
    BY <2>2, FS_Subset
<1>4. IsFiniteSet(LowsOf(ch, S)) /\ IsFiniteSet(HighsOf(ch, S))
  <2> DEFINE f == [i \in S |-> ch[i].l]
             g == [i \in S |-> ch[i].h]
  <2>1. f \in Surjection(S, LowsOf(ch, S)) /\ g \in Surjection(S, HighsOf(ch, S))
    BY DEF Surjection, LowsOf, HighsOf
  <2> QED
    BY <1>3, <2>1, FS_Surjection
<1>5. LowsOf(ch, S) \in SUBSET Int /\ HighsOf(ch, S) \in SUBSET Int
  BY <1>1 DEF HighsOf, LowsOf
<1>6. S # {} => LowsOf(ch, S) # {} /\ HighsOf(ch, S) # {}
  BY DEF HighsOf, LowsOf
<1> QED
  BY <1>2, <1>4, <1>5, <1>6

-----------------------------------------------------------------------------
(* The structure of a chart turned.                                        *)

LEMMA SwingHighsTurned ==
    ASSUME NEW ch, NEW tc, Mirror(ch, tc)
    PROVE  SwingHighs(tc) = SwingLows(ch) /\ SwingHighs(ch) \subseteq 1..Len(ch)
<1>1. Confirmed(tc) = Confirmed(ch)
  BY DEF Confirmed, Mirror
<1>2. Confirmed(ch) \subseteq 1..Len(ch)
  BY StructureAssumption, MirrorFacts DEF Confirmed
<1>3. ASSUME NEW i \in Confirmed(ch)
      PROVE  /\ Around(tc, i) = Around(ch, i) /\ Around(ch, i) \subseteq 1..Len(ch)
             /\ \A j \in Around(ch, i) : tc[j].h < tc[i].h <=> ch[j].l > ch[i].l
  <2>1. Around(tc, i) = Around(ch, i) /\ Around(ch, i) \subseteq 1..Len(ch)
    BY MirrorFacts DEF Around
  <2>2. ASSUME NEW j \in Around(ch, i) PROVE tc[j].h < tc[i].h <=> ch[j].l > ch[i].l
    <3>1. /\ ch[j].l \in Int /\ tc[j].h = Turn - ch[j].l
          /\ ch[i].l \in Int /\ tc[i].h = Turn - ch[i].l
      BY <1>2, <2>1, MirrorFacts
    <3> QED
      BY <3>1, TurnWhole
  <2> QED
    BY <2>1, <2>2
<1>4. \A i \in Confirmed(ch) :
        (\A j \in Around(tc, i) : tc[j].h < tc[i].h) <=> (\A j \in Around(ch, i) : ch[j].l > ch[i].l)
  BY <1>3
<1>5. SwingHighs(tc) = SwingLows(ch)
  BY <1>1, <1>4 DEF SwingHighs, SwingLows
<1>6. SwingHighs(ch) \subseteq 1..Len(ch)
  BY <1>2 DEF SwingHighs
<1> QED
  BY <1>5, <1>6

(* What was a swing high is a swing low. *)
LEMMA MirrorSwings ==
    ASSUME NEW ch, NEW tc, Mirror(ch, tc)
    PROVE  /\ SwingHighs(tc) = SwingLows(ch) /\ SwingLows(tc) = SwingHighs(ch)
           /\ SwingHighs(ch) \in SUBSET (1..Len(ch)) /\ SwingLows(ch) \in SUBSET (1..Len(ch))
           /\ IsFiniteSet(SwingHighs(ch)) /\ IsFiniteSet(SwingLows(ch))
<1>1. Mirror(tc, ch) /\ Len(tc) = Len(ch) /\ Len(ch) \in Nat
  BY MirrorBack, MirrorFacts
<1>2. /\ SwingHighs(tc) = SwingLows(ch) /\ SwingHighs(ch) \subseteq 1..Len(ch)
      /\ SwingHighs(ch) = SwingLows(tc) /\ SwingHighs(tc) \subseteq 1..Len(ch)
  BY <1>1, SwingHighsTurned
<1>3. IsFiniteSet(1..Len(ch))
  <2>1. 1 \in Int /\ Len(ch) \in Int
    BY <1>1
  <2> QED
    BY <2>1, FS_Interval
<1> QED
  BY <1>2, <1>3, FS_Subset

\* The number of the swing on the other end of the same candle.
Mate(s) == IF s % 2 = 0 THEN s + 1 ELSE s - 1
Mates(S) == {Mate(s) : s \in S}

LEMMA MateFacts ==
    ASSUME NEW s \in Nat
    PROVE  /\ Mate(s) \in Nat /\ Mate(Mate(s)) = s
           /\ s % 2 = 0 \/ s % 2 = 1
           /\ Mate(s) % 2 = 0 <=> s % 2 = 1
           /\ Mate(s) % 2 = 1 <=> s % 2 = 0
           /\ s \div 2 = Mate(s) \div 2
           /\ s % 2 = 0 => Mate(s) = s + 1
           /\ s % 2 = 1 => Mate(s) = s - 1
<1>1. PICK i \in Nat : s = 2 * i \/ s = 2 * i + 1
  <2>1. s \div 2 \in Nat /\ (s = 2 * (s \div 2) \/ s = 2 * (s \div 2) + 1)
    BY SMT
  <2> QED
    BY <2>1
<1>2. /\ (2 * i) % 2 = 0 /\ (2 * i) \div 2 = i
      /\ (2 * i + 1) % 2 = 1 /\ (2 * i + 1) \div 2 = i
  BY SMT
<1>3. CASE s = 2 * i
  <2>1. Mate(s) = 2 * i + 1
    BY <1>2, <1>3 DEF Mate
  <2>2. Mate(2 * i + 1) = 2 * i
    BY <1>2 DEF Mate
  <2> QED
    BY <1>2, <1>3, <2>1, <2>2
<1>4. CASE s = 2 * i + 1
  <2>1. Mate(s) = 2 * i
    BY <1>2, <1>4 DEF Mate
  <2>2. Mate(2 * i) = 2 * i + 1
    BY <1>2 DEF Mate
  <2> QED
    BY <1>2, <1>4, <2>1, <2>2
<1> QED
  BY <1>1, <1>3, <1>4

(* As many swings have mates as there are. *)
LEMMA MatesCount ==
    ASSUME NEW S \in SUBSET Nat, IsFiniteSet(S)
    PROVE  /\ Mates(S) \in SUBSET Nat /\ IsFiniteSet(Mates(S))
           /\ Cardinality(Mates(S)) = Cardinality(S)
           /\ Highs(Mates(S)) = Mates(Lows(S)) /\ Lows(Mates(S)) = Mates(Highs(S))
           /\ \A s \in Nat : Mate(s) \in Mates(S) <=> s \in S
           /\ \A s \in Nat : s \in Mates(S) <=> Mate(s) \in S
           /\ \A x \in S : Mates(S) \ {Mate(x)} = Mates(S \ {x})
<1>1. \A s \in S : Mate(s) \in Nat /\ Mate(Mate(s)) = s
  BY MateFacts
<1>2. Mates(S) \in SUBSET Nat
  BY <1>1 DEF Mates
<1>3. IsFiniteSet(Mates(S)) /\ Cardinality(Mates(S)) = Cardinality(S)
  <2> DEFINE f == [s \in S |-> Mate(s)]
  <2>1. f \in Bijection(S, Mates(S))
    <3>1. f \in [S -> Mates(S)]
      BY DEF Mates
    <3>2. ASSUME NEW a \in S, NEW b \in S, f[a] = f[b] PROVE a = b
      BY <1>1, <3>2
    <3>3. \A t \in Mates(S) : \E s \in S : f[s] = t
      BY DEF Mates
    <3> HIDE DEF f
    <3> QED
      BY <3>1, <3>2, <3>3 DEF Bijection, Injection, IsInjective, Surjection
  <2>2. ExistsBijection(S, Mates(S))
    BY <2>1 DEF ExistsBijection
  <2> QED
    BY <2>2, FS_Bijection
<1>4. Highs(Mates(S)) = Mates(Lows(S)) /\ Lows(Mates(S)) = Mates(Highs(S))
  <2>1. \A s \in S : /\ Mate(s) % 2 = 0 <=> s % 2 = 1
                     /\ Mate(s) % 2 = 1 <=> s % 2 = 0
    BY MateFacts
  <2> QED
    BY <2>1, Zenon DEF Highs, Lows, Mates
<1>5. \A s \in Nat : Mate(s) \in Mates(S) <=> s \in S
  <2> TAKE s \in Nat
  <2>1. ASSUME Mate(s) \in Mates(S) PROVE s \in S
    <3>1. PICK u \in S : Mate(s) = Mate(u)
      BY <2>1 DEF Mates
    <3>2. Mate(Mate(s)) = s /\ Mate(Mate(u)) = u
      BY MateFacts
    <3> QED
      BY <3>1, <3>2
  <2> QED
    BY <2>1 DEF Mates
<1>6. \A s \in Nat : s \in Mates(S) <=> Mate(s) \in S
  <2> TAKE s \in Nat
  <2>1. Mate(s) \in Nat /\ Mate(Mate(s)) = s
    BY MateFacts
  <2> QED
    BY <1>5, <2>1
<1>7. \A x \in S : Mates(S) \ {Mate(x)} = Mates(S \ {x})
  BY <1>1, Zenon DEF Mates
<1> QED
  BY <1>2, <1>3, <1>4, <1>5, <1>6, <1>7

(* The last of swings that are all highs, or all lows. *)
LEMMA MatesLast ==
    ASSUME NEW S \in SUBSET Nat, IsFiniteSet(S), S # {}, NEW r, \A s \in S : s % 2 = r
    PROVE  Max(S) \in S /\ Max(Mates(S)) = Mate(Max(S))
<1>1. /\ Max(S) \in S /\ \A x \in S : x <= Max(S)
  <2>1. S \in SUBSET Int
    OBVIOUS
  <2> QED
    BY <2>1, Extremes
<1>2. Mates(S) \in SUBSET Nat /\ IsFiniteSet(Mates(S)) /\ Mates(S) # {}
  BY <1>1, MatesCount DEF Mates
<1>3. Max(Mates(S)) \in Mates(S) /\ \A x \in Mates(S) : x <= Max(Mates(S))
  <2>1. Mates(S) \in SUBSET Int
    BY <1>2
  <2> QED
    BY <1>2, <2>1, Extremes
<1>4. PICK u \in S : Max(Mates(S)) = Mate(u)
  BY <1>3 DEF Mates
<1>5. Mate(Max(S)) <= Mate(u)
  BY <1>1, <1>3, <1>4 DEF Mates
<1>6. u % 2 = Max(S) % 2 /\ u <= Max(S) /\ u \in Nat /\ Max(S) \in Nat
  BY <1>1
<1>7. u = Max(S)
  <2> DEFINE m == Max(S)
  <2> HIDE DEF m
  <2>1. /\ u % 2 = 0 \/ u % 2 = 1
        /\ u % 2 = 0 => Mate(u) = u + 1
        /\ u % 2 = 1 => Mate(u) = u - 1
        /\ m % 2 = 0 => Mate(m) = m + 1
        /\ m % 2 = 1 => Mate(m) = m - 1
    BY <1>6, MateFacts DEF m
  <2>2. Mate(m) <= Mate(u) /\ u % 2 = m % 2 /\ u <= m /\ u \in Nat /\ m \in Nat
    BY <1>5, <1>6 DEF m
  <2>3. u = m
    BY <2>1, <2>2
  <2> QED
    BY <2>3 DEF m
<1> QED
  BY <1>1, <1>4, <1>7

(* The last swings of the turned chart are the mates of the last swings,   *)
(* but where they end between the high and the low of one candle.          *)
LEMMA MatesRecent ==
    ASSUME NEW S \in SUBSET Nat, IsFiniteSet(S), NEW n \in Nat,
           \A i \in Nat : 2 * i \in S /\ 2 * i + 1 \in S =>
                LastSwings(S, n) \cap {2 * i, 2 * i + 1} # {2 * i + 1}
    PROVE  LastSwings(Mates(S), n) = Mates(LastSwings(S, n))
<1> DEFINE M == Mates(S)
           after(i) == {t \in S : t > 2 * i + 1}
           c(i) == Cardinality(after(i))
           both(i) == 2 * i \in S /\ 2 * i + 1 \in S
<1>1. M \in SUBSET Nat /\ IsFiniteSet(M)
  BY MatesCount
<1>2. \A i \in Nat : IsFiniteSet(after(i)) /\ c(i) \in Nat
  <2> TAKE i \in Nat
  <2>1. after(i) \in SUBSET S
    OBVIOUS
  <2> QED
    BY <2>1, FS_Subset, FS_CardinalityType
<1>3. ASSUME NEW i \in Nat
      PROVE  /\ 2 * i \in M <=> 2 * i + 1 \in S
             /\ 2 * i + 1 \in M <=> 2 * i \in S
             /\ Mate(2 * i) = 2 * i + 1 /\ Mate(2 * i + 1) = 2 * i
  <2>1. 2 * i \in Nat /\ 2 * i + 1 \in Nat
    OBVIOUS
  <2>2. Mate(2 * i) = 2 * i + 1 /\ Mate(2 * i + 1) = 2 * i
    <3>1. (2 * i) % 2 = 0 /\ (2 * i + 1) % 2 = 1
      BY SMT
    <3> QED
      BY <3>1 DEF Mate
  <2>3. \A s \in Nat : s \in M <=> Mate(s) \in S
    BY MatesCount
  <2> HIDE DEF M
  <2> QED
    BY <2>1, <2>2, <2>3
\* As many swings come after a candle in either chart.
<1>4. ASSUME NEW i \in Nat
      PROVE  Cardinality({t \in M : t > 2 * i + 1}) = c(i) /\ IsFiniteSet({t \in M : t > 2 * i + 1})
  <2>1. \A u \in Nat : Mate(u) > 2 * i + 1 <=> u > 2 * i + 1
    <3> TAKE u \in Nat
    <3>1. PICK j \in Nat : u = 2 * j \/ u = 2 * j + 1
      <4>1. u \div 2 \in Nat /\ (u = 2 * (u \div 2) \/ u = 2 * (u \div 2) + 1)
        BY SMT
      <4> QED
        BY <4>1
    <3>2. (2 * j) % 2 = 0 /\ (2 * j + 1) % 2 = 1
      BY SMT
    <3>3. Mate(2 * j) = 2 * j + 1 /\ Mate(2 * j + 1) = 2 * j
      BY <3>2 DEF Mate
    <3> QED
      BY <3>1, <3>3
  <2>2. {t \in M : t > 2 * i + 1} = Mates(after(i))
    <3>1. \A u \in S : Mate(u) > 2 * i + 1 <=> u > 2 * i + 1
      BY <2>1
    <3> DEFINE x == 2 * i + 1
               late(u) == u > x
    <3>2. \A u \in S : late(Mate(u)) <=> late(u)
      BY <3>1
    <3>3. {t \in {Mate(u) : u \in S} : late(t)} = {Mate(u) : u \in {t \in S : late(t)}}
      <4> HIDE DEF late
      <4> QED
        BY <3>2
    <3> QED
      BY <3>3 DEF Mates
  <2>3. after(i) \in SUBSET Nat
    OBVIOUS
  <2> HIDE DEF after
  <2> QED
    BY <1>2, <2>2, <2>3, MatesCount
\* Whether a swing is one of the last.
<1>5. ASSUME NEW T \in SUBSET Nat, IsFiniteSet(T), NEW i \in Nat, NEW k \in Nat,
             IsFiniteSet({t \in T : t > 2 * i + 1}), Cardinality({t \in T : t > 2 * i + 1}) = k
      PROVE  /\ 2 * i + 1 \in LastSwings(T, n) <=> 2 * i + 1 \in T /\ k < n
             /\ 2 * i \in LastSwings(T, n) <=>
                   2 * i \in T /\ (IF 2 * i + 1 \in T THEN k + 1 < n ELSE k < n)
  <2> DEFINE A == {t \in T : t > 2 * i + 1}
             B == {t \in T : t > 2 * i}
  <2>1. 2 * i + 1 \in LastSwings(T, n) <=> 2 * i + 1 \in T /\ k < n
    BY <1>5 DEF LastSwings
  <2>2. 2 * i \in LastSwings(T, n) <=> 2 * i \in T /\ Cardinality(B) < n
    BY DEF LastSwings
  <2>3. CASE 2 * i + 1 \in T
    <3>1. B = A \cup {2 * i + 1} /\ 2 * i + 1 \notin A
      <4>1. \A t \in T : t > 2 * i <=> t > 2 * i + 1 \/ t = 2 * i + 1
        OBVIOUS
      <4>2. ~(2 * i + 1 > 2 * i + 1)
        OBVIOUS
      <4> QED
        BY <2>3, <4>1, <4>2
    <3> HIDE DEF A, B
    <3>2. IsFiniteSet(A) /\ Cardinality(A) = k
      BY <1>5 DEF A
    <3>3. Cardinality(B) = k + 1
      BY <3>1, <3>2, FS_AddElement
    <3> QED
      BY <2>1, <2>2, <2>3, <3>3 DEF B
  <2>4. CASE 2 * i + 1 \notin T
    <3>1. B = A
      <4>1. \A t \in T : t > 2 * i <=> t > 2 * i + 1
        BY <2>4
      <4> QED
        BY <4>1
    <3> QED
      BY <1>5, <2>1, <2>2, <2>4, <3>1
  <2> QED
    BY <2>3, <2>4
<1>6. ASSUME NEW i \in Nat
      PROVE  /\ 2 * i + 1 \in LastSwings(M, n) <=> 2 * i \in LastSwings(S, n)
             /\ 2 * i \in LastSwings(M, n) <=> 2 * i + 1 \in LastSwings(S, n)
  <2>1. /\ 2 * i + 1 \in LastSwings(S, n) <=> 2 * i + 1 \in S /\ c(i) < n
        /\ 2 * i \in LastSwings(S, n) <=>
              2 * i \in S /\ (IF 2 * i + 1 \in S THEN c(i) + 1 < n ELSE c(i) < n)
    <3>1. IsFiniteSet({t \in S : t > 2 * i + 1}) /\ c(i) \in Nat
      BY <1>2
    <3> QED
      BY <1>5, <3>1
  <2>2. /\ 2 * i + 1 \in LastSwings(M, n) <=> 2 * i + 1 \in M /\ c(i) < n
        /\ 2 * i \in LastSwings(M, n) <=>
              2 * i \in M /\ (IF 2 * i + 1 \in M THEN c(i) + 1 < n ELSE c(i) < n)
    <3>1. c(i) \in Nat
      BY <1>2
    <3> HIDE DEF c, M
    <3> QED
      BY <1>1, <1>4, <1>5, <3>1
  <2>3. 2 * i \in S /\ 2 * i + 1 \in S /\ c(i) < n => c(i) + 1 < n
    <3> SUFFICES ASSUME 2 * i \in S, 2 * i + 1 \in S, c(i) < n, ~(c(i) + 1 < n) PROVE FALSE
      OBVIOUS
    <3>1. 2 * i + 1 \in LastSwings(S, n) /\ 2 * i \notin LastSwings(S, n)
      BY <2>1
    <3>2. LastSwings(S, n) \cap {2 * i, 2 * i + 1} = {2 * i + 1}
      BY <3>1
    <3> QED
      BY <3>2
  <2>4. c(i) \in Nat /\ (2 * i \in M <=> 2 * i + 1 \in S) /\ (2 * i + 1 \in M <=> 2 * i \in S)
    BY <1>2, <1>3
  <2> DEFINE k == c(i)
             R == LastSwings(S, n)
             Q == LastSwings(M, n)
  <2>5. k + 1 < n => k < n
    BY <2>4
  <2> HIDE DEF k, R, Q, M, c
  <2> QED
    BY <2>1, <2>2, <2>3, <2>4, <2>5 DEF k, R, Q
<1>7. \A s \in Nat : s \in LastSwings(M, n) <=> Mate(s) \in LastSwings(S, n)
  <2> TAKE s \in Nat
  <2>1. PICK i \in Nat : s = 2 * i \/ s = 2 * i + 1
    <3>1. s \div 2 \in Nat /\ (s = 2 * (s \div 2) \/ s = 2 * (s \div 2) + 1)
      BY SMT
    <3> QED
      BY <3>1
  <2> HIDE DEF M
  <2> QED
    BY <1>3, <1>6, <2>1
<1>8. LastSwings(S, n) \in SUBSET Nat /\ IsFiniteSet(LastSwings(S, n))
  <2>1. LastSwings(S, n) \in SUBSET S
    BY DEF LastSwings
  <2> QED
    BY <2>1, FS_Subset
<1>9. \A s \in Nat : s \in Mates(LastSwings(S, n)) <=> Mate(s) \in LastSwings(S, n)
  BY <1>8, MatesCount
<1>10. LastSwings(M, n) \in SUBSET Nat /\ Mates(LastSwings(S, n)) \in SUBSET Nat
  <2>1. LastSwings(M, n) \in SUBSET M
    BY DEF LastSwings
  <2> QED
    BY <1>1, <1>8, <2>1, MatesCount
<1> QED
  BY <1>7, <1>9, <1>10

(* The swings of a chart are numbered by candle and end. *)
LEMMA SwingNumbers ==
    ASSUME NEW ch, ChartOK(ch)
    PROVE  /\ Swings(ch) \in SUBSET Nat /\ IsFiniteSet(Swings(ch))
           /\ \A i \in Nat : 2 * i \in Swings(ch) <=> i \in SwingHighs(ch)
           /\ \A i \in Nat : 2 * i + 1 \in Swings(ch) <=> i \in SwingLows(ch)
           /\ \A s \in Swings(ch) : s \div 2 \in 1..Len(ch)
<1>1. Len(ch) \in Nat
  BY ChartFacts
<1>2. SwingHighs(ch) \subseteq 1..Len(ch) /\ SwingLows(ch) \subseteq 1..Len(ch)
  BY <1>1, StructureAssumption DEF SwingHighs, SwingLows, Confirmed
<1>3. ASSUME NEW s \in Swings(ch)
      PROVE  \E i \in 1..Len(ch) : s = 2 * i \/ s = 2 * i + 1
  BY <1>2 DEF Swings
<1>4. \A s \in Swings(ch) : s \in Nat /\ s <= 2 * Len(ch) + 1 /\ s \div 2 \in 1..Len(ch)
  <2> TAKE s \in Swings(ch)
  <2>1. PICK i \in 1..Len(ch) : s = 2 * i \/ s = 2 * i + 1
    BY <1>3
  <2>2. s \in Nat /\ s <= 2 * Len(ch) + 1
    BY <1>1, <2>1
  <2>3. (2 * i) \div 2 = i /\ (2 * i + 1) \div 2 = i
    BY SMT
  <2> QED
    BY <2>1, <2>2, <2>3
<1>5. Swings(ch) \in SUBSET Nat /\ IsFiniteSet(Swings(ch))
  <2>1. 2 * Len(ch) + 1 \in Nat
    BY <1>1
  <2>2. Swings(ch) \in SUBSET Nat
    BY <1>4
  <2> QED
    BY <1>4, <2>1, <2>2, FS_BoundedSetOfNaturals
<1>6. ASSUME NEW i \in Nat
      PROVE  /\ 2 * i \in Swings(ch) <=> i \in SwingHighs(ch)
             /\ 2 * i + 1 \in Swings(ch) <=> i \in SwingLows(ch)
  <2>1. \A j \in Nat : 2 * j # 2 * i + 1 /\ 2 * j + 1 # 2 * i
    BY SMT
  <2>2. \A j \in Nat : 2 * j = 2 * i => j = i
    BY SMT
  <2>3. \A j \in Nat : 2 * j + 1 = 2 * i + 1 => j = i
    BY SMT
  <2>4. SwingHighs(ch) \subseteq Nat /\ SwingLows(ch) \subseteq Nat
    BY <1>1, <1>2
  <2> QED
    BY <2>1, <2>2, <2>3, <2>4 DEF Swings
<1> QED
  BY <1>4, <1>5, <1>6

LEMMA MirrorSwingNumbers ==
    ASSUME NEW ch, NEW tc, Mirror(ch, tc)
    PROVE  Swings(tc) = Mates(Swings(ch))
<1>1. ChartOK(ch) /\ ChartOK(tc)
  BY DEF Mirror
<1>2. /\ SwingHighs(tc) = SwingLows(ch) /\ SwingLows(tc) = SwingHighs(ch)
  BY MirrorSwings
<1>3. Swings(ch) \in SUBSET Nat /\ Swings(tc) \in SUBSET Nat /\ IsFiniteSet(Swings(ch))
  BY <1>1, SwingNumbers
<1>4. ASSUME NEW i \in Nat
      PROVE  /\ 2 * i \in Swings(tc) <=> 2 * i \in Mates(Swings(ch))
             /\ 2 * i + 1 \in Swings(tc) <=> 2 * i + 1 \in Mates(Swings(ch))
  <2>1. /\ 2 * i \in Swings(tc) <=> 2 * i + 1 \in Swings(ch)
        /\ 2 * i + 1 \in Swings(tc) <=> 2 * i \in Swings(ch)
    BY <1>1, <1>2, SwingNumbers
  <2>2. Mate(2 * i) = 2 * i + 1 /\ Mate(2 * i + 1) = 2 * i
    <3>1. (2 * i) % 2 = 0 /\ (2 * i + 1) % 2 = 1
      BY SMT
    <3> QED
      BY <3>1 DEF Mate
  <2>3. \A s \in Nat : s \in Mates(Swings(ch)) <=> Mate(s) \in Swings(ch)
    BY <1>3, MatesCount
  <2>4. 2 * i \in Nat /\ 2 * i + 1 \in Nat
    OBVIOUS
  <2> QED
    BY <2>1, <2>2, <2>3, <2>4
<1>5. \A s \in Nat : s \in Swings(tc) <=> s \in Mates(Swings(ch))
  <2> TAKE s \in Nat
  <2>1. PICK i \in Nat : s = 2 * i \/ s = 2 * i + 1
    <3>1. s \div 2 \in Nat /\ (s = 2 * (s \div 2) \/ s = 2 * (s \div 2) + 1)
      BY SMT
    <3> QED
      BY <3>1
  <2> QED
    BY <1>4, <2>1
<1>6. Mates(Swings(ch)) \in SUBSET Nat
  BY <1>3, MatesCount
<1> QED
  BY <1>3, <1>5, <1>6

(* A swing and its mate are as far from where prices are turned. *)
LEMMA MirrorPrice ==
    ASSUME NEW ch, NEW tc, Mirror(ch, tc), NEW s \in Swings(ch)
    PROVE  /\ Price(ch, s) \in Int
           /\ Price(tc, Mate(s)) = Turn - Price(ch, s)
<1>1. s \in Nat /\ s \div 2 \in 1..Len(ch)
  BY SwingNumbers DEF Mirror
<1> DEFINE i == s \div 2
<1>2. /\ ch[i].h \in Int /\ ch[i].l \in Int
      /\ tc[i].h = Turn - ch[i].l /\ tc[i].l = Turn - ch[i].h
  BY <1>1, MirrorFacts
<1>3. /\ s % 2 = 0 \/ s % 2 = 1
      /\ Mate(s) % 2 = 0 <=> s % 2 = 1
      /\ Mate(s) \div 2 = i
  BY <1>1, MateFacts
<1>4. Price(ch, s) = IF s % 2 = 0 THEN ch[i].h ELSE ch[i].l
  BY DEF Price
<1>5. Price(tc, Mate(s)) = IF Mate(s) % 2 = 0 THEN tc[i].h ELSE tc[i].l
  BY <1>3 DEF Price
<1> HIDE DEF i
<1> QED
  BY <1>2, <1>3, <1>4, <1>5

(* The last price of some highs, and of some lows. *)
LEMMA MirrorLast ==
    ASSUME NEW ch, NEW tc, Mirror(ch, tc), NEW S \in SUBSET Swings(ch), S # {},
           NEW r, \A s \in S : s % 2 = r
    PROVE  /\ LastPrice(ch, S) \in Int
           /\ LastPrice(tc, Mates(S)) = Turn - LastPrice(ch, S)
           /\ Cardinality(S) >= 2 =>
                 /\ PriceBefore(ch, S) \in Int
                 /\ PriceBefore(tc, Mates(S)) = Turn - PriceBefore(ch, S)
<1>1. S \in SUBSET Nat /\ IsFiniteSet(S)
  <2>1. Swings(ch) \in SUBSET Nat /\ IsFiniteSet(Swings(ch))
    BY SwingNumbers DEF Mirror
  <2> QED
    BY <2>1, FS_Subset
<1>2. Max(S) \in S /\ Max(Mates(S)) = Mate(Max(S))
  BY <1>1, MatesLast
<1>3. LastPrice(ch, S) \in Int /\ LastPrice(tc, Mates(S)) = Turn - LastPrice(ch, S)
  BY <1>2, MirrorPrice DEF LastPrice
<1>4. ASSUME Cardinality(S) >= 2
      PROVE  /\ PriceBefore(ch, S) \in Int
             /\ PriceBefore(tc, Mates(S)) = Turn - PriceBefore(ch, S)
  <2> DEFINE R == S \ {Max(S)}
  <2>1. R \in SUBSET Nat /\ IsFiniteSet(R) /\ Cardinality(R) = Cardinality(S) - 1
    BY <1>1, <1>2, FS_RemoveElement
  <2>2. R # {}
    <3>1. Cardinality(S) \in Nat /\ Cardinality({}) = 0
      BY <1>1, FS_CardinalityType, FS_EmptySet
    <3>2. Cardinality(R) # 0
      BY <1>4, <2>1, <3>1
    <3> QED
      BY <3>1, <3>2
  <2>3. R \in SUBSET S
    OBVIOUS
  <2>4. Mates(S) \ {Max(Mates(S))} = Mates(R)
    <3>1. \A x \in S : Mates(S) \ {Mate(x)} = Mates(S \ {x})
      BY <1>1, MatesCount
    <3> QED
      BY <1>2, <3>1
  <2>5. PriceBefore(ch, S) = Price(ch, Max(R)) /\ PriceBefore(tc, Mates(S)) = Price(tc, Max(Mates(R)))
    BY <2>4 DEF PriceBefore
  <2> HIDE DEF R
  <2>6. Max(R) \in R /\ Max(Mates(R)) = Mate(Max(R))
    BY <2>1, <2>2, <2>3, MatesLast
  <2>7. Max(R) \in Swings(ch)
    BY <2>3, <2>6
  <2> QED
    BY <2>5, <2>6, <2>7, MirrorPrice
<1> QED
  BY <1>3, <1>4

OtherTrend(t) ==
    CASE t = "uptrend" -> "downtrend" [] t = "downtrend" -> "uptrend" [] OTHER -> t

(* The trend is the other one, unless the swings it is read from are cut   *)
(* within a candle.                                                        *)
LEMMA MirrorTrend ==
    ASSUME NEW ch, NEW tc, Mirror(ch, tc), ~TrendTied(ch)
    PROVE  Trend(tc, Swings(tc)) = OtherTrend(Trend(ch, Swings(ch)))
<1> DEFINE n == 2 * STRUCT_TREND_SWINGS
           R == LastSwings(Swings(ch), n)
           highs == Highs(R)
           lows == Lows(R)
           prices == {Price(ch, s) : s \in R}
           turned == {Price(tc, s) : s \in Mates(R)}
<1>1. Swings(ch) \in SUBSET Nat /\ IsFiniteSet(Swings(ch))
  BY SwingNumbers DEF Mirror
<1>2. LastSwings(Swings(tc), n) = Mates(R)
  <2>1. ASSUME NEW i \in Nat, 2 * i \in Swings(ch), 2 * i + 1 \in Swings(ch)
        PROVE  R \cap {2 * i, 2 * i + 1} # {2 * i + 1}
    <3>1. i \in SwingHighs(ch) \cap SwingLows(ch)
      BY <2>1, SwingNumbers DEF Mirror
    <3> QED
      BY <3>1 DEF TrendTied
  <2>2. n \in Nat
    BY StructureAssumption
  <2>3. LastSwings(Mates(Swings(ch)), n) = Mates(LastSwings(Swings(ch), n))
    <3> HIDE DEF n
    <3> QED
      BY <1>1, <2>1, <2>2, MatesRecent
  <2> QED
    BY <2>3, MirrorSwingNumbers
<1>3. R \in SUBSET Swings(ch) /\ R \in SUBSET Nat /\ IsFiniteSet(R)
  <2>1. R \in SUBSET Swings(ch)
    BY DEF LastSwings
  <2> HIDE DEF R
  <2> QED
    BY <1>1, <2>1, FS_Subset
<1> HIDE DEF R
<1>4. Highs(Mates(R)) = Mates(lows) /\ Lows(Mates(R)) = Mates(highs)
  BY <1>3, MatesCount
<1>5. /\ highs \in SUBSET R /\ lows \in SUBSET R
      /\ \A s \in highs : s % 2 = 0
      /\ \A s \in lows : s % 2 = 1
  BY DEF Highs, Lows
<1> HIDE DEF highs, lows
<1>6. /\ highs \in SUBSET Nat /\ IsFiniteSet(highs) /\ Cardinality(highs) \in Nat
      /\ lows \in SUBSET Nat /\ IsFiniteSet(lows) /\ Cardinality(lows) \in Nat
  BY <1>3, <1>5, FS_Subset, FS_CardinalityType
<1>7. Cardinality(Mates(highs)) = Cardinality(highs) /\ Cardinality(Mates(lows)) = Cardinality(lows)
  BY <1>6, MatesCount
<1> DEFINE few == Cardinality(highs) < 2 \/ Cardinality(lows) < 2
           flat(c, p) == /\ AtrSum(c) > 0
                         /\ 100 * AtrCount(c) * (Max(p) - Min(p)) < STRUCT_RANGE_ATR * AtrSum(c)
           up(c, h, l) == /\ LastPrice(c, h) > PriceBefore(c, h)
                          /\ LastPrice(c, l) > PriceBefore(c, l)
           down(c, h, l) == /\ LastPrice(c, h) < PriceBefore(c, h)
                            /\ LastPrice(c, l) < PriceBefore(c, l)
<1>8. Trend(ch, Swings(ch)) =
        IF few THEN "range" ELSE IF flat(ch, prices) THEN "consolidation"
        ELSE IF up(ch, highs, lows) THEN "uptrend"
        ELSE IF down(ch, highs, lows) THEN "downtrend" ELSE "range"
  BY Zenon DEF Trend, R, n, highs, lows
<1>9. Trend(tc, Swings(tc)) =
        IF few THEN "range" ELSE IF flat(tc, turned) THEN "consolidation"
        ELSE IF up(tc, Mates(lows), Mates(highs)) THEN "uptrend"
        ELSE IF down(tc, Mates(lows), Mates(highs)) THEN "downtrend" ELSE "range"
  <2>1. Trend(tc, Swings(tc)) =
        IF Cardinality(Highs(Mates(R))) < 2 \/ Cardinality(Lows(Mates(R))) < 2 THEN "range"
        ELSE IF flat(tc, turned) THEN "consolidation"
        ELSE IF up(tc, Highs(Mates(R)), Lows(Mates(R))) THEN "uptrend"
        ELSE IF down(tc, Highs(Mates(R)), Lows(Mates(R))) THEN "downtrend" ELSE "range"
    BY <1>2, Zenon DEF Trend, n
  <2>2. Cardinality(Highs(Mates(R))) < 2 \/ Cardinality(Lows(Mates(R))) < 2 <=> few
    BY <1>4, <1>7
  <2> HIDE DEF few, flat, up, down, turned
  <2> QED
    BY <1>4, <2>1, <2>2
<1>10. CASE few
  BY <1>8, <1>9, <1>10 DEF OtherTrend
<1>11. CASE ~few
  <2>1. Cardinality(highs) >= 2 /\ Cardinality(lows) >= 2
    BY <1>6, <1>11
  <2>2. highs # {} /\ lows # {}
    <3>1. Cardinality({}) = 0
      BY FS_EmptySet
    <3> QED
      BY <2>1, <3>1
  <2>3. highs \in SUBSET Swings(ch) /\ lows \in SUBSET Swings(ch)
    BY <1>3, <1>5
  <2>4. /\ LastPrice(ch, highs) \in Int /\ PriceBefore(ch, highs) \in Int
        /\ LastPrice(tc, Mates(highs)) = Turn - LastPrice(ch, highs)
        /\ PriceBefore(tc, Mates(highs)) = Turn - PriceBefore(ch, highs)
    BY <1>5, <2>1, <2>2, <2>3, MirrorLast
  <2>5. /\ LastPrice(ch, lows) \in Int /\ PriceBefore(ch, lows) \in Int
        /\ LastPrice(tc, Mates(lows)) = Turn - LastPrice(ch, lows)
        /\ PriceBefore(tc, Mates(lows)) = Turn - PriceBefore(ch, lows)
    BY <1>5, <2>1, <2>2, <2>3, MirrorLast
  <2>6. flat(tc, turned) <=> flat(ch, prices)
    <3>1. prices \in SUBSET Int /\ IsFiniteSet(prices) /\ prices # {}
      <4>1. \A s \in R : Price(ch, s) \in Int
        BY <1>3, MirrorPrice
      <4> DEFINE f == [s \in R |-> Price(ch, s)]
      <4>2. f \in Surjection(R, prices)
        BY DEF Surjection
      <4>3. IsFiniteSet(prices)
        BY <1>3, <4>2, FS_Surjection
      <4> QED
        BY <1>5, <2>2, <4>1, <4>3
    <3>2. turned = Flip(prices)
      <4>1. \A s \in R : Price(tc, Mate(s)) = Turn - Price(ch, s)
        BY <1>3, MirrorPrice
      <4> QED
        BY <4>1 DEF Mates, Flip
    <3> HIDE DEF prices, turned
    <3>3. /\ Min(turned) = Turn - Max(prices) /\ Max(turned) = Turn - Min(prices)
          /\ Min(prices) \in Int /\ Max(prices) \in Int
      BY <3>1, <3>2, FlipExtremes
    <3>4. Max(turned) - Min(turned) = Max(prices) - Min(prices)
      BY <3>3, TurnWhole
    <3>5. AtrSum(tc) = AtrSum(ch) /\ AtrCount(tc) = AtrCount(ch)
      BY MirrorAtr
    <3> QED
      BY <3>4, <3>5, Zenon
  <2>7. /\ up(tc, Mates(lows), Mates(highs)) <=> down(ch, highs, lows)
        /\ down(tc, Mates(lows), Mates(highs)) <=> up(ch, highs, lows)
        /\ ~(up(ch, highs, lows) /\ down(ch, highs, lows))
    BY <2>4, <2>5, TurnWhole
  <2> HIDE DEF few, flat, up, down, prices, turned
  <2> QED
    BY <1>8, <1>9, <1>11, <2>6, <2>7 DEF OtherTrend
<1> QED
  BY <1>10, <1>11

(* A close above the last high is one below the last low. *)
LEMMA AboveTurned ==
    ASSUME NEW ch, NEW tc, Mirror(ch, tc)
    PROVE  /\ Above(tc, Swings(tc)) <=> Below(ch, Swings(ch))
           /\ Lows(Swings(ch)) # {} =>
                /\ LastPrice(ch, Lows(Swings(ch))) \in Int
                /\ LastPrice(tc, Highs(Swings(tc))) = Turn - LastPrice(ch, Lows(Swings(ch)))
<1> DEFINE S == Swings(ch)
           lows == Lows(S)
<1>1. S \in SUBSET Nat /\ IsFiniteSet(S)
  BY SwingNumbers DEF Mirror
<1>2. Highs(Swings(tc)) = Mates(lows)
  <2>1. Highs(Mates(S)) = Mates(Lows(S))
    BY <1>1, MatesCount
  <2> QED
    BY <2>1, MirrorSwingNumbers
<1>3. lows \in SUBSET S /\ \A s \in lows : s % 2 = 1
  BY DEF Lows
<1>4. Mates(lows) = {} <=> lows = {}
  BY DEF Mates
<1> HIDE DEF lows
<1>5. ASSUME lows # {}
      PROVE  LastPrice(ch, lows) \in Int /\ LastPrice(tc, Mates(lows)) = Turn - LastPrice(ch, lows)
  BY <1>3, <1>5, MirrorLast
<1>6. Now(ch).c \in Int /\ Now(tc).c = Turn - Now(ch).c
  BY MirrorNow
<1>7. Above(tc, Swings(tc)) <=> Mates(lows) # {} /\ Now(tc).c > LastPrice(tc, Mates(lows))
  BY <1>2 DEF Above
<1>8. Below(ch, S) <=> lows # {} /\ Now(ch).c < LastPrice(ch, lows)
  BY DEF Below, lows
<1>9. Above(tc, Swings(tc)) <=> Below(ch, S)
  <2>1. CASE lows = {}
    BY <1>4, <1>7, <1>8, <2>1
  <2>2. CASE lows # {}
    BY <1>4, <1>5, <1>6, <1>7, <1>8, <2>2, TurnWhole
  <2> QED
    BY <2>1, <2>2
<1> QED
  BY <1>2, <1>5, <1>9 DEF lows

(* The side the close broke out on, and the level it broke. *)
LEMMA MirrorBroken ==
    ASSUME NEW ch, NEW tc, Mirror(ch, tc),
           ~(Above(ch, Swings(ch)) /\ Below(ch, Swings(ch)))
    PROVE  LET level(c) == LastPrice(c, IF Broken(c, Swings(c)) = "bullish"
                                         THEN Highs(Swings(c)) ELSE Lows(Swings(c))) IN
           /\ Broken(tc, Swings(tc)) = OtherSide(Broken(ch, Swings(ch)))
           /\ Broken(ch, Swings(ch)) \in {"bullish", "bearish", "none"}
           /\ Broken(ch, Swings(ch)) # "none" =>
                level(ch) \in Int /\ level(tc) = Turn - level(ch)
<1> DEFINE level(c) == LastPrice(c, IF Broken(c, Swings(c)) = "bullish"
                                    THEN Highs(Swings(c)) ELSE Lows(Swings(c)))
<1>1. Mirror(tc, ch)
  BY MirrorBack
<1>2. /\ Above(tc, Swings(tc)) <=> Below(ch, Swings(ch))
      /\ Above(ch, Swings(ch)) <=> Below(tc, Swings(tc))
  BY <1>1, AboveTurned
<1>3. CASE Above(ch, Swings(ch))
  <2>1. Broken(ch, Swings(ch)) = "bullish" /\ Broken(tc, Swings(tc)) = "bearish"
    BY <1>2, <1>3 DEF Broken
  <2>2. Highs(Swings(ch)) # {} /\ Lows(Swings(tc)) # {}
    BY <1>2, <1>3 DEF Above, Below
  <2>3. /\ LastPrice(tc, Lows(Swings(tc))) \in Int
        /\ LastPrice(ch, Highs(Swings(ch))) = Turn - LastPrice(tc, Lows(Swings(tc)))
    BY <1>1, <2>2, AboveTurned
  <2>4. level(ch) = LastPrice(ch, Highs(Swings(ch))) /\ level(tc) = LastPrice(tc, Lows(Swings(tc)))
    BY <2>1
  <2> HIDE DEF level
  <2>5. level(ch) \in Int /\ level(tc) = Turn - level(ch)
    BY <2>3, <2>4, TurnWhole
  <2> QED
    BY <2>1, <2>5 DEF OtherSide, level
<1>4. CASE Below(ch, Swings(ch))
  <2>1. Broken(ch, Swings(ch)) = "bearish" /\ Broken(tc, Swings(tc)) = "bullish"
    BY <1>2, <1>4 DEF Broken
  <2>2. Lows(Swings(ch)) # {}
    BY <1>4 DEF Below
  <2>3. /\ LastPrice(ch, Lows(Swings(ch))) \in Int
        /\ LastPrice(tc, Highs(Swings(tc))) = Turn - LastPrice(ch, Lows(Swings(ch)))
    BY <2>2, AboveTurned
  <2>4. level(tc) = LastPrice(tc, Highs(Swings(tc))) /\ level(ch) = LastPrice(ch, Lows(Swings(ch)))
    BY <2>1
  <2> HIDE DEF level
  <2>5. level(ch) \in Int /\ level(tc) = Turn - level(ch)
    BY <2>3, <2>4, TurnWhole
  <2> QED
    BY <2>1, <2>5 DEF OtherSide, level
<1>5. CASE ~Above(ch, Swings(ch)) /\ ~Below(ch, Swings(ch))
  BY <1>2, <1>5 DEF Broken, OtherSide
<1> QED
  BY <1>3, <1>4, <1>5

(* The colour of a candle that is displaced: it has a body. *)
LEMMA MirrorDisplaced ==
    ASSUME NEW ch, NEW tc, Mirror(ch, tc), NEW w, NEW t, Mirror(w, t), NEW percent \in Nat
    PROVE  LET colour(c, v) == IF AtrSum(v) > 0 /\ Exceeds(v, Body(Now(c)), percent)
                               THEN Colour(Now(c)) ELSE "none" IN
           colour(tc, t) = OtherSide(colour(ch, w))
<1> DEFINE k == Now(ch)
           q == Now(tc)
<1>1. k \in Candle /\ q = TurnedCandle(k)
  BY MirrorNow
<1>2. Body(q) = Body(k) /\ Body(k) \in Nat /\ (k.c # k.o => Colour(q) = OtherSide(Colour(k)))
  BY <1>1, TurnedFacts
<1>3. /\ AtrSum(t) = AtrSum(w) /\ AtrSum(w) \in Int /\ AtrCount(w) \in Nat
      /\ Exceeds(t, Body(k), percent) <=> Exceeds(w, Body(k), percent)
  BY MirrorAtr
<1>4. ASSUME AtrSum(w) > 0, Exceeds(w, Body(k), percent) PROVE k.c # k.o
  <2> SUFFICES ASSUME k.c = k.o PROVE FALSE
    OBVIOUS
  <2>1. Body(k) = 0
    <3>1. k.c \in Int /\ k.o \in Int
      BY <1>1, CandleFacts
    <3> QED
      BY <3>1 DEF Body, Size
  <2> DEFINE sum == AtrSum(w)
             n == AtrCount(w)
  <2>2. 100 * n * 0 > percent * sum
    BY <1>4, <2>1 DEF Exceeds
  <2>3. n \in Nat /\ sum \in Int /\ sum > 0
    BY <1>3, <1>4
  <2> HIDE DEF sum, n
  <2>4. 100 * n * 0 = 0 /\ percent * sum >= 0 /\ percent * sum \in Int
    BY <2>3, SMT
  <2> QED
    BY <2>2, <2>4, SMT
<1> HIDE DEF k, q
<1>5. OtherSide("none") = "none"
  BY DEF OtherSide
<1> QED
  BY <1>2, <1>3, <1>4, <1>5 DEF k, q

(* The bias a trend stands for, and what is against it. *)
LEMMA OtherTrends ==
    ASSUME NEW t, t \in {"uptrend", "downtrend", "range", "consolidation"}
    PROVE  /\ Against(OtherTrend(t)) = OtherSide(Against(t))
           /\ (CASE OtherTrend(t) = "uptrend" -> "bullish"
                 [] OtherTrend(t) = "downtrend" -> "bearish" [] OTHER -> "neutral")
                = OtherSide(CASE t = "uptrend" -> "bullish"
                              [] t = "downtrend" -> "bearish" [] OTHER -> "neutral")
           /\ Against(t) \in {"bullish", "bearish", "none"}
<1>1. CASE t = "uptrend"
  BY <1>1 DEF Against, OtherTrend, OtherSide
<1>2. CASE t = "downtrend"
  BY <1>2 DEF Against, OtherTrend, OtherSide
<1>3. CASE t # "uptrend" /\ t # "downtrend"
  BY <1>3 DEF Against, OtherTrend, OtherSide
<1> QED
  BY <1>1, <1>2, <1>3

(* Structure turned, but for the ties. *)
LEMMA MirrorStructure ==
    ASSUME NEW ch, NEW tc, Mirror(ch, tc), NEW w, w = Window(ch, STRUCT_LOOKBACK),
           ~(Above(w, Swings(w)) /\ Below(w, Swings(w))), ~TrendTied(w)
    PROVE  Structure(tc) = TurnedStructure(Structure(ch))
<1> DEFINE v == Window(tc, STRUCT_LOOKBACK)
           few(c, x) == \/ Len(c) < STRUCT_PIVOT_LEFT + STRUCT_PIVOT_RIGHT + 2
                        \/ Cardinality(Swings(x)) < STRUCT_MIN_SWINGS
           trend(x) == Trend(x, Swings(x))
           broken(x) == Broken(x, Swings(x))
           level(x) == LastPrice(x, IF broken(x) = "bullish" THEN Highs(Swings(x))
                                    ELSE Lows(Swings(x)))
           turns(x) == broken(x) # "none" /\ broken(x) = Against(trend(x))
           bos(x) == IF turns(x) THEN "none" ELSE broken(x)
           choch(x) == IF turns(x) THEN broken(x) ELSE "none"
           displacement(x) == IF AtrSum(x) > 0 /\ Exceeds(x, Body(Now(x)), STRUCT_DISPLACEMENT_ATR)
                              THEN Colour(Now(x)) ELSE "none"
           near(x) == ~Exceeds(x, Size(Now(x).c - level(x)), STRUCT_RETEST_ATR)
           retest(x) == IF broken(x) # "none" /\ AtrSum(x) > 0 /\ near(x)
                        THEN broken(x) ELSE "none"
           leaning(t) == CASE t = "uptrend" -> "bullish" [] t = "downtrend" -> "bearish"
                           [] OTHER -> "neutral"
           bias(x) == IF turns(x) THEN broken(x) ELSE leaning(trend(x))
           full(x) == [trend |-> trend(x), bos |-> bos(x), choch |-> choch(x),
                       displacement |-> displacement(x), retest |-> retest(x), bias |-> bias(x)]
<1>1. Structure(ch) = IF few(ch, w) THEN NoStructure ELSE full(w)
  BY Zenon DEF Structure
<1>2. Structure(tc) = IF few(tc, v) THEN NoStructure ELSE full(v)
  BY Zenon DEF Structure
<1>3. Mirror(w, v)
  BY MirrorWindow, CandlesAssumption
<1> HIDE DEF v
<1>4. few(tc, v) <=> few(ch, w)
  <2>1. Swings(v) = Mates(Swings(w)) /\ Swings(w) \in SUBSET Nat /\ IsFiniteSet(Swings(w))
    BY <1>3, MirrorSwingNumbers, SwingNumbers DEF Mirror
  <2>2. Cardinality(Swings(v)) = Cardinality(Swings(w))
    BY <2>1, MatesCount
  <2> QED
    BY <2>2, MirrorFacts
<1>5. /\ trend(v) = OtherTrend(trend(w))
      /\ trend(w) \in {"uptrend", "downtrend", "range", "consolidation"}
  <2>1. trend(w) \in {"uptrend", "downtrend", "range", "consolidation"}
    BY DEF Trend
  <2> QED
    BY <1>3, <2>1, MirrorTrend
<1>6. /\ broken(v) = OtherSide(broken(w))
      /\ broken(w) \in {"bullish", "bearish", "none"}
      /\ broken(w) # "none" => level(w) \in Int /\ level(v) = Turn - level(w)
  BY <1>3, MirrorBroken
<1>7. displacement(v) = OtherSide(displacement(w))
  BY <1>3, MirrorDisplaced, StructureAssumption
<1>8. AtrSum(v) = AtrSum(w) /\ (broken(w) # "none" => (near(v) <=> near(w)))
  <2>1. AtrSum(v) = AtrSum(w) /\ \A d, percent : Exceeds(v, d, percent) <=> Exceeds(w, d, percent)
    BY <1>3, MirrorAtr
  <2>2. Now(w).c \in Int /\ Now(v).c = Turn - Now(w).c
    BY <1>3, MirrorNow
  <2>3. ASSUME broken(w) # "none"
        PROVE  Size(Now(v).c - level(v)) = Size(Now(w).c - level(w))
    <3>1. level(w) \in Int /\ level(v) = Turn - level(w)
      BY <1>6, <2>3
    <3> DEFINE a == Now(w).c
               b == level(w)
    <3>2. Now(v).c - level(v) = b - a /\ a \in Int /\ b \in Int
      BY <2>2, <3>1, TurnWhole
    <3> HIDE DEF a, b
    <3>3. Size(b - a) = Size(a - b)
      BY <3>2 DEF Size
    <3> QED
      BY <3>2, <3>3 DEF a, b
  <2> HIDE DEF broken, level
  <2> QED
    BY <2>1, <2>3
<1> HIDE DEF broken, trend, level, near, displacement
<1>9. turns(v) <=> turns(w)
  <2>1. Against(trend(v)) = OtherSide(Against(trend(w))) /\ Against(trend(w)) \in {"bullish", "bearish", "none"}
    BY <1>5, OtherTrends
  <2> QED
    BY <1>6, <2>1 DEF OtherSide
<1>10. /\ bos(v) = OtherSide(bos(w)) /\ choch(v) = OtherSide(choch(w))
  BY <1>6, <1>9 DEF OtherSide
<1>11. retest(v) = OtherSide(retest(w))
  BY <1>6, <1>8 DEF OtherSide
<1>12. bias(v) = OtherSide(bias(w))
  <2>1. leaning(trend(v)) = OtherSide(leaning(trend(w)))
    BY <1>5, OtherTrends, ZenonT(40)
  <2> HIDE DEF leaning, turns
  <2> QED
    BY <1>6, <1>9, <2>1
<1> HIDE DEF bos, choch, retest, bias, few
<1>13. full(v) = TurnedStructure(full(w))
  <2> DEFINE s == full(w)
             t == OtherTrend(s.trend)
  <2>1. /\ s.trend = trend(w) /\ s.bos = bos(w) /\ s.choch = choch(w)
        /\ s.displacement = displacement(w) /\ s.retest = retest(w) /\ s.bias = bias(w)
    OBVIOUS
  <2>2. TurnedStructure(s) = [s EXCEPT !.trend = t,
              !.bias = OtherSide(@), !.bos = OtherSide(@), !.choch = OtherSide(@),
              !.displacement = OtherSide(@), !.retest = OtherSide(@)]
    BY Zenon DEF TurnedStructure, OtherTrend
  <2> HIDE DEF t
  <2>3. TurnedStructure(s) =
          [trend |-> t, bos |-> OtherSide(bos(w)), choch |-> OtherSide(choch(w)),
           displacement |-> OtherSide(displacement(w)), retest |-> OtherSide(retest(w)),
           bias |-> OtherSide(bias(w))]
    BY <2>2
  <2>4. t = trend(v)
    BY <1>5, <2>1 DEF t
  <2> QED
    BY <1>7, <1>10, <1>11, <1>12, <2>3, <2>4
<1>14. NoStructure = TurnedStructure(NoStructure)
  BY DEF NoStructure, TurnedStructure, OtherSide
<1> QED
  BY <1>1, <1>2, <1>4, <1>13, <1>14

-----------------------------------------------------------------------------
(* The zones of a chart turned.                                            *)

(* Turned twice, prices are what they were. *)
LEMMA FlipFlip ==
    ASSUME NEW S \in SUBSET Int
    PROVE  /\ Flip(S) \in SUBSET Int /\ Flip(Flip(S)) = S
           /\ \A x \in Int : x \in Flip(S) <=> Turn - x \in S
           /\ \A x \in Int : Turn - x \in Flip(S) <=> x \in S
<1>1. \A x \in Int : Turn - x \in Int /\ Turn - (Turn - x) = x
  BY TurnWhole
<1>2. Flip(S) \in SUBSET Int
  BY <1>1 DEF Flip
<1>3. \A x \in Int : x \in Flip(S) <=> Turn - x \in S
  <2> TAKE x \in Int
  <2>1. ASSUME x \in Flip(S) PROVE Turn - x \in S
    <3>1. PICK y \in S : x = Turn - y
      BY <2>1 DEF Flip
    <3> QED
      BY <1>1, <3>1
  <2>2. ASSUME Turn - x \in S PROVE x \in Flip(S)
    <3>1. x = Turn - (Turn - x)
      BY <1>1
    <3> QED
      BY <2>2, <3>1 DEF Flip
  <2> QED
    BY <2>1, <2>2
<1>4. \A x \in Int : Turn - x \in Flip(S) <=> x \in S
  BY <1>1, <1>3
<1>5. Flip(Flip(S)) = S
  <2>1. \A x \in Flip(Flip(S)) : x \in S
    <3> TAKE x \in Flip(Flip(S))
    <3>1. PICK y \in Flip(S) : x = Turn - y
      BY DEF Flip
    <3>2. y \in Int
      BY <1>2
    <3> QED
      BY <1>3, <3>1, <3>2
  <2>2. \A x \in S : x \in Flip(Flip(S))
    <3> TAKE x \in S
    <3>1. Turn - x \in Flip(S) /\ x = Turn - (Turn - x)
      BY <1>1 DEF Flip
    <3> DEFINE y == Turn - x
    <3>2. y \in Flip(S) /\ x = Turn - y
      BY <3>1
    <3> HIDE DEF y
    <3>3. x \in {Turn - u : u \in Flip(S)}
      BY <3>2
    <3> QED
      BY <3>3 DEF Flip
  <2> QED
    BY <2>1, <2>2
<1> QED
  BY <1>2, <1>3, <1>4, <1>5

(* A chain of prices upwards is one downwards: what is next below a price  *)
(* has one near above it, and the price itself is no further.              *)
LEMMA ChainedTurned ==
    ASSUME NEW ch, NEW tc, Mirror(ch, tc), NEW P \in SUBSET Int, IsFiniteSet(P),
           NEW a \in P, NEW b \in P, NEW percent \in Nat, Chained(ch, P, percent, a, b)
    PROVE  Chained(tc, Flip(P), percent, Turn - b, Turn - a)
<1> SUFFICES ASSUME NEW x \in Flip(P), Turn - b <= x, x < Turn - a
             PROVE  \E y \in Flip(P) : y > x /\ ~Exceeds(tc, y - x, percent)
  BY DEF Chained
<1>1. x \in Int /\ Turn - x \in P
  BY FlipFlip
<1> DEFINE p == Turn - x
<1>2. p \in P /\ p \in Int /\ a < p /\ p <= b /\ x = Turn - p
  BY <1>1, TurnWhole
<1> HIDE DEF p
<1> DEFINE under == {q \in P : q < p}
           q == Max(under)
<1>3. q \in under /\ \A u \in under : u <= q
  <2>1. under \in SUBSET Int /\ IsFiniteSet(under) /\ under # {}
    <3>1. under \in SUBSET P /\ a \in under
      BY <1>2
    <3> QED
      BY <3>1, FS_Subset
  <2> HIDE DEF under
  <2> QED
    BY <2>1, Extremes
<1>4. q \in P /\ q \in Int /\ q < p /\ a <= q /\ q < b
  <2>1. a \in under
    BY <1>2
  <2>2. q \in P /\ q \in Int /\ q < p /\ a <= q
    BY <1>3, <2>1
  <2> HIDE DEF q
  <2> QED
    BY <1>2, <2>2
<1>5. \A u \in P : u < p => u <= q
  BY <1>3
<1> HIDE DEF under, q
<1>6. PICK r \in P : r > q /\ ~Exceeds(ch, r - q, percent)
  BY <1>4 DEF Chained
<1>7. p <= r /\ r \in Int
  BY <1>2, <1>4, <1>5, <1>6
<1>8. ~Exceeds(ch, p - q, percent)
  <2> DEFINE d == p - q
             e == r - q
  <2>1. d \in Int /\ e \in Int /\ d <= e /\ ~Exceeds(ch, e, percent)
    BY <1>2, <1>4, <1>6, <1>7
  <2> HIDE DEF d, e
  <2>2. ~Exceeds(ch, d, percent)
    BY <2>1, ExceedsMore DEF Mirror
  <2> QED
    BY <2>2 DEF d
<1> DEFINE y == Turn - q
<1>9. y \in Flip(P) /\ y > x /\ y - x = p - q
  BY <1>2, <1>4, FlipFlip, TurnWhole
<1> HIDE DEF y
<1>10. ~Exceeds(tc, y - x, percent)
  BY <1>8, <1>9, MirrorAtr
<1> QED
  BY <1>9, <1>10

LEMMA MirrorChained ==
    ASSUME NEW ch, NEW tc, Mirror(ch, tc), NEW P \in SUBSET Int, IsFiniteSet(P),
           NEW a \in P, NEW b \in P, NEW percent \in Nat
    PROVE  Chained(tc, Flip(P), percent, Turn - b, Turn - a) <=> Chained(ch, P, percent, a, b)
<1>1. ASSUME Chained(tc, Flip(P), percent, Turn - b, Turn - a)
      PROVE  Chained(ch, P, percent, a, b)
  <2> DEFINE Q == Flip(P)
             x == Turn - b
             y == Turn - a
  <2>1. Q \in SUBSET Int /\ IsFiniteSet(Q) /\ x \in Q /\ y \in Q /\ Mirror(tc, ch)
    <3>1. P # {}
      OBVIOUS
    <3> QED
      BY <3>1, FlipExtremes, FlipFlip, MirrorBack
  <2>2. Flip(Q) = P /\ Turn - y = a /\ Turn - x = b
    BY FlipFlip, TurnWhole
  <2>3. Chained(tc, Q, percent, x, y)
    BY <1>1
  <2> HIDE DEF Q, x, y
  <2>4. Chained(ch, Flip(Q), percent, Turn - y, Turn - x)
    BY <2>1, <2>3, ChainedTurned
  <2> QED
    BY <2>2, <2>4
<1> QED
  BY <1>1, ChainedTurned

\* The prices of one cluster, from one of its prices.
ClusterOf(w, P, percent, a) ==
    {b \in P : Chained(w, P, percent, Min({a, b}), Max({a, b}))}

LEMMA MirrorCluster ==
    ASSUME NEW ch, NEW tc, Mirror(ch, tc), NEW P \in SUBSET Int, IsFiniteSet(P),
           NEW a \in P, NEW percent \in Nat
    PROVE  ClusterOf(tc, Flip(P), percent, Turn - a) = Flip(ClusterOf(ch, P, percent, a))
<1> DEFINE c == ClusterOf(ch, P, percent, a)
           d == ClusterOf(tc, Flip(P), percent, Turn - a)
<1>1. ASSUME NEW b \in P
      PROVE  Turn - b \in d <=> b \in c
  <2> DEFINE x == Turn - a
             y == Turn - b
  <2>1. x \in Int /\ y \in Int /\ a \in Int /\ b \in Int /\ y \in Flip(P)
    BY TurnWhole, FlipFlip
  <2>2. /\ Min({a, b}) = (IF a <= b THEN a ELSE b) /\ Max({a, b}) = (IF a >= b THEN a ELSE b)
        /\ Min({x, y}) = (IF x <= y THEN x ELSE y) /\ Max({x, y}) = (IF x >= y THEN x ELSE y)
    <3> HIDE DEF x, y
    <3> QED
      BY <2>1, MaxOfTwo
  <2>3. Min({a, b}) \in P /\ Max({a, b}) \in P
    BY <2>2
  <2>4. Min({x, y}) = Turn - Max({a, b}) /\ Max({x, y}) = Turn - Min({a, b})
    BY <2>1, <2>2, TurnWhole
  <2>5. Chained(tc, Flip(P), percent, Min({x, y}), Max({x, y}))
          <=> Chained(ch, P, percent, Min({a, b}), Max({a, b}))
    <3> DEFINE lo == Min({a, b})
               hi == Max({a, b})
    <3> HIDE DEF lo, hi
    <3>1. lo \in P /\ hi \in P
      BY <2>3 DEF lo, hi
    <3>2. Chained(tc, Flip(P), percent, Turn - hi, Turn - lo) <=> Chained(ch, P, percent, lo, hi)
      BY <3>1, MirrorChained
    <3>3. Min({x, y}) = Turn - hi /\ Max({x, y}) = Turn - lo
      BY <2>4 DEF lo, hi
    <3> HIDE DEF x, y
    <3> QED
      BY <3>2, <3>3 DEF lo, hi
  <2> QED
    BY <2>1, <2>5 DEF ClusterOf
<1>2. c \in SUBSET P /\ d \in SUBSET Flip(P) /\ Flip(P) \in SUBSET Int
  BY FlipFlip DEF ClusterOf
<1> HIDE DEF c, d
<1>3. \A x \in Int : x \in d <=> x \in Flip(c)
  <2> TAKE x \in Int
  <2>1. x \in Flip(c) <=> Turn - x \in c
    <3>1. c \in SUBSET Int
      BY <1>2
    <3> QED
      BY <3>1, FlipFlip
  <2> DEFINE b == Turn - x
  <2>2. b \in Int /\ x = Turn - b
    BY TurnWhole
  <2> HIDE DEF b
  <2>3. x \in Flip(P) <=> b \in P
    BY <2>2, FlipFlip
  <2>4. x \in d <=> b \in c
    BY <1>1, <1>2, <2>2, <2>3
  <2> QED
    BY <2>1, <2>4 DEF b
<1>4. Flip(c) \in SUBSET Int
  BY <1>2, FlipFlip
<1> QED
  BY <1>2, <1>3, <1>4 DEF c, d

LEMMA MirrorClusters ==
    ASSUME NEW ch, NEW tc, Mirror(ch, tc), NEW P \in SUBSET Int, IsFiniteSet(P),
           NEW percent \in Nat
    PROVE  /\ Clusters(tc, Flip(P), percent) = {Flip(c) : c \in Clusters(ch, P, percent)}
           /\ \A c \in Clusters(ch, P, percent) :
                 c \in SUBSET P /\ c \in SUBSET Int /\ IsFiniteSet(c) /\ c # {}
           /\ IsFiniteSet(Clusters(ch, P, percent))
<1>1. Clusters(ch, P, percent) = {ClusterOf(ch, P, percent, a) : a \in P}
  BY DEF Clusters, ClusterOf
<1>2. Clusters(tc, Flip(P), percent) = {ClusterOf(tc, Flip(P), percent, a) : a \in Flip(P)}
  BY DEF Clusters, ClusterOf
<1>3. {ClusterOf(tc, Flip(P), percent, a) : a \in Flip(P)}
        = {ClusterOf(tc, Flip(P), percent, Turn - a) : a \in P}
  BY Zenon DEF Flip
<1>4. \A a \in P : ClusterOf(tc, Flip(P), percent, Turn - a) = Flip(ClusterOf(ch, P, percent, a))
  BY MirrorCluster
<1>5. Clusters(tc, Flip(P), percent) = {Flip(c) : c \in Clusters(ch, P, percent)}
  BY <1>1, <1>2, <1>3, <1>4
<1>6. \A a \in P : /\ ClusterOf(ch, P, percent, a) \in SUBSET P
                   /\ a \in ClusterOf(ch, P, percent, a)
  <2> TAKE a \in P
  <2>1. ClusterOf(ch, P, percent, a) \in SUBSET P
    BY DEF ClusterOf
  <2>2. a \in ClusterOf(ch, P, percent, a)
    <3>1. a \in Int
      OBVIOUS
    <3>2. Min({a, a}) = a /\ Max({a, a}) = a
      BY <3>1, MaxOfTwo
    <3>3. Chained(ch, P, percent, a, a)
      BY <3>1 DEF Chained
    <3> QED
      BY <3>2, <3>3 DEF ClusterOf
  <2> QED
    BY <2>1, <2>2
<1>7. \A c \in Clusters(ch, P, percent) :
         c \in SUBSET P /\ c \in SUBSET Int /\ IsFiniteSet(c) /\ c # {}
  <2> TAKE c \in Clusters(ch, P, percent)
  <2>1. PICK a \in P : c = ClusterOf(ch, P, percent, a)
    BY <1>1
  <2>2. c \in SUBSET P /\ c # {}
    BY <1>6, <2>1
  <2>3. IsFiniteSet(c)
    BY <2>2, FS_Subset
  <2>4. c \in SUBSET Int
    BY <2>2
  <2> QED
    BY <2>2, <2>3, <2>4
<1>8. IsFiniteSet(Clusters(ch, P, percent))
  <2> DEFINE f == [a \in P |-> ClusterOf(ch, P, percent, a)]
  <2>1. f \in Surjection(P, Clusters(ch, P, percent))
    BY <1>1 DEF Surjection
  <2> QED
    BY <2>1, FS_Surjection
<1> QED
  BY <1>5, <1>7, <1>8

-----------------------------------------------------------------------------
(* Sums that are taken in the same order.                                  *)

Partial(v, S, f) == [s \in SUBSET S |-> Adds(v, f, s)]
\* The partial sums of v over the subsets of S, and the sum over S.
Partials(v, S) == CHOOSE f : f = Partial(v, S, f)
Total(v, S) == Partials(v, S)[S]

LEMMA PartialsExist ==
    ASSUME NEW S, IsFiniteSet(S), NEW v, \A x \in S : v[x] \in Int
    PROVE  Partials(v, S) = Partial(v, S, Partials(v, S))
<1>1. PICK f \in [SUBSET S -> Int] : \A s \in SUBSET S : f[s] = Adds(v, f, s)
  BY SumsExist
<1>2. f = Partial(v, S, f)
  BY <1>1 DEF Partial
<1>3. \E g : g = Partial(v, S, g)
  BY <1>2
<1> QED
  BY <1>3, Zenon DEF Partials

(* What is never negative adds up to what is not: of the partial sums that *)
(* were, one over the fewest would have lost a summand that is.            *)
LEMMA TotalOfNaturals ==
    ASSUME NEW S, IsFiniteSet(S), NEW v, \A x \in S : v[x] \in Nat
    PROVE  Total(v, S) \in Nat
<1> DEFINE f == Partials(v, S)
           bad == {n \in Nat : \E s \in SUBSET S : Cardinality(s) = n /\ f[s] \notin Nat}
<1>1. f = Partial(v, S, f)
  BY PartialsExist
<1> HIDE DEF f
<1>2. \A s \in SUBSET S : IsFiniteSet(s) /\ Cardinality(s) \in Nat /\ f[s] = Adds(v, f, s)
  BY <1>1, FS_Subset, FS_CardinalityType DEF Partial
<1>3. bad = {}
  <2> SUFFICES ASSUME bad # {} PROVE FALSE
    OBVIOUS
  <2> DEFINE n == Min(bad)
  <2>1. n \in bad /\ \A k \in bad : n <= k
    BY LeastOf
  <2> HIDE DEF n
  <2>2. PICK s \in SUBSET S : Cardinality(s) = n /\ f[s] \notin Nat
    BY <2>1
  <2>3. s # {}
    <3> SUFFICES ASSUME s = {} PROVE FALSE
      OBVIOUS
    <3>1. f[s] = 0
      BY <1>2 DEF Adds
    <3> QED
      BY <2>2, <3>1
  <2> DEFINE x == OneOf(s)
             r == s \ {x}
  <2>4. x \in s
    BY <2>3 DEF OneOf
  <2> HIDE DEF x
  <2>5. r \in SUBSET S /\ Cardinality(r) = n - 1 /\ Cardinality(r) \in Nat
    BY <1>2, <2>2, <2>4, FS_RemoveElement
  <2>6. f[s] = v[x] + f[r]
    BY <1>2, <2>3 DEF Adds, x
  <2> HIDE DEF r
  <2>7. f[r] \in Nat
    <3>1. Cardinality(r) \notin bad
      BY <2>1, <2>5
    <3> QED
      BY <2>5, <3>1
  <2>8. v[x] \in Nat
    BY <2>4
  <2> QED
    BY <2>2, <2>6, <2>7, <2>8
<1>4. Cardinality(S) \in Nat /\ Cardinality(S) \notin bad
  BY <1>2, <1>3
<1> QED
  BY <1>4 DEF Total, f

\* u is v turned about a times k.
Turns(u, v, k, a, S) ==
    \A x \in S : v[x] \in Int /\ k[x] \in Int /\ u[x] = a * k[x] - v[x]

(* The sum of what is turned about a multiple is the sum turned. *)
LEMMA TotalTurned ==
    ASSUME NEW S, IsFiniteSet(S), NEW u, NEW v, NEW k, NEW a \in Int,
           Turns(u, v, k, a, S)
    PROVE  /\ Total(v, S) \in Int /\ Total(k, S) \in Int
           /\ Total(u, S) = a * Total(k, S) - Total(v, S)
<1> DEFINE f == Partials(u, S)
           g == Partials(v, S)
           h == Partials(k, S)
           ok(s) == g[s] \in Int /\ h[s] \in Int /\ f[s] = a * h[s] - g[s]
           bad == {n \in Nat : \E s \in SUBSET S : Cardinality(s) = n /\ ~ok(s)}
<1>0. \A x \in S : v[x] \in Int /\ k[x] \in Int /\ u[x] = a * k[x] - v[x]
  BY DEF Turns
<1>1. f = Partial(u, S, f) /\ g = Partial(v, S, g) /\ h = Partial(k, S, h)
  <2>1. \A x \in S : u[x] \in Int
    <3> TAKE x \in S
    <3>1. a * k[x] \in Int
      BY <1>0, SMT
    <3> QED
      BY <1>0, <3>1
  <2> QED
    BY <1>0, <2>1, PartialsExist
<1> HIDE DEF f, g, h
<1>2. \A s \in SUBSET S : /\ IsFiniteSet(s) /\ Cardinality(s) \in Nat
                          /\ f[s] = Adds(u, f, s) /\ g[s] = Adds(v, g, s) /\ h[s] = Adds(k, h, s)
  BY <1>1, FS_Subset, FS_CardinalityType DEF Partial
<1>3. bad = {}
  <2> SUFFICES ASSUME bad # {} PROVE FALSE
    OBVIOUS
  <2> DEFINE n == Min(bad)
  <2>1. n \in bad /\ \A j \in bad : n <= j
    BY LeastOf
  <2> HIDE DEF n
  <2>2. PICK s \in SUBSET S : Cardinality(s) = n /\ ~ok(s)
    BY <2>1
  <2>3. s # {}
    <3> SUFFICES ASSUME s = {} PROVE FALSE
      OBVIOUS
    <3>1. f[s] = 0 /\ g[s] = 0 /\ h[s] = 0
      BY <1>2 DEF Adds
    <3>2. a * 0 - 0 = 0
      BY SMT
    <3> QED
      BY <2>2, <3>1, <3>2
  <2> DEFINE x == OneOf(s)
             r == s \ {x}
  <2>4. x \in s /\ x \in S
    BY <2>3 DEF OneOf
  <2> HIDE DEF x
  <2>5. r \in SUBSET S /\ Cardinality(r) = n - 1 /\ Cardinality(r) \in Nat
    BY <1>2, <2>2, <2>4, FS_RemoveElement
  <2>6. f[s] = u[x] + f[r] /\ g[s] = v[x] + g[r] /\ h[s] = k[x] + h[r]
    BY <1>2, <2>3 DEF Adds, x
  <2> HIDE DEF r
  <2>7. ok(r)
    <3>1. Cardinality(r) \notin bad
      BY <2>1, <2>5
    <3> HIDE DEF ok
    <3> QED
      BY <2>5, <3>1
  <2> DEFINE vx == v[x]
             kx == k[x]
             gr == g[r]
             hr == h[r]
  <2>8. vx \in Int /\ kx \in Int /\ gr \in Int /\ hr \in Int
        /\ u[x] = a * kx - vx /\ f[r] = a * hr - gr
    BY <1>0, <2>4, <2>7
  <2>9. g[s] = vx + gr /\ h[s] = kx + hr /\ f[s] = (a * kx - vx) + (a * hr - gr)
    BY <2>6, <2>8
  <2> HIDE DEF vx, kx, gr, hr
  <2>10. (a * kx - vx) + (a * hr - gr) = a * (kx + hr) - (vx + gr)
    BY <2>8, SMT
  <2>11. vx + gr \in Int /\ kx + hr \in Int
    BY <2>8
  <2> QED
    BY <2>2, <2>9, <2>10, <2>11
<1>4. Cardinality(S) \in Nat /\ Cardinality(S) \notin bad
  BY <1>2, <1>3
<1>5. ok(S)
  <2> HIDE DEF ok
  <2> QED
    BY <1>4
<1> QED
  BY <1>5 DEF Total, f, g, h

(* Volumes add up to one that is not negative. *)
LEMMA VolumeNatural ==
    ASSUME NEW ch, ChartOK(ch), NEW S \in SUBSET (1..Len(ch))
    PROVE  VolumeOf(ch, S) \in Nat /\ IsFiniteSet(S) /\ Cardinality(S) \in Nat
<1> DEFINE v == [i \in S |-> ch[i].v]
           step(f) == [s \in SUBSET S |-> IF s = {} THEN 0 ELSE ch[OneOf(s)].v + f[s \ {OneOf(s)}]]
<1>1. IsFiniteSet(S) /\ Cardinality(S) \in Nat
  <2>1. Len(ch) \in Int /\ 1 \in Int
    BY ChartFacts
  <2>2. IsFiniteSet(1..Len(ch))
    BY <2>1, FS_Interval
  <2> QED
    BY <2>2, FS_Subset, FS_CardinalityType
<1>2. \A x \in S : v[x] \in Nat
  BY ChartFacts DEF Candle
<1>3. VolumeOf(ch, S) = (CHOOSE f : f = step(f))[S]
  BY Zenon DEF VolumeOf, MapThenSumSet, MapThenFoldSet, OneOf
<1>4. \A f : step(f) = Partial(v, S, f)
  <2> TAKE f
  <2>1. \A s \in SUBSET S : s # {} => v[OneOf(s)] = ch[OneOf(s)].v
    BY DEF OneOf
  <2> HIDE DEF v
  <2> QED
    BY <2>1 DEF Adds, Partial
<1>5. (CHOOSE f : f = step(f)) = Partials(v, S)
  <2> HIDE DEF step, v
  <2> QED
    BY <1>4, Zenon DEF Partials
<1> HIDE DEF step, v
<1>6. VolumeOf(ch, S) = Total(v, S)
  BY <1>3, <1>5, Zenon DEF Total
<1> QED
  BY <1>1, <1>2, <1>6, TotalOfNaturals

\* Where the ends of a zone are turned from, and a zone turned.
Whole(w) == Unit(w) * Turn
OtherEnd(s) == CASE s = "support" -> "resistance" [] s = "resistance" -> "support"
                 [] OTHER -> "none"
Over(w, z) ==
    [lo |-> Whole(w) - z.hi, hi |-> Whole(w) - z.lo, touches |-> z.touches,
     strength |-> z.strength, side |-> OtherEnd(z.side)]

LEMMA UnitFacts ==
    ASSUME NEW ch, NEW tc, Mirror(ch, tc)
    PROVE  /\ Unit(ch) \in Int /\ Unit(tc) = Unit(ch)
           /\ Whole(ch) \in Int /\ Whole(tc) = Whole(ch)
           /\ \A x \in Int : /\ Unit(ch) * x \in Int
                             /\ Unit(ch) * (Turn - x) = Whole(ch) - Unit(ch) * x
<1>1. AtrCount(ch) \in Int /\ AtrCount(tc) = AtrCount(ch)
  BY MirrorAtr
<1>2. Unit(ch) \in Int /\ Unit(tc) = Unit(ch)
  BY <1>1 DEF Unit
<1>3. Whole(ch) \in Int /\ Whole(tc) = Whole(ch)
  BY <1>2, TurnWhole, SMT DEF Whole
<1>4. ASSUME NEW x \in Int
      PROVE  Unit(ch) * x \in Int /\ Unit(ch) * (Turn - x) = Whole(ch) - Unit(ch) * x
  <2> DEFINE u == Unit(ch)
             a == Turn
  <2>1. u \in Int /\ a \in Int
    BY <1>2, TurnWhole
  <2> HIDE DEF u, a
  <2>2. u * x \in Int /\ u * (a - x) = u * a - u * x
    BY <2>1, SMT
  <2> QED
    BY <2>2 DEF u, a, Whole
<1> QED
  BY <1>2, <1>3, <1>4

\* The candles that touch a zone, close in it, or are turned away from it.
Touching(w, lo, hi) == {i \in DOMAIN w : Unit(w) * w[i].l <= hi /\ Unit(w) * w[i].h >= lo}
Inside(w, lo, hi) == {i \in DOMAIN w : lo <= Unit(w) * w[i].c /\ Unit(w) * w[i].c <= hi}
Rejected(w, lo, hi) ==
    {i \in DOMAIN w : \/ Unit(w) * w[i].h >= lo /\ Unit(w) * w[i].c < lo
                      \/ Unit(w) * w[i].l <= hi /\ Unit(w) * w[i].c > hi}
VolumeShare(w, touching) ==
    IF touching = {} \/ VolumeOf(w, DOMAIN w) = 0 THEN 0
    ELSE (100 * VolumeOf(w, touching) * Len(w)) \div (Cardinality(touching) * VolumeOf(w, DOMAIN w))
Strength(w, lo, hi) ==
    100 * Cardinality(Touching(w, lo, hi)) + SR_WICK_BONUS * Cardinality(Rejected(w, lo, hi))
    + VolumeShare(w, Touching(w, lo, hi)) + 25 * Cardinality(Inside(w, lo, hi))

LEMMA ScoredIs ==
    ASSUME NEW w, NEW lo, NEW hi
    PROVE  Scored(w, lo, hi) =
             [lo |-> lo, hi |-> hi, touches |-> Cardinality(Touching(w, lo, hi)),
              strength |-> Strength(w, lo, hi),
              side |-> IF lo + hi >= 2 * Unit(w) * Now(w).c THEN "resistance" ELSE "support"]
  BY Zenon DEF Scored, Strength, VolumeShare, Touching, Inside, Rejected

(* The same candles touch a zone and the zone turned, for the same reasons. *)
LEMMA MirrorTouching ==
    ASSUME NEW ch, NEW tc, Mirror(ch, tc), NEW lo \in Int, NEW hi \in Int
    PROVE  LET l == Whole(ch) - hi
               h == Whole(ch) - lo IN
           /\ Touching(tc, l, h) = Touching(ch, lo, hi)
           /\ Inside(tc, l, h) = Inside(ch, lo, hi)
           /\ Rejected(tc, l, h) = Rejected(ch, lo, hi)
<1> DEFINE l == Whole(ch) - hi
           h == Whole(ch) - lo
           W == Whole(ch)
<1>1. DOMAIN tc = DOMAIN ch /\ W \in Int
  BY MirrorFacts, UnitFacts
<1>2. ASSUME NEW i \in DOMAIN ch
      PROVE  LET L == Unit(ch) * ch[i].l
                 H == Unit(ch) * ch[i].h
                 C == Unit(ch) * ch[i].c IN
             /\ L \in Int /\ H \in Int /\ C \in Int
             /\ Unit(tc) * tc[i].l = W - H
             /\ Unit(tc) * tc[i].h = W - L
             /\ Unit(tc) * tc[i].c = W - C
  <2>1. /\ ch[i].l \in Int /\ ch[i].h \in Int /\ ch[i].c \in Int
        /\ tc[i].l = Turn - ch[i].h /\ tc[i].h = Turn - ch[i].l /\ tc[i].c = Turn - ch[i].c
    BY MirrorFacts
  <2> HIDE DEF W
  <2> QED
    BY <2>1, UnitFacts DEF W
<1> HIDE DEF W
<1>3. \A i \in DOMAIN ch :
        /\ Unit(tc) * tc[i].l <= h /\ Unit(tc) * tc[i].h >= l
             <=> Unit(ch) * ch[i].l <= hi /\ Unit(ch) * ch[i].h >= lo
        /\ l <= Unit(tc) * tc[i].c /\ Unit(tc) * tc[i].c <= h
             <=> lo <= Unit(ch) * ch[i].c /\ Unit(ch) * ch[i].c <= hi
        /\ (\/ Unit(tc) * tc[i].h >= l /\ Unit(tc) * tc[i].c < l
            \/ Unit(tc) * tc[i].l <= h /\ Unit(tc) * tc[i].c > h)
             <=> (\/ Unit(ch) * ch[i].h >= lo /\ Unit(ch) * ch[i].c < lo
                  \/ Unit(ch) * ch[i].l <= hi /\ Unit(ch) * ch[i].c > hi)
  <2> TAKE i \in DOMAIN ch
  <2> DEFINE L == Unit(ch) * ch[i].l
             H == Unit(ch) * ch[i].h
             C == Unit(ch) * ch[i].c
             L2 == Unit(tc) * tc[i].l
             H2 == Unit(tc) * tc[i].h
             C2 == Unit(tc) * tc[i].c
  <2>1. /\ L \in Int /\ H \in Int /\ C \in Int
        /\ L2 = W - H /\ H2 = W - L /\ C2 = W - C
    BY <1>2
  <2>2. l = W - hi /\ h = W - lo
    BY DEF W
  <2> HIDE DEF L, H, C, L2, H2, C2, l, h
  <2>3. /\ L2 <= h /\ H2 >= l <=> L <= hi /\ H >= lo
        /\ l <= C2 /\ C2 <= h <=> lo <= C /\ C <= hi
        /\ ((H2 >= l /\ C2 < l) \/ (L2 <= h /\ C2 > h))
             <=> ((H >= lo /\ C < lo) \/ (L <= hi /\ C > hi))
    <3>1. L2 <= h <=> H >= lo
      BY <1>1, <2>1, <2>2
    <3>2. H2 >= l <=> L <= hi
      BY <1>1, <2>1, <2>2
    <3>3. l <= C2 <=> C <= hi
      BY <1>1, <2>1, <2>2
    <3>4. C2 <= h <=> lo <= C
      BY <1>1, <2>1, <2>2
    <3>5. C2 < l <=> C > hi
      BY <1>1, <2>1, <2>2
    <3>6. C2 > h <=> C < lo
      BY <1>1, <2>1, <2>2
    <3> QED
      BY <3>1, <3>2, <3>3, <3>4, <3>5, <3>6, Zenon
  <2> QED
    BY <2>3, Zenon DEF L, H, C, L2, H2, C2
<1> HIDE DEF l, h
<1>4. Touching(tc, l, h) = Touching(ch, lo, hi)
  BY <1>1, <1>3, Zenon DEF Touching
<1>5. Inside(tc, l, h) = Inside(ch, lo, hi)
  BY <1>1, <1>3, Zenon DEF Inside
<1>6. Rejected(tc, l, h) = Rejected(ch, lo, hi)
  BY <1>1, <1>3, Zenon DEF Rejected
<1> QED
  BY <1>4, <1>5, <1>6 DEF l, h

(* They are as strong, and are touched as often. *)
LEMMA MirrorStrength ==
    ASSUME NEW ch, NEW tc, Mirror(ch, tc), NEW lo \in Int, NEW hi \in Int
    PROVE  LET l == Whole(ch) - hi
               h == Whole(ch) - lo IN
           /\ Strength(tc, l, h) = Strength(ch, lo, hi)
           /\ Strength(ch, lo, hi) \in Int
           /\ Cardinality(Touching(tc, l, h)) = Cardinality(Touching(ch, lo, hi))
<1> DEFINE l == Whole(ch) - hi
           h == Whole(ch) - lo
           T == Touching(ch, lo, hi)
           D == DOMAIN ch
<1>1. /\ Touching(tc, l, h) = T
      /\ Inside(tc, l, h) = Inside(ch, lo, hi)
      /\ Rejected(tc, l, h) = Rejected(ch, lo, hi)
  BY MirrorTouching
<1>2. /\ DOMAIN tc = D /\ D = 1..Len(ch) /\ Len(tc) = Len(ch) /\ Len(ch) \in Nat
      /\ ChartOK(ch)
  BY MirrorFacts DEF Mirror
<1>3. /\ T \in SUBSET D /\ Inside(ch, lo, hi) \in SUBSET D /\ Rejected(ch, lo, hi) \in SUBSET D
  BY DEF Touching, Inside, Rejected
<1>4. VolumeOf(tc, D) = VolumeOf(ch, D) /\ VolumeOf(tc, T) = VolumeOf(ch, T)
  BY <1>2, <1>3, MirrorVolume
<1>5. VolumeShare(tc, T) = VolumeShare(ch, T)
  BY <1>2, <1>4 DEF VolumeShare
<1>6. Strength(tc, l, h) = Strength(ch, lo, hi)
  <2> HIDE DEF l, h
  <2> QED
    BY <1>1, <1>5 DEF Strength
<1>7. /\ VolumeOf(ch, D) \in Nat /\ VolumeOf(ch, T) \in Nat
      /\ Cardinality(T) \in Nat /\ IsFiniteSet(T)
      /\ Cardinality(Inside(ch, lo, hi)) \in Nat /\ Cardinality(Rejected(ch, lo, hi)) \in Nat
  BY <1>2, <1>3, VolumeNatural
<1>8. VolumeShare(ch, T) \in Int
  <2>1. CASE T = {} \/ VolumeOf(ch, D) = 0
    BY <2>1 DEF VolumeShare
  <2>2. CASE ~(T = {} \/ VolumeOf(ch, D) = 0)
    <3> DEFINE x == 100 * VolumeOf(ch, T) * Len(ch)
               y == Cardinality(T) * VolumeOf(ch, D)
    <3>1. Cardinality(T) # 0
      BY <1>7, <2>2, FS_EmptySet
    <3>2. x \in Int /\ y \in Nat /\ y > 0
      BY <1>2, <1>7, <2>2, <3>1, SMT
    <3>3. VolumeShare(ch, T) = x \div y
      BY <2>2 DEF VolumeShare
    <3> HIDE DEF x, y
    <3>4. x \div y \in Int
      BY <3>2, SMT
    <3> QED
      BY <3>3, <3>4
  <2> QED
    BY <2>1, <2>2
<1>9. Strength(ch, lo, hi) \in Int
  <2> DEFINE a == Cardinality(T)
             b == SR_WICK_BONUS * Cardinality(Rejected(ch, lo, hi))
             c == VolumeShare(ch, T)
             d == Cardinality(Inside(ch, lo, hi))
  <2>1. b \in Int
    BY <1>7, LevelsAssumption, SMT
  <2>2. a \in Int /\ c \in Int /\ d \in Int
    BY <1>7, <1>8
  <2>3. Strength(ch, lo, hi) = 100 * a + b + c + 25 * d
    BY DEF Strength
  <2> HIDE DEF a, b, c, d
  <2> QED
    BY <2>1, <2>2, <2>3
<1> QED
  BY <1>1, <1>6, <1>9

(* A zone turned is on the other side, unless it is centred on the close. *)
LEMMA MirrorScored ==
    ASSUME NEW ch, NEW tc, Mirror(ch, tc), NEW lo \in Int, NEW hi \in Int
    PROVE  LET z == Scored(ch, lo, hi)
               y == Scored(tc, Whole(ch) - hi, Whole(ch) - lo) IN
           /\ lo + hi # 2 * Unit(ch) * Now(ch).c => y = Over(ch, z)
           /\ y.touches = z.touches
           /\ z.lo = lo /\ z.hi = hi /\ z.strength \in Int
           /\ z.side \in {"support", "resistance"}
<1> DEFINE l == Whole(ch) - hi
           h == Whole(ch) - lo
           z == Scored(ch, lo, hi)
           y == Scored(tc, l, h)
           x == Unit(ch) * Now(ch).c
           u == Unit(tc) * Now(tc).c
           side(a, b, c) == IF a + b >= 2 * c THEN "resistance" ELSE "support"
<1>1. /\ Strength(tc, l, h) = Strength(ch, lo, hi)
      /\ Strength(ch, lo, hi) \in Int
      /\ Cardinality(Touching(tc, l, h)) = Cardinality(Touching(ch, lo, hi))
  BY MirrorStrength
<1>2. x \in Int /\ u = Whole(ch) - x /\ Whole(ch) \in Int
      /\ 2 * Unit(ch) * Now(ch).c = 2 * x /\ 2 * Unit(tc) * Now(tc).c = 2 * u
  <2>1. Now(ch).c \in Int /\ Now(tc).c = Turn - Now(ch).c
    BY MirrorNow
  <2>2. Unit(ch) \in Int /\ Unit(tc) = Unit(ch) /\ Now(tc).c \in Int
    BY <2>1, UnitFacts, TurnWhole
  <2>3. \A a, b \in Int : 2 * a * b = 2 * (a * b)
    BY SMT
  <2>4. x \in Int /\ u = Whole(ch) - x /\ Whole(ch) \in Int
    BY <2>1, UnitFacts
  <2> QED
    BY <2>1, <2>2, <2>3, <2>4
<1>3. z = [lo |-> lo, hi |-> hi, touches |-> Cardinality(Touching(ch, lo, hi)),
           strength |-> Strength(ch, lo, hi), side |-> side(lo, hi, x)]
  <2> HIDE DEF x
  <2>1. 2 * Unit(ch) * Now(ch).c = 2 * x
    BY <1>2
  <2> QED
    BY <2>1, ScoredIs
<1>4. y = [lo |-> l, hi |-> h, touches |-> Cardinality(Touching(ch, lo, hi)),
           strength |-> Strength(ch, lo, hi), side |-> side(l, h, u)]
  <2> HIDE DEF u, l, h
  <2>1. 2 * Unit(tc) * Now(tc).c = 2 * u
    BY <1>2
  <2> QED
    BY <1>1, <2>1, ScoredIs
<1>5. lo + hi # 2 * x => side(l, h, u) = OtherEnd(side(lo, hi, x))
  <2> DEFINE W == Whole(ch)
  <2>1. l = W - hi /\ h = W - lo /\ u = W - x /\ W \in Int /\ x \in Int
    BY <1>2
  <2> HIDE DEF W, l, h, u, x
  <2>2. lo + hi # 2 * x => (l + h >= 2 * u <=> ~(lo + hi >= 2 * x))
    BY <2>1
  <2> QED
    BY <2>2 DEF OtherEnd
<1> HIDE DEF z, y
<1>6. lo + hi # 2 * x => y = Over(ch, z)
  <2> HIDE DEF x, u, side
  <2> QED
    BY <1>3, <1>4, <1>5 DEF Over
<1>7. lo + hi # 2 * Unit(ch) * Now(ch).c => y = Over(ch, z)
  BY <1>2, <1>6
<1> HIDE DEF x, u, l, h
<1>8. /\ y.touches = z.touches /\ z.lo = lo /\ z.hi = hi /\ z.strength \in Int
      /\ z.side \in {"support", "resistance"}
  BY <1>1, <1>3, <1>4
<1> QED
  BY <1>7, <1>8 DEF y, z, l, h

\* The prices zones are clustered from, and the ends of a cluster's zone.
SwingPrices(w) == HighsOf(w, SwingHighs(w)) \cup LowsOf(w, SwingLows(w))
Pad(w) == SR_ZONE_PAD_ATR * AtrSum(w)
LowEnd(w, c) == Unit(w) * Min(c) - Pad(w)
HighEnd(w, c) == Unit(w) * Max(c) + Pad(w)
ZoneOf(w, c) == Scored(w, LowEnd(w, c), HighEnd(w, c))
SwingClusters(w) == Clusters(w, SwingPrices(w), SR_CLUSTER_ATR_MULT)

LEMMA AllZonesAre ==
    ASSUME NEW w
    PROVE  AllZones(w) =
             {z \in {ZoneOf(w, c) : c \in SwingClusters(w)} : z.touches >= SR_MIN_TOUCHES}
  BY Zenon DEF AllZones, ZoneOf, LowEnd, HighEnd, Pad, SwingClusters, SwingPrices

LEMMA MirrorSwingClusters ==
    ASSUME NEW ch, NEW tc, Mirror(ch, tc)
    PROVE  /\ SwingClusters(tc) = {Flip(c) : c \in SwingClusters(ch)}
           /\ IsFiniteSet(SwingClusters(ch))
           /\ \A c \in SwingClusters(ch) :
                /\ LowEnd(ch, c) \in Int /\ HighEnd(ch, c) \in Int
                /\ LowEnd(tc, Flip(c)) = Whole(ch) - HighEnd(ch, c)
                /\ HighEnd(tc, Flip(c)) = Whole(ch) - LowEnd(ch, c)
<1> DEFINE P == SwingPrices(ch)
<1>1. /\ SwingHighs(tc) = SwingLows(ch) /\ SwingLows(tc) = SwingHighs(ch)
      /\ SwingHighs(ch) \in SUBSET (1..Len(ch)) /\ SwingLows(ch) \in SUBSET (1..Len(ch))
  BY MirrorSwings
<1> DEFINE h == HighsOf(ch, SwingHighs(ch))
           l == LowsOf(ch, SwingLows(ch))
<1>2. /\ h \in SUBSET Int /\ IsFiniteSet(h) /\ l \in SUBSET Int /\ IsFiniteSet(l)
      /\ HighsOf(tc, SwingHighs(tc)) = Flip(l) /\ LowsOf(tc, SwingLows(tc)) = Flip(h)
  BY <1>1, MirrorPrices
<1>3. P \in SUBSET Int /\ IsFiniteSet(P)
  <2>1. P = h \cup l
    BY DEF SwingPrices
  <2> HIDE DEF h, l, P
  <2> QED
    BY <1>2, <2>1, FS_Union
<1>4. SwingPrices(tc) = Flip(P)
  <2>1. P = h \cup l /\ SwingPrices(tc) = Flip(l) \cup Flip(h)
    BY <1>2 DEF SwingPrices
  <2> HIDE DEF h, l, P
  <2> QED
    BY <2>1 DEF Flip
<1> HIDE DEF P
<1>5. SR_CLUSTER_ATR_MULT \in Nat
  BY LevelsAssumption
<1>6. /\ SwingClusters(tc) = {Flip(c) : c \in SwingClusters(ch)}
      /\ IsFiniteSet(SwingClusters(ch))
      /\ \A c \in SwingClusters(ch) : c \in SUBSET Int /\ IsFiniteSet(c) /\ c # {}
  <2>1. SwingClusters(ch) = Clusters(ch, P, SR_CLUSTER_ATR_MULT)
    BY DEF SwingClusters, P
  <2>2. SwingClusters(tc) = Clusters(tc, Flip(P), SR_CLUSTER_ATR_MULT)
    BY <1>4 DEF SwingClusters
  <2> QED
    BY <1>3, <1>5, <2>1, <2>2, MirrorClusters
<1>7. Pad(ch) \in Int /\ Pad(tc) = Pad(ch)
  <2>1. AtrSum(ch) \in Int /\ AtrSum(tc) = AtrSum(ch) /\ SR_ZONE_PAD_ATR \in Nat
    BY MirrorAtr, LevelsAssumption
  <2> QED
    BY <2>1, SMT DEF Pad
<1>8. ASSUME NEW c \in SwingClusters(ch)
      PROVE  /\ LowEnd(ch, c) \in Int /\ HighEnd(ch, c) \in Int
             /\ LowEnd(tc, Flip(c)) = Whole(ch) - HighEnd(ch, c)
             /\ HighEnd(tc, Flip(c)) = Whole(ch) - LowEnd(ch, c)
  <2> DEFINE a == Min(c)
             b == Max(c)
  <2>1. Min(Flip(c)) = Turn - b /\ Max(Flip(c)) = Turn - a /\ a \in Int /\ b \in Int
    BY <1>6, FlipExtremes
  <2> HIDE DEF a, b
  <2>2. /\ Unit(ch) * a \in Int /\ Unit(ch) * (Turn - a) = Whole(ch) - Unit(ch) * a
        /\ Unit(ch) * b \in Int /\ Unit(ch) * (Turn - b) = Whole(ch) - Unit(ch) * b
        /\ Whole(ch) \in Int /\ Unit(tc) = Unit(ch)
    BY <2>1, UnitFacts
  <2> DEFINE x == Unit(ch) * a
             y == Unit(ch) * b
             p == Pad(ch)
             W == Whole(ch)
  <2>3. LowEnd(ch, c) = x - p /\ HighEnd(ch, c) = y + p
    BY DEF LowEnd, HighEnd, a, b
  <2>4. LowEnd(tc, Flip(c)) = (W - y) - p /\ HighEnd(tc, Flip(c)) = (W - x) + p
    BY <1>7, <2>1, <2>2 DEF LowEnd, HighEnd
  <2>5. x \in Int /\ y \in Int /\ p \in Int /\ W \in Int
    BY <1>7, <2>2
  <2> HIDE DEF x, y, p, W
  <2>6. /\ LowEnd(ch, c) \in Int /\ HighEnd(ch, c) \in Int
        /\ LowEnd(tc, Flip(c)) = W - HighEnd(ch, c)
        /\ HighEnd(tc, Flip(c)) = W - LowEnd(ch, c)
    BY <2>3, <2>4, <2>5
  <2> QED
    BY <2>6 DEF W
<1> QED
  BY <1>6, <1>8

\* No zone of a chart is centred on its last close, and no two are equally
\* strong.
Uncentred(w) == \A z \in AllZones(w) : z.lo + z.hi # 2 * Unit(w) * Now(w).c
Ranked(w) == \A x, y \in AllZones(w) : x.strength = y.strength => x = y

Zone(z) ==
    /\ z.lo \in Int /\ z.hi \in Int /\ z.strength \in Int
    /\ z.side \in {"support", "resistance"}

(* The zones of the chart turned are the zones turned. *)
LEMMA MirrorAllZones ==
    ASSUME NEW ch, NEW tc, Mirror(ch, tc), Uncentred(ch)
    PROVE  /\ AllZones(tc) = {Over(ch, z) : z \in AllZones(ch)}
           /\ IsFiniteSet(AllZones(ch))
           /\ \A z \in AllZones(ch) : Zone(z)
<1> DEFINE C == SwingClusters(ch)
<1>1. /\ SwingClusters(tc) = {Flip(c) : c \in C}
      /\ IsFiniteSet(C)
      /\ \A c \in C : /\ LowEnd(ch, c) \in Int /\ HighEnd(ch, c) \in Int
                      /\ LowEnd(tc, Flip(c)) = Whole(ch) - HighEnd(ch, c)
                      /\ HighEnd(tc, Flip(c)) = Whole(ch) - LowEnd(ch, c)
  BY MirrorSwingClusters
<1>2. /\ AllZones(ch) = {z \in {ZoneOf(ch, c) : c \in C} : z.touches >= SR_MIN_TOUCHES}
      /\ AllZones(tc) = {z \in {ZoneOf(tc, c) : c \in SwingClusters(tc)} : z.touches >= SR_MIN_TOUCHES}
  BY AllZonesAre
<1> HIDE DEF C
<1>3. ASSUME NEW c \in C
      PROVE  LET z == ZoneOf(ch, c)
                 y == ZoneOf(tc, Flip(c)) IN
             /\ z.lo + z.hi # 2 * Unit(ch) * Now(ch).c => y = Over(ch, z)
             /\ y.touches = z.touches
             /\ Zone(z)
  <2> DEFINE lo == LowEnd(ch, c)
             hi == HighEnd(ch, c)
             z == Scored(ch, lo, hi)
             y == Scored(tc, Whole(ch) - hi, Whole(ch) - lo)
  <2>1. lo \in Int /\ hi \in Int
    BY <1>1
  <2>2. ZoneOf(ch, c) = z /\ ZoneOf(tc, Flip(c)) = y
    BY <1>1 DEF ZoneOf
  <2> HIDE DEF lo, hi
  <2>3. /\ lo + hi # 2 * Unit(ch) * Now(ch).c => y = Over(ch, z)
        /\ y.touches = z.touches
        /\ z.lo = lo /\ z.hi = hi /\ z.strength \in Int
        /\ z.side \in {"support", "resistance"}
    BY <2>1, MirrorScored
  <2> HIDE DEF z, y
  <2> QED
    BY <2>1, <2>2, <2>3 DEF Zone
<1>4. ASSUME NEW z \in AllZones(ch) PROVE Over(ch, z) \in AllZones(tc)
  <2>1. PICK c \in C : z = ZoneOf(ch, c) /\ z.touches >= SR_MIN_TOUCHES
    BY <1>2
  <2>2. ZoneOf(tc, Flip(c)) = Over(ch, z) /\ Over(ch, z).touches >= SR_MIN_TOUCHES
    BY <1>3, <2>1 DEF Uncentred, Over
  <2>3. Flip(c) \in SwingClusters(tc)
    BY <1>1
  <2> QED
    BY <1>2, <2>2, <2>3
<1>5. ASSUME NEW y \in AllZones(tc) PROVE \E z \in AllZones(ch) : y = Over(ch, z)
  <2>1. PICK d \in SwingClusters(tc) : y = ZoneOf(tc, d) /\ y.touches >= SR_MIN_TOUCHES
    BY <1>2
  <2>2. PICK c \in C : d = Flip(c)
    BY <1>1
  <2>3. ZoneOf(ch, c).touches = y.touches
    BY <1>3, <2>1, <2>2
  <2>4. ZoneOf(ch, c) \in AllZones(ch)
    BY <1>2, <2>1, <2>3
  <2>5. y = Over(ch, ZoneOf(ch, c))
    BY <1>3, <2>1, <2>2, <2>4 DEF Uncentred
  <2> QED
    BY <2>4, <2>5
<1>6. IsFiniteSet(AllZones(ch))
  <2> DEFINE f == [c \in C |-> ZoneOf(ch, c)]
             found == {ZoneOf(ch, c) : c \in C}
  <2>1. f \in Surjection(C, found)
    BY DEF Surjection
  <2>2. IsFiniteSet(found)
    <3> HIDE DEF found, f
    <3> QED
      BY <1>1, <2>1, FS_Surjection
  <2>3. AllZones(ch) \in SUBSET found
    BY <1>2
  <2> QED
    BY <2>2, <2>3, FS_Subset
<1>7. \A z \in AllZones(ch) : Zone(z)
  BY <1>2, <1>3
<1> QED
  BY <1>4, <1>5, <1>6, <1>7

(* Turned zones compare as the zones do. *)
LEMMA OverCompares ==
    ASSUME NEW ch, NEW tc, Mirror(ch, tc), Uncentred(ch), Ranked(ch),
           NEW y \in AllZones(ch), NEW z \in AllZones(ch)
    PROVE  /\ Over(ch, y).side = Over(ch, z).side <=> y.side = z.side
           /\ Stronger(y, z) <=> y.strength > z.strength
           /\ Stronger(Over(ch, y), Over(ch, z)) <=> Stronger(y, z)
           /\ Over(ch, y) = Over(ch, z) => y = z
<1>1. Zone(y) /\ Zone(z) /\ Whole(ch) \in Int
  BY MirrorAllZones, UnitFacts
<1>2. y.strength = z.strength => y = z
  BY DEF Ranked
<1> DEFINE W == Whole(ch)
           p == Over(ch, y)
           q == Over(ch, z)
<1>3. /\ p.lo = W - y.hi /\ p.strength = y.strength /\ p.side = OtherEnd(y.side)
      /\ q.lo = W - z.hi /\ q.strength = z.strength /\ q.side = OtherEnd(z.side)
  BY DEF Over
<1> HIDE DEF p, q, W
<1>4. p.side = q.side <=> y.side = z.side
  BY <1>1, <1>3 DEF Zone, OtherEnd
<1>5. Stronger(y, z) <=> y.strength > z.strength
  <2>1. y = z => ~(y.lo < z.lo)
    BY <1>1 DEF Zone
  <2> QED
    BY <1>2, <2>1 DEF Stronger
<1>6. Stronger(p, q) <=> y.strength > z.strength
  <2>1. y = z => ~(p.lo < q.lo)
    <3>1. W - z.hi \in Int
      BY <1>1 DEF Zone, W
    <3> DEFINE x == W - z.hi
    <3>2. y = z => p.lo = x /\ q.lo = x
      BY <1>3
    <3> HIDE DEF x
    <3>3. ~(x < x)
      BY <3>1 DEF x
    <3> QED
      BY <3>2, <3>3
  <2> QED
    BY <1>2, <1>3, <2>1 DEF Stronger
<1>7. p = q => y = z
  BY <1>2, <1>3
<1> QED
  BY <1>4, <1>5, <1>6, <1>7 DEF p, q

\* The zones of a chart that come before one of theirs.
Ahead(w, z) == {y \in AllZones(w) : y.side = z.side /\ Stronger(y, z)}

LEMMA MirrorAhead ==
    ASSUME NEW ch, NEW tc, Mirror(ch, tc), Uncentred(ch), Ranked(ch),
           NEW z \in AllZones(ch)
    PROVE  Cardinality(Ahead(tc, Over(ch, z))) = Cardinality(Ahead(ch, z))
<1> DEFINE A == Ahead(ch, z)
           B == Ahead(tc, Over(ch, z))
           f == [y \in A |-> Over(ch, y)]
<1>1. AllZones(tc) = {Over(ch, y) : y \in AllZones(ch)} /\ IsFiniteSet(AllZones(ch))
  BY MirrorAllZones
<1>2. A \in SUBSET AllZones(ch) /\ IsFiniteSet(A)
  <2>1. A \in SUBSET AllZones(ch)
    BY DEF Ahead
  <2> QED
    BY <1>1, <2>1, FS_Subset
<1>3. \A y \in AllZones(ch) : Over(ch, y) \in B <=> y \in A
  <2> TAKE y \in AllZones(ch)
  <2>1. /\ Over(ch, y).side = Over(ch, z).side <=> y.side = z.side
        /\ Stronger(Over(ch, y), Over(ch, z)) <=> Stronger(y, z)
    BY OverCompares
  <2>2. Over(ch, y) \in AllZones(tc)
    BY <1>1
  <2> QED
    BY <2>1, <2>2 DEF Ahead
<1>4. \A x \in B : \E y \in A : Over(ch, y) = x
  <2> TAKE x \in B
  <2>1. x \in AllZones(tc)
    BY DEF Ahead
  <2>2. PICK y \in AllZones(ch) : x = Over(ch, y)
    BY <1>1, <2>1
  <2> HIDE DEF A, B
  <2> QED
    BY <1>3, <2>2
<1> HIDE DEF A, B
<1>5. f \in [A -> B]
  BY <1>2, <1>3
<1>6. \A x, y \in A : f[x] = f[y] => x = y
  <2> TAKE x, y \in A
  <2>1. Over(ch, x) = Over(ch, y) => x = y
    BY <1>2, OverCompares
  <2> QED
    BY <2>1
<1>7. \A x \in B : \E y \in A : f[y] = x
  BY <1>4
<1> HIDE DEF f
<1>8. f \in Bijection(A, B)
  BY <1>5, <1>6, <1>7 DEF Bijection, Injection, IsInjective, Surjection
<1>9. ExistsBijection(A, B)
  BY <1>8 DEF ExistsBijection
<1>10. Cardinality(B) = Cardinality(A)
  BY <1>2, <1>9, FS_Bijection
<1> QED
  BY <1>10 DEF A, B

LEMMA MirrorZones ==
    ASSUME NEW ch, NEW tc, Mirror(ch, tc), Uncentred(ch), Ranked(ch)
    PROVE  /\ Zones(tc) = {Over(ch, z) : z \in Zones(ch)}
           /\ ZonesHere(tc) = {Over(ch, z) : z \in ZonesHere(ch)}
           /\ ZonesHere(ch) \in SUBSET AllZones(ch)
<1>1. AllZones(tc) = {Over(ch, y) : y \in AllZones(ch)} /\ \A z \in AllZones(ch) : Zone(z)
  BY MirrorAllZones
<1>2. /\ Zones(ch) = {z \in AllZones(ch) : Cardinality(Ahead(ch, z)) < SR_MAX_ZONES}
      /\ Zones(tc) = {z \in AllZones(tc) : Cardinality(Ahead(tc, z)) < SR_MAX_ZONES}
  BY DEF Zones, Ahead
<1>3. \A z \in AllZones(ch) : Cardinality(Ahead(tc, Over(ch, z))) = Cardinality(Ahead(ch, z))
  BY MirrorAhead
<1>4. Zones(tc) = {Over(ch, z) : z \in Zones(ch)}
  BY <1>1, <1>2, <1>3
<1>5. Zones(ch) \in SUBSET AllZones(ch)
  BY <1>2
<1> DEFINE reach(w) == SR_PROXIMITY_ATR * AtrSum(w)
           price(w) == Unit(w) * Now(w).c
           here(w, z) == z.lo - reach(w) <= price(w) /\ price(w) <= z.hi + reach(w)
<1>6. reach(ch) \in Int /\ reach(tc) = reach(ch)
  <2>1. AtrSum(ch) \in Int /\ AtrSum(tc) = AtrSum(ch) /\ SR_PROXIMITY_ATR \in Nat
    BY MirrorAtr, LevelsAssumption
  <2> QED
    BY <2>1, SMT
<1>7. price(ch) \in Int /\ price(tc) = Whole(ch) - price(ch) /\ Whole(ch) \in Int
  <2>1. Now(ch).c \in Int /\ Now(tc).c = Turn - Now(ch).c
    BY MirrorNow
  <2> QED
    BY <2>1, UnitFacts
<1>8. ZonesHere(ch) = {z \in Zones(ch) : here(ch, z)} /\ ZonesHere(tc) = {z \in Zones(tc) : here(tc, z)}
  BY Zenon DEF ZonesHere
<1>9. \A z \in Zones(ch) : here(tc, Over(ch, z)) <=> here(ch, z)
  <2> TAKE z \in Zones(ch)
  <2>1. z.lo \in Int /\ z.hi \in Int
    BY <1>1, <1>5 DEF Zone
  <2>2. Over(ch, z).lo = Whole(ch) - z.hi /\ Over(ch, z).hi = Whole(ch) - z.lo
    BY DEF Over
  <2> DEFINE W == Whole(ch)
             r == reach(ch)
             x == price(ch)
             lo == z.lo
             hi == z.hi
  <2>3. here(tc, Over(ch, z)) <=> (W - hi) - r <= W - x /\ W - x <= (W - lo) + r
    BY <1>6, <1>7, <2>2
  <2>4. here(ch, z) <=> lo - r <= x /\ x <= hi + r
    OBVIOUS
  <2>5. W \in Int /\ r \in Int /\ x \in Int /\ lo \in Int /\ hi \in Int
    BY <1>6, <1>7, <2>1
  <2> HIDE DEF W, r, x, lo, hi, here
  <2> QED
    BY <2>3, <2>4, <2>5
<1> HIDE DEF here
<1>10. ZonesHere(tc) = {Over(ch, z) : z \in ZonesHere(ch)}
  BY <1>4, <1>8, <1>9
<1> QED
  BY <1>4, <1>5, <1>8, <1>10

(* The strongest zone within reach, of which there is one. *)
LEMMA MirrorAtZone ==
    ASSUME NEW ch, NEW tc, Mirror(ch, tc), NEW w, w = Window(ch, SR_LOOKBACK),
           Uncentred(w), Ranked(w)
    PROVE  /\ AtZone(tc) = TurnedZone(AtZone(ch))
           /\ AtZone(tc).side = OtherEnd(AtZone(ch).side)
           /\ AtZone(tc).major = AtZone(ch).major
           /\ AtZone(ch).side \in {"support", "resistance", "none"}
<1> DEFINE v == Window(tc, SR_LOOKBACK)
           near == ZonesHere(w)
           over == ZonesHere(v)
           best(S, z) == z \in S /\ \A y \in S : ~Stronger(y, z)
           strongest(S) == CHOOSE z \in S : \A y \in S : ~Stronger(y, z)
           told(z) == [side |-> z.side, major |-> z.touches >= SR_MAJOR_TOUCHES]
           none(c, x, S) == Len(c) < SR_MIN_TOUCHES + 2 \/ AtrSum(x) = 0 \/ S = {}
<1>1. Mirror(w, v)
  BY MirrorWindow, LevelsAssumption
<1>2. AtZone(ch) = IF none(ch, w, near) THEN NoZone ELSE told(strongest(near))
  BY Zenon DEF AtZone
<1>3. AtZone(tc) = IF none(tc, v, over) THEN NoZone ELSE told(strongest(over))
  BY Zenon DEF AtZone
<1> HIDE DEF v
<1>4. over = {Over(w, z) : z \in near} /\ near \in SUBSET AllZones(w)
  BY <1>1, MirrorZones
<1> HIDE DEF near, over
<1>5. none(tc, v, over) <=> none(ch, w, near)
  <2>1. Len(tc) = Len(ch) /\ AtrSum(v) = AtrSum(w)
    BY <1>1, MirrorAtr DEF Mirror
  <2> QED
    BY <1>4, <2>1
<1>6. CASE none(ch, w, near)
  <2>1. /\ NoZone = TurnedZone(NoZone) /\ NoZone.side = "none"
        /\ OtherEnd("none") = "none"
    BY DEF NoZone, TurnedZone, OtherEnd
  <2> QED
    BY <1>2, <1>3, <1>5, <1>6, <2>1
<1>7. CASE ~none(ch, w, near)
  <2>1. \A y, z \in near :
          /\ Stronger(y, z) <=> y.strength > z.strength
          /\ Stronger(Over(w, y), Over(w, z)) <=> Stronger(y, z)
          /\ y.strength \in Int /\ z.strength \in Int
          /\ y.strength = z.strength => y = z
    BY <1>1, <1>4, OverCompares, MirrorAllZones DEF Ranked, Zone
  <2>2. \E z : best(near, z)
    <3> DEFINE S == {y.strength : y \in near}
               f == [y \in near |-> y.strength]
    <3>1. IsFiniteSet(near)
      BY <1>1, <1>4, MirrorAllZones, FS_Subset
    <3>2. f \in Surjection(near, S)
      BY DEF Surjection
    <3>3. IsFiniteSet(S) /\ S \in SUBSET Int /\ S # {}
      BY <1>7, <2>1, <3>1, <3>2, FS_Surjection
    <3>4. Max(S) \in S /\ \A x \in S : x <= Max(S)
      <4> HIDE DEF S
      <4> QED
        BY <3>3, Extremes
    <3>5. PICK z \in near : Max(S) = z.strength
      BY <3>4
    <3>6. \A y \in near : ~(y.strength > z.strength)
      <4> TAKE y \in near
      <4>1. y.strength <= z.strength
        BY <3>4, <3>5
      <4> QED
        BY <2>1, <4>1
    <3> QED
      BY <2>1, <3>6
  <2>3. PICK z : best(near, z)
    BY <2>2
  <2>4. \A y : best(near, y) => y = z
    <3> SUFFICES ASSUME NEW y, best(near, y) PROVE y = z
      OBVIOUS
    <3>1. ~(y.strength > z.strength) /\ ~(z.strength > y.strength)
      BY <2>1, <2>3
    <3> QED
      BY <2>1, <2>3, <3>1
  <2>5. best(over, Over(w, z))
    BY <1>4, <2>1, <2>3
  <2>6. \A x : best(over, x) => x = Over(w, z)
    <3> SUFFICES ASSUME NEW x, best(over, x) PROVE x = Over(w, z)
      OBVIOUS
    <3>1. PICK y \in near : x = Over(w, y)
      BY <1>4
    <3>2. best(near, y)
      BY <1>4, <2>1, <3>1
    <3> QED
      BY <2>4, <3>1, <3>2
  <2>7. strongest(near) = z
    <3>1. best(near, strongest(near))
      BY <2>3, Zenon
    <3> HIDE DEF best, strongest
    <3> QED
      BY <2>4, <3>1
  <2>8. strongest(over) = Over(w, z)
    <3>1. best(over, strongest(over))
      BY <2>5, Zenon
    <3> HIDE DEF best, strongest
    <3> QED
      BY <2>6, <3>1
  <2>9. told(Over(w, z)) = TurnedZone(told(z))
    <3>1. /\ Over(w, z).side = OtherEnd(z.side) /\ Over(w, z).touches = z.touches
      BY DEF Over
    <3> DEFINE s == z.side
               m == z.touches >= SR_MAJOR_TOUCHES
    <3>2. told(Over(w, z)) = [side |-> OtherEnd(s), major |-> m]
      BY <3>1
    <3>3. told(z) = [side |-> s, major |-> m]
      OBVIOUS
    <3> HIDE DEF s, m
    <3> DEFINE at == [side |-> s, major |-> m]
    <3>4. at.side = s /\ [at EXCEPT !.side = OtherEnd(s)] = [side |-> OtherEnd(s), major |-> m]
      OBVIOUS
    <3>5. TurnedZone(at) = [at EXCEPT !.side = OtherEnd(at.side)]
      BY Zenon DEF TurnedZone, OtherEnd
    <3> QED
      BY <3>2, <3>3, <3>4, <3>5
  <2>10. /\ told(Over(w, z)).side = OtherEnd(told(z).side)
         /\ told(Over(w, z)).major = told(z).major
         /\ told(z).side \in {"support", "resistance"}
    <3>1. Zone(z)
      BY <1>1, <1>4, <2>3, MirrorAllZones
    <3> QED
      BY <3>1 DEF Over, Zone
  <2> HIDE DEF told, strongest, none
  <2>11. AtZone(ch) = told(z) /\ AtZone(tc) = told(Over(w, z))
    BY <1>2, <1>3, <1>5, <1>7, <2>7, <2>8
  <2> QED
    BY <2>9, <2>10, <2>11
<1> QED
  BY <1>6, <1>7

-----------------------------------------------------------------------------
(* The liquidity of a chart turned.                                        *)

LEMMA SidesTurned ==
    ASSUME NEW side \in Sides
    PROVE  /\ \/ side = "bullish" /\ OtherSide(side) = "bearish"
              \/ side = "bearish" /\ OtherSide(side) = "bullish"
           /\ OtherSide(side) \in Sides /\ OtherSide(OtherSide(side)) = side
  BY DEF Sides, OtherSide

(* The candles before one that may be a sweep are of the chart. *)
LEMMA BeforeOf ==
    ASSUME NEW ch, ChartOK(ch), NEW p \in SWEEP_WINDOW + 1..Len(ch)
    PROVE  Before(p) \in SUBSET (1..Len(ch)) /\ Before(p) # {} /\ p \in 1..Len(ch)
<1>1. SWEEP_WINDOW \in Nat /\ SWEEP_WINDOW # 0 /\ Len(ch) \in Nat
  BY DetectorsAssumption, ChartFacts
<1>2. /\ p \in Int /\ SWEEP_WINDOW < p /\ p <= Len(ch)
      /\ p - 1 \in p - SWEEP_WINDOW..p - 1
  BY <1>1
<1>3. \A i \in p - SWEEP_WINDOW..p - 1 : i \in 1..Len(ch)
  BY <1>1, <1>2
<1>4. p \in 1..Len(ch)
  BY <1>1, <1>2
<1> QED
  BY <1>2, <1>3, <1>4, Zenon DEF Before

(* The level of the one side is that of the other turned. *)
LEMMA MirrorLevel ==
    ASSUME NEW ch, NEW tc, Mirror(ch, tc), NEW side \in Sides,
           NEW p \in SWEEP_WINDOW + 1..Len(ch)
    PROVE  /\ Level(ch, OtherSide(side), p) \in Int
           /\ Level(tc, side, p) = Turn - Level(ch, OtherSide(side), p)
<1> DEFINE B == Before(p)
<1>1. B \in SUBSET (1..Len(ch)) /\ B # {}
  BY BeforeOf DEF Mirror
<1> HIDE DEF B
<1>2. /\ HighsOf(tc, B) = Flip(LowsOf(ch, B)) /\ LowsOf(tc, B) = Flip(HighsOf(ch, B))
      /\ LowsOf(ch, B) \in SUBSET Int /\ IsFiniteSet(LowsOf(ch, B))
      /\ HighsOf(ch, B) \in SUBSET Int /\ IsFiniteSet(HighsOf(ch, B))
      /\ LowsOf(ch, B) # {} /\ HighsOf(ch, B) # {}
  BY <1>1, MirrorPrices
<1>3. /\ Max(HighsOf(tc, B)) = Turn - Min(LowsOf(ch, B)) /\ Min(LowsOf(ch, B)) \in Int
      /\ Min(LowsOf(tc, B)) = Turn - Max(HighsOf(ch, B)) /\ Max(HighsOf(ch, B)) \in Int
  BY <1>2, FlipExtremes
<1> QED
  BY <1>3, SidesTurned DEF Level, B

LEMMA MirrorSwept ==
    ASSUME NEW ch, NEW tc, Mirror(ch, tc), NEW side \in Sides,
           NEW p \in SWEEP_WINDOW + 1..Len(ch)
    PROVE  Swept(tc, side, p) <=> Swept(ch, OtherSide(side), p)
<1> DEFINE k == ch[p]
           j == tc[p]
           x == Level(ch, OtherSide(side), p)
           y == Level(tc, side, p)
           B == Before(p)
           wick(c, s) == IF s = "bullish" THEN LowerWick(c[p]) ELSE UpperWick(c[p])
           beyond(c, s) == IF s = "bullish"
                           THEN c[p].l < Level(c, s, p) /\ c[p].c > Level(c, s, p)
                           ELSE c[p].h > Level(c, s, p) /\ c[p].c < Level(c, s, p)
           rest(c, s) == /\ 100 * wick(c, s) > SWEEP_WICK_BODY_RATIO * Body(c[p])
                         /\ VolumeOf(c, Before(p)) > 0
                         /\ 100 * SWEEP_WINDOW * c[p].v > SWEEP_VOL_RATIO * VolumeOf(c, Before(p))
<1>1. B \in SUBSET (1..Len(ch)) /\ p \in 1..Len(ch)
  BY BeforeOf DEF Mirror
<1>2. x \in Int /\ y = Turn - x
  BY MirrorLevel
<1>3. /\ k.h \in Int /\ k.l \in Int /\ k.c \in Int
      /\ j.c = Turn - k.c /\ j.h = Turn - k.l /\ j.l = Turn - k.h /\ j.v = k.v
  BY <1>1, MirrorFacts
<1>4. Body(j) = Body(k) /\ UpperWick(j) = LowerWick(k) /\ LowerWick(j) = UpperWick(k)
  BY <1>1, MirrorFacts, TurnedFacts DEF Mirror
<1>5. VolumeOf(tc, B) = VolumeOf(ch, B)
  BY <1>1, MirrorVolume
<1>6. \/ side = "bullish" /\ OtherSide(side) = "bearish"
      \/ side = "bearish" /\ OtherSide(side) = "bullish"
  BY SidesTurned
<1>7. beyond(tc, side) <=> beyond(ch, OtherSide(side))
  BY <1>2, <1>3, <1>6, TurnWhole
<1>8. wick(tc, side) = wick(ch, OtherSide(side))
  BY <1>4, <1>6
<1>9. rest(tc, side) <=> rest(ch, OtherSide(side))
  BY <1>3, <1>4, <1>5, <1>8
<1>10. ASSUME NEW c, NEW s PROVE Swept(c, s, p) <=> beyond(c, s) /\ rest(c, s)
  BY Zenon DEF Swept
<1> HIDE DEF beyond, rest
<1> QED
  BY <1>7, <1>9, <1>10

LEMMA MirrorSweep ==
    ASSUME NEW ch, NEW tc, Mirror(ch, tc), NEW side \in Sides
    PROVE  Sweep(tc, side) = Sweep(ch, OtherSide(side))
<1>1. ASSUME NEW p \in Searched(ch)
      PROVE  Swept(tc, side, p) <=> Swept(ch, OtherSide(side), p)
  <2>1. p \in Int /\ SWEEP_WINDOW < p /\ p <= Len(ch) /\ SWEEP_WINDOW \in Nat
    BY <1>1, SweepIs, DetectorsAssumption DEF Mirror, Searched
  <2>2. p \in SWEEP_WINDOW + 1..Len(ch)
    BY <2>1
  <2> QED
    BY <2>2, MirrorSwept
<1>2. Searched(tc) = Searched(ch)
  BY MirrorFacts DEF Searched
<1>3. {p \in Searched(tc) : Swept(tc, side, p)}
        = {p \in Searched(ch) : Swept(ch, OtherSide(side), p)}
  BY <1>1, <1>2
<1> QED
  BY <1>3 DEF Sweep, Searched

LEMMA MirrorConfirms ==
    ASSUME NEW ch, NEW tc, Mirror(ch, tc), NEW side \in Sides,
           NEW level \in Int, NEW k \in Candle
    PROVE  Confirms(tc, side, Turn - level, TurnedCandle(k))
             <=> Confirms(ch, OtherSide(side), level, k)
<1> DEFINE w == Window(ch, STRUCT_LOOKBACK)
           t == Window(tc, STRUCT_LOOKBACK)
           j == TurnedCandle(k)
           beyond(s, x, c) == IF s = "bullish" THEN c.c - x ELSE x - c.c
           coloured(s, c) == IF s = "bullish" THEN c.c > c.o ELSE c.c < c.o
           holds(v, s, x, c) ==
               100 * AtrCount(v) * beyond(s, x, c) >= LIQ_CONFIRM_CLOSE_ATR * AtrSum(v)
<1>1. AtrCount(t) = AtrCount(w) /\ AtrSum(t) = AtrSum(w)
  <2>1. STRUCT_LOOKBACK \in Nat \ {0}
    BY CandlesAssumption
  <2>2. Mirror(w, t)
    BY <2>1, MirrorWindow
  <2> QED
    BY <2>2, MirrorAtr
<1>2. k.c \in Int /\ k.o \in Int /\ j.c = Turn - k.c /\ j.o = Turn - k.o
  BY CandleFacts, TurnedFacts
<1>3. \/ side = "bullish" /\ OtherSide(side) = "bearish"
      \/ side = "bearish" /\ OtherSide(side) = "bullish"
  BY SidesTurned
<1>4. coloured(side, j) <=> coloured(OtherSide(side), k)
  BY <1>2, <1>3, TurnWhole
<1>5. beyond(side, Turn - level, j) = beyond(OtherSide(side), level, k)
  BY <1>2, <1>3, TurnWhole
<1>6. ASSUME NEW c, NEW s, NEW x, NEW y
      PROVE  Confirms(c, s, x, y)
               <=> coloured(s, y) /\ holds(Window(c, STRUCT_LOOKBACK), s, x, y)
  BY Zenon DEF Confirms
<1> HIDE DEF w, t, j, beyond, coloured
<1>7. holds(t, side, Turn - level, j) <=> holds(w, OtherSide(side), level, k)
  BY <1>1, <1>5
<1> HIDE DEF holds
<1> QED
  BY <1>4, <1>6, <1>7, Zenon DEF w, t, j

(* A sweep is confirmed in both charts, by the same candle. *)
LEMMA MirrorReady ==
    ASSUME NEW ch, NEW tc, Mirror(ch, tc), NEW side \in Sides
    PROVE  Ready(tc, side) <=> Ready(ch, OtherSide(side))
<1> DEFINE p == Sweep(ch, OtherSide(side))
           reach == p + 1..Min({Len(ch), p + LIQ_RECLAIM_CANDLES})
<1>1. Sweep(tc, side) = p /\ Len(tc) = Len(ch)
  BY MirrorSweep, MirrorFacts
<1>2. ASSUME p # 0
      PROVE  p \in SWEEP_WINDOW + 1..Len(ch)
  <2>1. p \in Searched(ch)
    BY <1>2, SweepIs DEF Mirror, Sweeps
  <2>2. p \in Int /\ SWEEP_WINDOW < p /\ p <= Len(ch) /\ SWEEP_WINDOW \in Nat
        /\ Len(ch) \in Nat
    BY <2>1, SweepIs, DetectorsAssumption, MirrorFacts DEF Mirror, Searched
  <2> HIDE DEF p
  <2> QED
    BY <2>2
<1>3. ASSUME p # 0, NEW c \in reach
      PROVE  Confirms(tc, side, Level(tc, side, p), tc[c])
               <=> Confirms(ch, OtherSide(side), Level(ch, OtherSide(side), p), ch[c])
  <2>1. p \in SWEEP_WINDOW + 1..Len(ch)
    BY <1>2, <1>3
  <2> HIDE DEF p
  <2>2. c \in 1..Len(ch)
    <3>1. /\ p \in Nat /\ Len(ch) \in Nat /\ LIQ_RECLAIM_CANDLES \in Nat /\ p \in Int
      BY <2>1, DetectorsAssumption, MirrorFacts
    <3> DEFINE q == p + LIQ_RECLAIM_CANDLES
    <3>2. q \in Int
      BY <3>1
    <3>3. reach = p + 1..Min({Len(ch), q})
      OBVIOUS
    <3> HIDE DEF q, reach
    <3>4. Min({Len(ch), q}) \in Int /\ Min({Len(ch), q}) <= Len(ch)
      <4>1. Len(ch) \in Int
        BY <3>1
      <4>2. Min({Len(ch), q}) = IF Len(ch) <= q THEN Len(ch) ELSE q
        BY <3>2, <4>1, MaxOfTwo
      <4> QED
        BY <3>2, <4>1, <4>2
    <3> QED
      BY <1>3, <3>1, <3>3, <3>4
  <2>3. /\ Level(ch, OtherSide(side), p) \in Int
        /\ Level(tc, side, p) = Turn - Level(ch, OtherSide(side), p)
    BY <2>1, MirrorLevel
  <2>4. ch[c] \in Candle /\ tc[c] = TurnedCandle(ch[c])
    BY <2>2, MirrorFacts DEF Mirror
  <2> QED
    BY <2>3, <2>4, MirrorConfirms
<1>4. Ready(tc, side) <=>
        p # 0 /\ \E c \in reach : Confirms(tc, side, Level(tc, side, p), tc[c])
  BY <1>1, Zenon DEF Ready
<1>5. Ready(ch, OtherSide(side)) <=>
        /\ p # 0
        /\ \E c \in reach :
              Confirms(ch, OtherSide(side), Level(ch, OtherSide(side), p), ch[c])
  BY Zenon DEF Ready
<1> HIDE DEF p, reach
<1> QED
  BY <1>3, <1>4, <1>5

-----------------------------------------------------------------------------
\* The swings a side's pools of stops are behind, and the prices of them.
PoolPivots(w, side) == IF side = "bullish" THEN SwingLows(w) ELSE SwingHighs(w)
PoolAt(w, side, i) == IF side = "bullish" THEN w[i].l ELSE w[i].h
PoolPrices(w, side) == {PoolAt(w, side, i) : i \in PoolPivots(w, side)}
PoolCount(w, side, cluster) ==
    Cardinality({i \in PoolPivots(w, side) : PoolAt(w, side, i) \in cluster})

LEMMA MirrorPools ==
    ASSUME NEW ch, NEW tc, Mirror(ch, tc), NEW side \in Sides
    PROVE  /\ PoolPivots(tc, side) = PoolPivots(ch, OtherSide(side))
           /\ PoolPrices(tc, side) = Flip(PoolPrices(ch, OtherSide(side)))
           /\ PoolPrices(ch, OtherSide(side)) \in SUBSET Int
           /\ IsFiniteSet(PoolPrices(ch, OtherSide(side)))
           /\ \A i \in PoolPivots(ch, OtherSide(side)) :
                /\ PoolAt(ch, OtherSide(side), i) \in Int
                /\ PoolAt(tc, side, i) = Turn - PoolAt(ch, OtherSide(side), i)
<1> DEFINE H == SwingHighs(ch)
           L == SwingLows(ch)
<1>1. /\ SwingHighs(tc) = L /\ SwingLows(tc) = H
      /\ H \in SUBSET (1..Len(ch)) /\ L \in SUBSET (1..Len(ch))
  BY MirrorSwings
<1>2. /\ \A S \in SUBSET (1..Len(ch)) :
           /\ HighsOf(tc, S) = Flip(LowsOf(ch, S))
           /\ LowsOf(tc, S) = Flip(HighsOf(ch, S))
           /\ LowsOf(ch, S) \in SUBSET Int /\ IsFiniteSet(LowsOf(ch, S))
           /\ HighsOf(ch, S) \in SUBSET Int /\ IsFiniteSet(HighsOf(ch, S))
  BY MirrorPrices
<1>3. \A i \in 1..Len(ch) :
        /\ ch[i].h \in Int /\ ch[i].l \in Int
        /\ tc[i].h = Turn - ch[i].l /\ tc[i].l = Turn - ch[i].h
  BY MirrorFacts
<1>4. ASSUME NEW c
      PROVE  /\ PoolPrices(c, "bullish") = LowsOf(c, SwingLows(c))
             /\ PoolPrices(c, "bearish") = HighsOf(c, SwingHighs(c))
  BY DEF PoolPrices, PoolAt, PoolPivots, LowsOf, HighsOf
<1>5. CASE side = "bullish" /\ OtherSide(side) = "bearish"
  <2>1. PoolPivots(tc, side) = H /\ PoolPivots(ch, OtherSide(side)) = H
    BY <1>1, <1>5 DEF PoolPivots
  <2>2. /\ PoolPrices(tc, side) = LowsOf(tc, H)
        /\ PoolPrices(ch, OtherSide(side)) = HighsOf(ch, H)
    BY <1>1, <1>4, <1>5
  <2>3. \A i \in H : /\ PoolAt(tc, side, i) = tc[i].l
                     /\ PoolAt(ch, OtherSide(side), i) = ch[i].h
    BY <1>5 DEF PoolAt
  <2> HIDE DEF H, L
  <2> QED
    BY <1>1, <1>2, <1>3, <2>1, <2>2, <2>3
<1>6. CASE side = "bearish" /\ OtherSide(side) = "bullish"
  <2>1. PoolPivots(tc, side) = L /\ PoolPivots(ch, OtherSide(side)) = L
    BY <1>1, <1>6 DEF PoolPivots
  <2>2. /\ PoolPrices(tc, side) = HighsOf(tc, L)
        /\ PoolPrices(ch, OtherSide(side)) = LowsOf(ch, L)
    BY <1>1, <1>4, <1>6
  <2>3. \A i \in L : /\ PoolAt(tc, side, i) = tc[i].h
                     /\ PoolAt(ch, OtherSide(side), i) = ch[i].l
    BY <1>6 DEF PoolAt
  <2> HIDE DEF H, L
  <2> QED
    BY <1>1, <1>2, <1>3, <2>1, <2>2, <2>3
<1> QED
  BY <1>5, <1>6, SidesTurned

LEMMA MirrorPool ==
    ASSUME NEW ch, NEW tc, Mirror(ch, tc), NEW side \in Sides
    PROVE  Pool(tc, side) <=> Pool(ch, OtherSide(side))
<1> DEFINE w == Window(ch, STRUCT_LOOKBACK)
           t == Window(tc, STRUCT_LOOKBACK)
           other == OtherSide(side)
           P == PoolPrices(w, other)
           clusters(v, s) == Clusters(v, PoolPrices(v, s), LIQ_EQUAL_TOL_ATR)
<1>1. Mirror(w, t) /\ LIQ_EQUAL_TOL_ATR \in Nat
  BY CandlesAssumption, DetectorsAssumption, MirrorWindow
<1>2. ASSUME NEW c, NEW s
      PROVE  Pool(c, s) <=>
               \E cluster \in clusters(Window(c, STRUCT_LOOKBACK), s) :
                  PoolCount(Window(c, STRUCT_LOOKBACK), s, cluster) >= LIQ_MIN_EQUAL
  BY Zenon DEF Pool, PoolPivots, PoolAt, PoolPrices, PoolCount
<1> HIDE DEF w, t
<1>3. /\ PoolPivots(t, side) = PoolPivots(w, other) /\ PoolPrices(t, side) = Flip(P)
      /\ P \in SUBSET Int /\ IsFiniteSet(P)
      /\ \A i \in PoolPivots(w, other) :
            PoolAt(w, other, i) \in Int /\ PoolAt(t, side, i) = Turn - PoolAt(w, other, i)
  BY <1>1, MirrorPools
<1> HIDE DEF P
<1>4. /\ Clusters(t, Flip(P), LIQ_EQUAL_TOL_ATR)
           = {Flip(c) : c \in Clusters(w, P, LIQ_EQUAL_TOL_ATR)}
      /\ \A c \in Clusters(w, P, LIQ_EQUAL_TOL_ATR) : c \in SUBSET Int
  BY <1>1, <1>3, MirrorClusters
<1>5. ASSUME NEW c \in SUBSET Int
      PROVE  PoolCount(t, side, Flip(c)) = PoolCount(w, other, c)
  <2>1. \A i \in PoolPivots(w, other) :
          PoolAt(t, side, i) \in Flip(c) <=> PoolAt(w, other, i) \in c
    BY <1>3, FlipFlip
  <2> QED
    BY <1>3, <2>1 DEF PoolCount
<1>6. /\ clusters(t, side) = {Flip(c) : c \in clusters(w, other)}
      /\ \A c \in clusters(w, other) : c \in SUBSET Int
  BY <1>3, <1>4 DEF P
<1> HIDE DEF clusters, other
<1>7. (\E cluster \in clusters(t, side) : PoolCount(t, side, cluster) >= LIQ_MIN_EQUAL)
      <=> (\E cluster \in clusters(w, other) :
              PoolCount(w, other, cluster) >= LIQ_MIN_EQUAL)
  BY <1>5, <1>6
<1> QED
  BY <1>2, <1>7, Zenon DEF w, t, other

(* What a long takes liquidity for, a short does in the chart turned. *)
LEMMA MirrorLiquidity ==
    ASSUME NEW ch, NEW tc, Mirror(ch, tc), NEW side \in Sides
    PROVE  Liquidity(tc)[side] = Liquidity(ch)[OtherSide(side)]
<1> DEFINE w == Window(ch, STRUCT_LOOKBACK)
           t == Window(tc, STRUCT_LOOKBACK)
           thin(c, v) == Len(c) < SWEEP_WINDOW + 1 \/ AtrSum(v) = 0
<1>1. AtrSum(t) = AtrSum(w) /\ Len(tc) = Len(ch)
  BY CandlesAssumption, MirrorWindow, MirrorAtr, MirrorFacts
<1>2. thin(tc, t) <=> thin(ch, w)
  BY <1>1
<1>3. ASSUME NEW c, NEW s \in Sides
      PROVE  Liquidity(c)[s] =
               [sweep |-> ~thin(c, Window(c, STRUCT_LOOKBACK)) /\ Sweep(c, s) # 0,
                ready |-> ~thin(c, Window(c, STRUCT_LOOKBACK)) /\ Ready(c, s),
                pool |-> ~thin(c, Window(c, STRUCT_LOOKBACK)) /\ Pool(c, s)]
  BY DEF Liquidity
<1>4. /\ Sweep(tc, side) = Sweep(ch, OtherSide(side))
      /\ Ready(tc, side) <=> Ready(ch, OtherSide(side))
      /\ Pool(tc, side) <=> Pool(ch, OtherSide(side))
      /\ OtherSide(side) \in Sides
  BY MirrorSweep, MirrorReady, MirrorPool, SidesTurned
<1> HIDE DEF thin
<1>5. /\ (~thin(tc, t) /\ Sweep(tc, side) # 0) = (~thin(ch, w) /\ Sweep(ch, OtherSide(side)) # 0)
      /\ (~thin(tc, t) /\ Ready(tc, side)) = (~thin(ch, w) /\ Ready(ch, OtherSide(side)))
      /\ (~thin(tc, t) /\ Pool(tc, side)) = (~thin(ch, w) /\ Pool(ch, OtherSide(side)))
  BY <1>2, <1>4
<1> QED
  BY <1>3, <1>4, <1>5 DEF w, t

-----------------------------------------------------------------------------
(* The price action of a chart turned.                                     *)

LEMMA MirrorVolumeState ==
    ASSUME NEW ch, NEW tc, Mirror(ch, tc)
    PROVE  VolumeState(tc) = VolumeState(ch)
<1> DEFINE n == Len(ch)
           from == IF n > PA_BREAKOUT_LOOKBACK THEN n - PA_BREAKOUT_LOOKBACK ELSE 1
           prior == from..n - 1
           state(v, total) ==
               IF n < 2 \/ total = 0 THEN "normal"
               ELSE IF 100 * Cardinality(prior) * v >= PA_VOLUME_STRONG * total THEN "strong"
               ELSE IF 100 * Cardinality(prior) * v <= PA_VOLUME_WEAK * total THEN "weak"
               ELSE "normal"
<1>1. n \in Nat \ {0} /\ Len(tc) = n /\ Now(tc).v = Now(ch).v
  BY MirrorFacts, MirrorNow
<1>2. PA_BREAKOUT_LOOKBACK \in Nat
  BY DetectorsAssumption
<1>3. from \in Nat /\ from >= 1
  BY <1>1, <1>2
<1> HIDE DEF from
<1>4. prior \in SUBSET (1..Len(ch))
  BY <1>1, <1>3
<1>5. VolumeOf(tc, prior) = VolumeOf(ch, prior)
  BY <1>4, MirrorVolume
<1>6. VolumeState(ch) = state(Now(ch).v, VolumeOf(ch, prior))
  BY Zenon DEF VolumeState, from
<1>7. VolumeState(tc) = state(Now(tc).v, VolumeOf(tc, prior))
  BY <1>1, Zenon DEF VolumeState, from
<1> HIDE DEF state, prior
<1> QED
  BY <1>1, <1>5, <1>6, <1>7

\* What a detector finds: a side, or nothing.
Found == Sides \cup {"none"}

LEMMA MirrorRejection ==
    ASSUME NEW k \in Candle
    PROVE  Rejection(TurnedCandle(k)) = OtherSide(Rejection(k))
<1> DEFINE t == TurnedCandle(k)
           long(c) == 100 * LowerWick(c) > PA_REJECTION_WICK_RATIO * Body(c)
                      /\ LowerWick(c) > UpperWick(c)
           short(c) == 100 * UpperWick(c) > PA_REJECTION_WICK_RATIO * Body(c)
                       /\ UpperWick(c) > LowerWick(c)
<1>1. /\ Body(t) = Body(k) /\ UpperWick(t) = LowerWick(k) /\ LowerWick(t) = UpperWick(k)
      /\ UpperWick(k) \in Nat /\ LowerWick(k) \in Nat
  BY TurnedFacts
<1>2. ASSUME NEW c
      PROVE  Rejection(c) = CASE long(c) -> "bullish" [] short(c) -> "bearish"
                              [] OTHER -> "none"
  BY Zenon DEF Rejection
<1>3. (long(t) <=> short(k)) /\ (short(t) <=> long(k)) /\ ~(long(k) /\ short(k))
  BY <1>1
<1> HIDE DEF long, short, t
<1>4. /\ Rejection(k) = CASE long(k) -> "bullish" [] short(k) -> "bearish"
                          [] OTHER -> "none"
      /\ Rejection(t) = CASE long(t) -> "bullish" [] short(t) -> "bearish"
                          [] OTHER -> "none"
  BY <1>2
<1> QED
  BY <1>3, <1>4 DEF OtherSide, t

LEMMA MirrorEngulfing ==
    ASSUME NEW j \in Candle, NEW k \in Candle
    PROVE  Engulfing(TurnedCandle(j), TurnedCandle(k)) = OtherSide(Engulfing(j, k))
<1> DEFINE x == TurnedCandle(j)
           y == TurnedCandle(k)
           small(a, b) == Body(b) = 0 \/ 100 * Body(b) < PA_ENGULF_MIN_RATIO * Body(a)
           long(a, b) == b.c > b.o /\ a.c < a.o /\ b.c >= a.o /\ b.o <= a.c
           short(a, b) == b.c < b.o /\ a.c > a.o /\ b.c <= a.o /\ b.o >= a.c
<1>1. /\ j.c \in Int /\ j.o \in Int /\ x.c = Turn - j.c /\ x.o = Turn - j.o
      /\ k.c \in Int /\ k.o \in Int /\ y.c = Turn - k.c /\ y.o = Turn - k.o
      /\ Body(x) = Body(j) /\ Body(y) = Body(k)
  BY CandleFacts, TurnedFacts
<1>2. ASSUME NEW a, NEW b
      PROVE  Engulfing(a, b) = IF small(a, b) THEN "none"
                               ELSE IF long(a, b) THEN "bullish"
                               ELSE IF short(a, b) THEN "bearish" ELSE "none"
  BY Zenon DEF Engulfing
<1> HIDE DEF x, y
<1>3. /\ small(x, y) <=> small(j, k)
      /\ long(x, y) <=> short(j, k)
      /\ short(x, y) <=> long(j, k)
      /\ ~(long(j, k) /\ short(j, k))
  BY <1>1, TurnWhole
<1>4. /\ Engulfing(j, k) = IF small(j, k) THEN "none"
                           ELSE IF long(j, k) THEN "bullish"
                           ELSE IF short(j, k) THEN "bearish" ELSE "none"
      /\ Engulfing(x, y) = IF small(x, y) THEN "none"
                           ELSE IF long(x, y) THEN "bullish"
                           ELSE IF short(x, y) THEN "bearish" ELSE "none"
  BY <1>2
<1> HIDE DEF small, long, short
<1> QED
  BY <1>3, <1>4 DEF OtherSide, x, y

-----------------------------------------------------------------------------
(* The candles a range is taken from are of the chart. *)
LEMMA SpanOf ==
    ASSUME NEW ch, ChartOK(ch), NEW k \in Nat \ {0},
           Len(ch) >= PA_BREAKOUT_LOOKBACK + k
    PROVE  Span(ch, k) \in SUBSET (1..Len(ch)) /\ Span(ch, k) # {}
<1>1. PA_BREAKOUT_LOOKBACK \in Nat /\ PA_BREAKOUT_LOOKBACK # 0 /\ Len(ch) \in Nat
  BY DetectorsAssumption, ChartFacts
<1>2. /\ \A i \in Len(ch) - k - PA_BREAKOUT_LOOKBACK + 1..Len(ch) - k : i \in 1..Len(ch)
      /\ Len(ch) - k \in Len(ch) - k - PA_BREAKOUT_LOOKBACK + 1..Len(ch) - k
  BY <1>1
<1> QED
  BY <1>2, Zenon DEF Span

\* The ends of that range.
Top(ch, k) == Max(HighsOf(ch, Span(ch, k)))
Bottom(ch, k) == Min(LowsOf(ch, Span(ch, k)))

LEMMA MirrorEnds ==
    ASSUME NEW ch, NEW tc, Mirror(ch, tc), NEW k \in Nat \ {0},
           Len(ch) >= PA_BREAKOUT_LOOKBACK + k
    PROVE  /\ Top(ch, k) \in Int /\ Bottom(ch, k) \in Int /\ Bottom(ch, k) <= Top(ch, k)
           /\ Top(tc, k) = Turn - Bottom(ch, k) /\ Bottom(tc, k) = Turn - Top(ch, k)
<1> DEFINE S == Span(ch, k)
<1>1. S \in SUBSET (1..Len(ch)) /\ S # {} /\ Span(tc, k) = S
  BY SpanOf, MirrorFacts DEF Mirror, Span
<1> HIDE DEF S
<1>2. /\ HighsOf(tc, S) = Flip(LowsOf(ch, S)) /\ LowsOf(tc, S) = Flip(HighsOf(ch, S))
      /\ LowsOf(ch, S) \in SUBSET Int /\ IsFiniteSet(LowsOf(ch, S))
      /\ HighsOf(ch, S) \in SUBSET Int /\ IsFiniteSet(HighsOf(ch, S))
      /\ LowsOf(ch, S) # {} /\ HighsOf(ch, S) # {}
  BY <1>1, MirrorPrices
<1>3. /\ Max(HighsOf(tc, S)) = Turn - Min(LowsOf(ch, S)) /\ Min(LowsOf(ch, S)) \in Int
      /\ Min(LowsOf(tc, S)) = Turn - Max(HighsOf(ch, S)) /\ Max(HighsOf(ch, S)) \in Int
  BY <1>2, FlipExtremes
<1>4. Min(LowsOf(ch, S)) <= Max(HighsOf(ch, S))
  <2> PICK i \in S : TRUE
    BY <1>1
  <2>1. ch[i].l <= ch[i].h /\ ch[i].l \in Int /\ ch[i].h \in Int
    BY <1>1, MirrorFacts
  <2>2. ch[i].l \in LowsOf(ch, S) /\ ch[i].h \in HighsOf(ch, S)
    BY DEF LowsOf, HighsOf
  <2>3. Min(LowsOf(ch, S)) <= ch[i].l /\ ch[i].h <= Max(HighsOf(ch, S))
    BY <1>2, <2>2, Extremes
  <2> QED
    BY <1>3, <2>1, <2>3
<1> QED
  BY <1>1, <1>3, <1>4 DEF Top, Bottom, S

LEMMA MirrorBreakout ==
    ASSUME NEW ch, NEW tc, Mirror(ch, tc)
    PROVE  Breakout(tc) = OtherSide(Breakout(ch))
<1>1. ASSUME NEW c
      PROVE  Breakout(c) = IF Len(c) < PA_BREAKOUT_LOOKBACK + 2 THEN "none"
                           ELSE IF Now(c).c > Top(c, 1) THEN "bullish"
                           ELSE IF Now(c).c < Bottom(c, 1) THEN "bearish" ELSE "none"
  BY Zenon DEF Breakout, Top, Bottom
<1>2. /\ Len(tc) = Len(ch) /\ Len(ch) \in Nat /\ PA_BREAKOUT_LOOKBACK \in Nat
      /\ Now(ch).c \in Int /\ Now(tc).c = Turn - Now(ch).c
  BY MirrorFacts, MirrorNow, DetectorsAssumption
<1>3. CASE Len(ch) < PA_BREAKOUT_LOOKBACK + 2
  BY <1>1, <1>2, <1>3 DEF OtherSide
<1>4. CASE ~(Len(ch) < PA_BREAKOUT_LOOKBACK + 2)
  <2>1. 1 \in Nat \ {0} /\ Len(ch) >= PA_BREAKOUT_LOOKBACK + 1
    BY <1>2, <1>4
  <2>2. /\ Top(ch, 1) \in Int /\ Bottom(ch, 1) \in Int /\ Bottom(ch, 1) <= Top(ch, 1)
        /\ Top(tc, 1) = Turn - Bottom(ch, 1) /\ Bottom(tc, 1) = Turn - Top(ch, 1)
    BY <2>1, MirrorEnds
  <2> QED
    BY <1>1, <1>2, <1>4, <2>2, TurnWhole DEF OtherSide
<1> QED
  BY <1>3, <1>4

LEMMA MirrorPoked ==
    ASSUME NEW ch, NEW tc, Mirror(ch, tc), Len(ch) >= PA_BREAKOUT_LOOKBACK + 2
    PROVE  /\ PokedAbove(tc) <=> PokedBelow(ch)
           /\ PokedBelow(tc) <=> PokedAbove(ch)
<1>1. ASSUME NEW c
      PROVE  /\ PokedAbove(c) <=> Now(c).h > Top(c, 1) /\ Now(c).c < Top(c, 1)
             /\ PokedBelow(c) <=> Now(c).l < Bottom(c, 1) /\ Now(c).c > Bottom(c, 1)
  BY DEF PokedAbove, PokedBelow, Top, Bottom
<1>2. Len(ch) \in Nat /\ PA_BREAKOUT_LOOKBACK \in Nat
  BY MirrorFacts, DetectorsAssumption
<1>3. 1 \in Nat \ {0} /\ Len(ch) >= PA_BREAKOUT_LOOKBACK + 1
  BY <1>2
<1>4. /\ Top(ch, 1) \in Int /\ Bottom(ch, 1) \in Int
      /\ Top(tc, 1) = Turn - Bottom(ch, 1) /\ Bottom(tc, 1) = Turn - Top(ch, 1)
  BY <1>3, MirrorEnds
<1>5. /\ Now(ch).c \in Int /\ Now(ch).h \in Int /\ Now(ch).l \in Int
      /\ Now(tc).c = Turn - Now(ch).c /\ Now(tc).h = Turn - Now(ch).l
      /\ Now(tc).l = Turn - Now(ch).h
  BY MirrorNow, MirrorFacts
<1> QED
  BY <1>1, <1>4, <1>5, TurnWhole

LEMMA MirrorFailed ==
    ASSUME NEW ch, NEW tc, Mirror(ch, tc),
           ~(/\ Len(ch) >= PA_BREAKOUT_LOOKBACK + 2
             /\ PokedAbove(ch) /\ PokedBelow(ch))
    PROVE  FailedBreakout(tc) = OtherSide(FailedBreakout(ch))
<1>1. Len(tc) = Len(ch) /\ Len(ch) \in Nat /\ PA_BREAKOUT_LOOKBACK \in Nat
  BY MirrorFacts, DetectorsAssumption
<1>2. CASE Len(ch) < PA_BREAKOUT_LOOKBACK + 2
  BY <1>1, <1>2 DEF FailedBreakout, OtherSide
<1>3. CASE Len(ch) >= PA_BREAKOUT_LOOKBACK + 2
  <2>1. (PokedAbove(tc) <=> PokedBelow(ch)) /\ (PokedBelow(tc) <=> PokedAbove(ch))
    BY <1>3, MirrorPoked
  <2>2. ~(PokedAbove(ch) /\ PokedBelow(ch)) /\ ~(Len(ch) < PA_BREAKOUT_LOOKBACK + 2)
    BY <1>1, <1>3
  <2> QED
    BY <1>1, <2>1, <2>2 DEF FailedBreakout, OtherSide
<1> QED
  BY <1>1, <1>2, <1>3

\* Whether a range's end is tested after a close beyond it.
LEMMA MirrorRetests ==
    ASSUME NEW ch, NEW tc, Mirror(ch, tc), Len(ch) >= PA_BREAKOUT_LOOKBACK + Recent + 1
    PROVE  /\ RetestsTop(tc) <=> RetestsBottom(ch)
           /\ RetestsBottom(tc) <=> RetestsTop(ch)
<1> DEFINE w == Window(ch, STRUCT_LOOKBACK)
           t == Window(tc, STRUCT_LOOKBACK)
           last(c) == Len(c) - Recent + 1..Len(c)
           P == STRUCT_RETEST_ATR
<1>1. ASSUME NEW c
      PROVE  /\ RetestsTop(c) <=>
                  /\ \E i \in last(c) : c[i].c > Top(c, Recent)
                  /\ ~Exceeds(Window(c, STRUCT_LOOKBACK), Top(c, Recent) - Now(c).c, P)
                  /\ ~Exceeds(Window(c, STRUCT_LOOKBACK), Now(c).l - Top(c, Recent), P)
             /\ RetestsBottom(c) <=>
                  /\ \E i \in last(c) : c[i].c < Bottom(c, Recent)
                  /\ ~Exceeds(Window(c, STRUCT_LOOKBACK), Now(c).c - Bottom(c, Recent), P)
                  /\ ~Exceeds(Window(c, STRUCT_LOOKBACK), Bottom(c, Recent) - Now(c).h, P)
  BY Zenon DEF RetestsTop, RetestsBottom, Top, Bottom
<1>2. /\ Len(ch) \in Nat /\ Len(tc) = Len(ch) /\ PA_BREAKOUT_LOOKBACK \in Nat
      /\ Recent \in Nat \ {0}
  BY MirrorFacts, DetectorsAssumption DEF Recent
<1>3. /\ Top(ch, Recent) \in Int /\ Bottom(ch, Recent) \in Int
      /\ Top(tc, Recent) = Turn - Bottom(ch, Recent)
      /\ Bottom(tc, Recent) = Turn - Top(ch, Recent)
  <2>1. Len(ch) >= PA_BREAKOUT_LOOKBACK + Recent
    BY <1>2
  <2> QED
    BY <1>2, <2>1, MirrorEnds
<1>4. /\ Now(ch).c \in Int /\ Now(ch).h \in Int /\ Now(ch).l \in Int
      /\ Now(tc).c = Turn - Now(ch).c /\ Now(tc).h = Turn - Now(ch).l
      /\ Now(tc).l = Turn - Now(ch).h
  BY MirrorNow, MirrorFacts
<1>5. \A d, percent : Exceeds(t, d, percent) <=> Exceeds(w, d, percent)
  <2>1. Mirror(w, t)
    BY CandlesAssumption, MirrorWindow
  <2> QED
    BY <2>1, MirrorAtr
<1>6. \A i \in last(ch) : ch[i].c \in Int /\ tc[i].c = Turn - ch[i].c
  <2>1. \A i \in last(ch) : i \in 1..Len(ch)
    BY <1>2
  <2> QED
    BY <2>1, MirrorFacts
<1>7. last(tc) = last(ch)
  BY <1>2
<1> HIDE DEF w, t, last, P
<1>8. /\ (\E i \in last(ch) : tc[i].c > Top(tc, Recent))
           <=> (\E i \in last(ch) : ch[i].c < Bottom(ch, Recent))
      /\ (\E i \in last(ch) : tc[i].c < Bottom(tc, Recent))
           <=> (\E i \in last(ch) : ch[i].c > Top(ch, Recent))
  BY <1>3, <1>6, TurnWhole
<1>9. /\ Top(tc, Recent) - Now(tc).c = Now(ch).c - Bottom(ch, Recent)
      /\ Now(tc).l - Top(tc, Recent) = Bottom(ch, Recent) - Now(ch).h
      /\ Now(tc).c - Bottom(tc, Recent) = Top(ch, Recent) - Now(ch).c
      /\ Bottom(tc, Recent) - Now(tc).h = Now(ch).l - Top(ch, Recent)
  BY <1>3, <1>4, TurnWhole
<1>10. /\ RetestsTop(tc) <=>
            /\ \E i \in last(ch) : tc[i].c > Top(tc, Recent)
            /\ ~Exceeds(t, Top(tc, Recent) - Now(tc).c, P)
            /\ ~Exceeds(t, Now(tc).l - Top(tc, Recent), P)
       /\ RetestsBottom(tc) <=>
            /\ \E i \in last(ch) : tc[i].c < Bottom(tc, Recent)
            /\ ~Exceeds(t, Now(tc).c - Bottom(tc, Recent), P)
            /\ ~Exceeds(t, Bottom(tc, Recent) - Now(tc).h, P)
  BY <1>1, <1>7 DEF t
<1>11. /\ RetestsTop(ch) <=>
            /\ \E i \in last(ch) : ch[i].c > Top(ch, Recent)
            /\ ~Exceeds(w, Top(ch, Recent) - Now(ch).c, P)
            /\ ~Exceeds(w, Now(ch).l - Top(ch, Recent), P)
       /\ RetestsBottom(ch) <=>
            /\ \E i \in last(ch) : ch[i].c < Bottom(ch, Recent)
            /\ ~Exceeds(w, Now(ch).c - Bottom(ch, Recent), P)
            /\ ~Exceeds(w, Bottom(ch, Recent) - Now(ch).h, P)
  BY <1>1 DEF w
<1> QED
  BY <1>5, <1>8, <1>9, <1>10, <1>11

LEMMA MirrorRetest ==
    ASSUME NEW ch, NEW tc, Mirror(ch, tc),
           ~(/\ Len(ch) >= PA_BREAKOUT_LOOKBACK + Recent + 1
             /\ RetestsTop(ch) /\ RetestsBottom(ch))
    PROVE  BreakoutRetest(tc) = OtherSide(BreakoutRetest(ch))
<1> DEFINE enough == Len(ch) >= PA_BREAKOUT_LOOKBACK + Recent + 1
           flat(c) == AtrSum(Window(c, STRUCT_LOOKBACK)) = 0
<1>1. /\ Len(tc) = Len(ch) /\ Len(ch) \in Nat /\ PA_BREAKOUT_LOOKBACK \in Nat
      /\ Recent \in Nat
  BY MirrorFacts, DetectorsAssumption DEF Recent
<1>2. flat(tc) <=> flat(ch)
  BY CandlesAssumption, MirrorWindow, MirrorAtr
<1>3. Len(ch) < PA_BREAKOUT_LOOKBACK + Recent + 1 <=> ~enough
  BY <1>1
<1>4. enough => /\ RetestsTop(tc) <=> RetestsBottom(ch)
                /\ RetestsBottom(tc) <=> RetestsTop(ch)
                /\ ~(RetestsTop(ch) /\ RetestsBottom(ch))
  BY MirrorRetests
<1>5. ASSUME NEW c, Len(c) = Len(ch)
      PROVE  BreakoutRetest(c) = IF flat(c) \/ ~enough THEN "none"
                                 ELSE IF RetestsTop(c) THEN "bullish"
                                 ELSE IF RetestsBottom(c) THEN "bearish" ELSE "none"
  BY <1>3, <1>5 DEF BreakoutRetest
<1> HIDE DEF enough, flat
<1>6. /\ BreakoutRetest(ch) = IF flat(ch) \/ ~enough THEN "none"
                              ELSE IF RetestsTop(ch) THEN "bullish"
                              ELSE IF RetestsBottom(ch) THEN "bearish" ELSE "none"
      /\ BreakoutRetest(tc) = IF flat(tc) \/ ~enough THEN "none"
                              ELSE IF RetestsTop(tc) THEN "bullish"
                              ELSE IF RetestsBottom(tc) THEN "bearish" ELSE "none"
  BY <1>1, <1>5
<1> QED
  BY <1>2, <1>4, <1>6 DEF OtherSide

\* Six findings, turned.
LEMMA SixTurned ==
    ASSUME NEW a, NEW b, NEW c, NEW d, NEW e, NEW f
    PROVE  LET s == <<a, b, c, d, e, f>> IN
           [p \in DOMAIN s |-> OtherSide(s[p])]
             = <<OtherSide(a), OtherSide(b), OtherSide(c), OtherSide(d), OtherSide(e),
                 OtherSide(f)>>
  OBVIOUS

\* A candle that is displaced, as a finding.
Displaced(ch, w) ==
    IF AtrSum(w) > 0 /\ Exceeds(w, Body(Now(ch)), PA_DISPLACEMENT_ATR)
    THEN Colour(Now(ch)) ELSE "none"
Absorbed(ch, w) ==
    /\ VolumeState(ch) = "strong"
    /\ Exceeds(w, Now(ch).h - Now(ch).l, 100) /\ AtrSum(w) > 0
    /\ 2 * Body(Now(ch)) < Now(ch).h - Now(ch).l
Patterns(ch) ==
    <<Rejection(Now(ch)), Engulfing(ch[Len(ch) - 1], Now(ch)),
      Displaced(ch, Window(ch, STRUCT_LOOKBACK)), Breakout(ch), FailedBreakout(ch),
      BreakoutRetest(ch)>>

LEMMA PriceActionIs ==
    ASSUME NEW ch
    PROVE  PriceAction(ch) =
             IF Len(ch) < 3 THEN NoPriceAction
             ELSE [patterns |-> Patterns(ch), breakout |-> Breakout(ch),
                   volume_ok |-> VolumeState(ch) = "strong",
                   absorption |-> Absorbed(ch, Window(ch, STRUCT_LOOKBACK))]
  BY Zenon DEF PriceAction, Patterns, Displaced, Absorbed

LEMMA TurnedPaIs ==
    ASSUME NEW pats, NEW b, NEW v, NEW a
    PROVE  TurnedPa([patterns |-> pats, breakout |-> b, volume_ok |-> v, absorption |-> a])
             = [patterns |-> [p \in DOMAIN pats |-> OtherSide(pats[p])],
                breakout |-> OtherSide(b), volume_ok |-> v, absorption |-> a]
<1> DEFINE pa == [patterns |-> pats, breakout |-> b, volume_ok |-> v, absorption |-> a]
           turned == [p \in DOMAIN pa.patterns |-> OtherSide(pa.patterns[p])]
<1>1. turned = [p \in DOMAIN pats |-> OtherSide(pats[p])]
  OBVIOUS
<1>2. TurnedPa(pa) = [pa EXCEPT !.patterns = turned, !.breakout = OtherSide(@)]
  BY Zenon DEF TurnedPa
<1> HIDE DEF turned
<1>3. pa.breakout = b
  OBVIOUS
<1>4. [pa EXCEPT !.patterns = turned, !.breakout = OtherSide(@)]
        = [[pa EXCEPT !.patterns = turned] EXCEPT !.breakout = OtherSide(b)]
  BY <1>3, Zenon
<1>5. [pa EXCEPT !.patterns = turned]
        = [patterns |-> turned, breakout |-> b, volume_ok |-> v, absorption |-> a]
  OBVIOUS
<1>6. [[patterns |-> turned, breakout |-> b, volume_ok |-> v, absorption |-> a]
          EXCEPT !.breakout = OtherSide(b)]
        = [patterns |-> turned, breakout |-> OtherSide(b), volume_ok |-> v,
           absorption |-> a]
  OBVIOUS
<1> QED
  BY <1>1, <1>2, <1>4, <1>5, <1>6, Zenon

(* Price action turned, but for a range poked or tested at both ends. *)
LEMMA MirrorPriceAction ==
    ASSUME NEW ch, NEW tc, Mirror(ch, tc),
           ~(/\ Len(ch) >= PA_BREAKOUT_LOOKBACK + 2
             /\ PokedAbove(ch) /\ PokedBelow(ch)),
           ~(/\ Len(ch) >= PA_BREAKOUT_LOOKBACK + Recent + 1
             /\ RetestsTop(ch) /\ RetestsBottom(ch))
    PROVE  PriceAction(tc) = TurnedPa(PriceAction(ch))
<1> DEFINE w == Window(ch, STRUCT_LOOKBACK)
           t == Window(tc, STRUCT_LOOKBACK)
<1>1. Len(tc) = Len(ch) /\ Len(ch) \in Nat
  BY MirrorFacts
<1>2. CASE Len(ch) < 3
  <2>1. PriceAction(tc) = NoPriceAction /\ PriceAction(ch) = NoPriceAction
    BY <1>1, <1>2, PriceActionIs
  <2> DEFINE six == 1..6
             nothing == [q \in six |-> "none"]
             no == FALSE
  <2>2. NoPriceAction = [patterns |-> nothing, breakout |-> "none",
                         volume_ok |-> no, absorption |-> no]
    BY Zenon DEF NoPriceAction
  <2>3. OtherSide("none") = "none"
    BY DEF OtherSide
  <2> HIDE DEF six, no
  <2>4. TurnedPa(NoPriceAction) = NoPriceAction
    <3>1. [p \in DOMAIN nothing |-> OtherSide(nothing[p])] = nothing
      BY <2>3
    <3> HIDE DEF nothing
    <3>2. TurnedPa([patterns |-> nothing, breakout |-> "none",
                    volume_ok |-> no, absorption |-> no])
            = [patterns |-> [p \in DOMAIN nothing |-> OtherSide(nothing[p])],
               breakout |-> OtherSide("none"), volume_ok |-> no, absorption |-> no]
      BY TurnedPaIs
    <3> QED
      BY <2>2, <2>3, <3>1, <3>2, Zenon
  <2> QED
    BY <2>1, <2>4
<1>3. CASE ~(Len(ch) < 3)
  <2>1. Mirror(w, t)
    BY CandlesAssumption, MirrorWindow
  <2> DEFINE k == Now(ch)
             y == Now(tc)
  <2>2. /\ k \in Candle /\ y = TurnedCandle(k)
        /\ k.h \in Int /\ k.l \in Int /\ y.h = Turn - k.l /\ y.l = Turn - k.h
    BY MirrorNow, MirrorFacts
  <2>3. Rejection(y) = OtherSide(Rejection(k))
    BY <2>2, MirrorRejection
  <2>4. Engulfing(tc[Len(tc) - 1], y) = OtherSide(Engulfing(ch[Len(ch) - 1], k))
    <3>1. Len(ch) - 1 \in 1..Len(ch)
      BY <1>1, <1>3
    <3>2. ch[Len(ch) - 1] \in Candle
          /\ tc[Len(ch) - 1] = TurnedCandle(ch[Len(ch) - 1])
      BY <3>1, MirrorFacts DEF Mirror
    <3> QED
      BY <1>1, <2>2, <3>2, MirrorEngulfing
  <2>5. Displaced(tc, t) = OtherSide(Displaced(ch, w))
    <3>1. PA_DISPLACEMENT_ATR \in Nat
      BY DetectorsAssumption
    <3> HIDE DEF w, t
    <3> QED
      BY <2>1, <3>1, MirrorDisplaced DEF Displaced
  <2>6. /\ Breakout(tc) = OtherSide(Breakout(ch))
        /\ FailedBreakout(tc) = OtherSide(FailedBreakout(ch))
        /\ BreakoutRetest(tc) = OtherSide(BreakoutRetest(ch))
        /\ VolumeState(tc) = VolumeState(ch)
    BY MirrorBreakout, MirrorFailed, MirrorRetest, MirrorVolumeState
  <2>7. Absorbed(tc, t) = Absorbed(ch, w)
    <3>1. /\ AtrSum(t) = AtrSum(w)
          /\ \A d, percent : Exceeds(t, d, percent) <=> Exceeds(w, d, percent)
      BY <2>1, MirrorAtr
    <3>2. Body(y) = Body(k) /\ y.h - y.l = k.h - k.l
      BY <2>2, TurnedFacts, TurnWhole
    <3> HIDE DEF w, t
    <3>3. Absorbed(tc, t) <=> Absorbed(ch, w)
      BY <2>6, <3>1, <3>2 DEF Absorbed
    <3> QED
      BY <3>3 DEF Absorbed
  <2> HIDE DEF k, y, w, t
  <2>8. Patterns(tc) = [p \in DOMAIN Patterns(ch) |-> OtherSide(Patterns(ch)[p])]
    <3>1. Patterns(tc) = <<Rejection(y), Engulfing(tc[Len(tc) - 1], y), Displaced(tc, t),
                           Breakout(tc), FailedBreakout(tc), BreakoutRetest(tc)>>
      BY DEF Patterns, y, t
    <3>2. Patterns(ch) = <<Rejection(k), Engulfing(ch[Len(ch) - 1], k), Displaced(ch, w),
                           Breakout(ch), FailedBreakout(ch), BreakoutRetest(ch)>>
      BY DEF Patterns, k, w
    <3>3. [p \in DOMAIN Patterns(ch) |-> OtherSide(Patterns(ch)[p])]
            = <<OtherSide(Rejection(k)), OtherSide(Engulfing(ch[Len(ch) - 1], k)),
                OtherSide(Displaced(ch, w)), OtherSide(Breakout(ch)),
                OtherSide(FailedBreakout(ch)), OtherSide(BreakoutRetest(ch))>>
      BY <3>2, SixTurned
    <3> QED
      BY <2>3, <2>4, <2>5, <2>6, <3>1, <3>3, Zenon
  <2>9. PriceAction(ch) =
          [patterns |-> Patterns(ch), breakout |-> Breakout(ch),
           volume_ok |-> VolumeState(ch) = "strong", absorption |-> Absorbed(ch, w)]
    BY <1>3, PriceActionIs DEF w
  <2>10. PriceAction(tc) =
          [patterns |-> Patterns(tc), breakout |-> Breakout(tc),
           volume_ok |-> VolumeState(tc) = "strong", absorption |-> Absorbed(tc, t)]
    BY <1>1, <1>3, PriceActionIs DEF t
  <2>11. TurnedPa(PriceAction(ch)) =
          [patterns |-> [p \in DOMAIN Patterns(ch) |-> OtherSide(Patterns(ch)[p])],
           breakout |-> OtherSide(Breakout(ch)),
           volume_ok |-> VolumeState(ch) = "strong", absorption |-> Absorbed(ch, w)]
    BY <2>9, TurnedPaIs
  <2> QED
    BY <2>6, <2>7, <2>8, <2>10, <2>11
<1> QED
  BY <1>2, <1>3

-----------------------------------------------------------------------------
(* The sums a line is fitted with.                                         *)

(* Of the heights of the swings. *)
LEMMA HeightsTotal ==
    ASSUME NEW S, NEW w, NEW low
    PROVE  MapThenSumSet(LAMBDA i : At(w, i, low), S) = Total([i \in S |-> At(w, i, low)], S)
<1> DEFINE v == [i \in S |-> At(w, i, low)]
           step(f) == [s \in SUBSET S |->
                          IF s = {} THEN 0 ELSE At(w, OneOf(s), low) + f[s \ {OneOf(s)}]]
<1>1. MapThenSumSet(LAMBDA i : At(w, i, low), S) = (CHOOSE f : f = step(f))[S]
  BY Zenon DEF MapThenSumSet, MapThenFoldSet, OneOf
<1>2. \A f : step(f) = Partial(v, S, f)
  <2> TAKE f
  <2>1. \A s \in SUBSET S : s # {} => v[OneOf(s)] = At(w, OneOf(s), low)
    BY DEF OneOf
  <2> HIDE DEF v
  <2> QED
    BY <2>1 DEF Adds, Partial
<1>3. (CHOOSE f : f = step(f)) = Partials(v, S)
  <2> HIDE DEF step, v
  <2> QED
    BY <1>2, Zenon DEF Partials
<1> HIDE DEF step, v
<1>4. MapThenSumSet(LAMBDA i : At(w, i, low), S) = Total(v, S)
  BY <1>1, <1>3, Zenon DEF Total
<1> QED
  BY <1>4 DEF v

(* Of their positions times their heights. *)
LEMMA ProductsTotal ==
    ASSUME NEW S, NEW w, NEW low
    PROVE  MapThenSumSet(LAMBDA i : i * At(w, i, low), S) = Total([i \in S |-> i * At(w, i, low)], S)
<1> DEFINE v == [i \in S |-> i * At(w, i, low)]
           step(f) == [s \in SUBSET S |->
                          IF s = {} THEN 0 ELSE OneOf(s) * At(w, OneOf(s), low) + f[s \ {OneOf(s)}]]
<1>1. MapThenSumSet(LAMBDA i : i * At(w, i, low), S) = (CHOOSE f : f = step(f))[S]
  BY Zenon DEF MapThenSumSet, MapThenFoldSet, OneOf
<1>2. \A f : step(f) = Partial(v, S, f)
  <2> TAKE f
  <2>1. \A s \in SUBSET S : s # {} => v[OneOf(s)] = OneOf(s) * At(w, OneOf(s), low)
    BY DEF OneOf
  <2> HIDE DEF v
  <2> QED
    BY <2>1 DEF Adds, Partial
<1>3. (CHOOSE f : f = step(f)) = Partials(v, S)
  <2> HIDE DEF step, v
  <2> QED
    BY <1>2, Zenon DEF Partials
<1> HIDE DEF step, v
<1>4. MapThenSumSet(LAMBDA i : i * At(w, i, low), S) = Total(v, S)
  BY <1>1, <1>3, Zenon DEF Total
<1> QED
  BY <1>4 DEF v

(* Of the squares of their positions. *)
LEMMA SquaresTotal ==
    ASSUME NEW S
    PROVE  MapThenSumSet(LAMBDA i : i * i, S) = Total([i \in S |-> i * i], S)
<1> DEFINE v == [i \in S |-> i * i]
           step(f) == [s \in SUBSET S |->
                          IF s = {} THEN 0 ELSE OneOf(s) * OneOf(s) + f[s \ {OneOf(s)}]]
<1>1. MapThenSumSet(LAMBDA i : i * i, S) = (CHOOSE f : f = step(f))[S]
  BY Zenon DEF MapThenSumSet, MapThenFoldSet, OneOf
<1>2. \A f : step(f) = Partial(v, S, f)
  <2> TAKE f
  <2>1. \A s \in SUBSET S : s # {} => v[OneOf(s)] = OneOf(s) * OneOf(s)
    BY DEF OneOf
  <2> HIDE DEF v
  <2> QED
    BY <2>1 DEF Adds, Partial
<1>3. (CHOOSE f : f = step(f)) = Partials(v, S)
  <2> HIDE DEF step, v
  <2> QED
    BY <1>2, Zenon DEF Partials
<1> HIDE DEF step, v
<1>4. MapThenSumSet(LAMBDA i : i * i, S) = Total(v, S)
  BY <1>1, <1>3, Zenon DEF Total
<1> QED
  BY <1>4 DEF v

(* Of their positions. *)
LEMMA PositionsTotal ==
    ASSUME NEW S
    PROVE  SumSet(S) = Total([i \in S |-> i], S)
<1> DEFINE v == [i \in S |-> i]
           step(f) == [s \in SUBSET S |->
                          IF s = {} THEN 0 ELSE OneOf(s) + f[s \ {OneOf(s)}]]
<1>1. SumSet(S) = (CHOOSE f : f = step(f))[S]
  BY Zenon DEF SumSet, FoldSet, MapThenFoldSet, OneOf
<1>2. \A f : step(f) = Partial(v, S, f)
  <2> TAKE f
  <2>1. \A s \in SUBSET S : s # {} => v[OneOf(s)] = OneOf(s)
    BY DEF OneOf
  <2> HIDE DEF v
  <2> QED
    BY <2>1 DEF Adds, Partial
<1>3. (CHOOSE f : f = step(f)) = Partials(v, S)
  <2> HIDE DEF step, v
  <2> QED
    BY <1>2, Zenon DEF Partials
<1> HIDE DEF step, v
<1>4. SumSet(S) = Total(v, S)
  BY <1>1, <1>3, Zenon DEF Total
<1> QED
  BY <1>4 DEF v

(* As many ones add up to a number. *)
LEMMA OnesTotal ==
    ASSUME NEW S, IsFiniteSet(S)
    PROVE  Total([i \in S |-> 1], S) = Cardinality(S)
<1> DEFINE v == [i \in S |-> 1]
           f == Partials(v, S)
           bad == {n \in Nat : \E s \in SUBSET S : Cardinality(s) = n /\ f[s] # n}
<1>1. f = Partial(v, S, f)
  BY PartialsExist
<1> HIDE DEF f
<1>2. \A s \in SUBSET S : IsFiniteSet(s) /\ Cardinality(s) \in Nat /\ f[s] = Adds(v, f, s)
  <2> HIDE DEF v
  <2> QED
    BY <1>1, FS_Subset, FS_CardinalityType DEF Partial
<1>3. bad = {}
  <2> SUFFICES ASSUME bad # {} PROVE FALSE
    OBVIOUS
  <2> DEFINE n == Min(bad)
  <2>1. n \in bad /\ \A k \in bad : n <= k
    BY LeastOf
  <2> HIDE DEF n
  <2>2. PICK s \in SUBSET S : Cardinality(s) = n /\ f[s] # n
    BY <2>1
  <2>3. s # {}
    <3> SUFFICES ASSUME s = {} PROVE FALSE
      OBVIOUS
    <3>1. f[s] = 0 /\ Cardinality(s) = 0
      BY <1>2, FS_EmptySet DEF Adds
    <3> QED
      BY <2>2, <3>1
  <2> DEFINE x == OneOf(s)
             r == s \ {x}
  <2>4. x \in s /\ v[x] = 1
    BY <2>3 DEF OneOf
  <2> HIDE DEF x, v
  <2>5. r \in SUBSET S /\ Cardinality(r) = n - 1 /\ Cardinality(r) \in Nat
    BY <1>2, <2>2, <2>4, FS_RemoveElement
  <2>6. f[s] = 1 + f[r]
    BY <1>2, <2>3, <2>4 DEF Adds, x
  <2> HIDE DEF r
  <2>7. f[r] = Cardinality(r)
    <3>1. Cardinality(r) \notin bad
      BY <2>1, <2>5
    <3> QED
      BY <2>5, <3>1
  <2> QED
    BY <2>1, <2>2, <2>5, <2>6, <2>7
<1>4. Cardinality(S) \in Nat /\ Cardinality(S) \notin bad
  BY <1>2, <1>3
<1>5. f[S] = Cardinality(S)
  BY <1>4
<1> QED
  BY <1>5 DEF Total, f

-----------------------------------------------------------------------------
(* The trendlines of a chart turned.                                       *)

\* The lists of what a line is fitted to.
Ones(S) == [i \in S |-> 1]
Positions(S) == [i \in S |-> i]
Squares(S) == [i \in S |-> i * i]
Heights(w, S, low) == [i \in S |-> At(w, i, low)]
Products(w, S, low) == [i \in S |-> i * At(w, i, low)]

LEMMA LineIs ==
    ASSUME NEW w, NEW S, NEW low
    PROVE  LET n == Cardinality(S)
               sx == Total(Positions(S), S)
               sy == Total(Heights(w, S, low), S) IN
           Line(w, S, low) =
             [n |-> n, sx |-> sx, sy |-> sy,
              run |-> n * Total(Squares(S), S) - sx * sx,
              rise |-> n * Total(Products(w, S, low), S) - sx * sy]
<1>1. /\ MapThenSumSet(LAMBDA i : At(w, i, low), S) = Total(Heights(w, S, low), S)
      /\ MapThenSumSet(LAMBDA i : i * At(w, i, low), S) = Total(Products(w, S, low), S)
  BY HeightsTotal, ProductsTotal, Zenon DEF Heights, Products
<1>2. /\ MapThenSumSet(LAMBDA i : i * i, S) = Total(Squares(S), S)
      /\ SumSet(S) = Total(Positions(S), S)
  BY SquaresTotal, PositionsTotal, Zenon DEF Squares, Positions
<1> QED
  BY <1>1, <1>2, Zenon DEF Line

(* A sum of products with whole numbers, expanded. *)
LEMMA RiseTurned ==
    ASSUME NEW n \in Int, NEW sx \in Int, NEW sy \in Int, NEW sxy \in Int, NEW a \in Int
    PROVE  n * (a * sx - sxy) - sx * (a * n - sy) = -(n * sxy - sx * sy)
<1>1. n * (a * sx - sxy) = n * (a * sx) - n * sxy
  BY SMT
<1>2. sx * (a * n - sy) = sx * (a * n) - sx * sy
  BY SMT
<1>3. n * (a * sx) = sx * (a * n)
  BY SMT
<1> DEFINE p == n * (a * sx)
           q == n * sxy
           r == sx * sy
<1>4. p \in Int /\ q \in Int /\ r \in Int
  BY SMT
<1>5. n * (a * sx - sxy) - sx * (a * n - sy) = (p - q) - (p - r)
  BY <1>1, <1>2, <1>3
<1> HIDE DEF p, q, r
<1>6. (p - q) - (p - r) = -(q - r)
  BY <1>4
<1> QED
  BY <1>5, <1>6 DEF q, r

(* The line through the lows of some candles is the line through the highs *)
(* of the candles turned, and the other way round: it falls as that rises. *)
LEMMA MirrorLine ==
    ASSUME NEW ch, NEW tc, Mirror(ch, tc), NEW S \in SUBSET (1..Len(ch)),
           NEW low \in BOOLEAN
    PROVE  LET a == Line(ch, S, ~low)
               b == Line(tc, S, low) IN
           /\ a.n \in Int /\ a.sx \in Int /\ a.sy \in Int /\ a.run \in Int /\ a.rise \in Int
           /\ b.n = a.n /\ b.sx = a.sx /\ b.run = a.run
           /\ b.sy = Turn * a.n - a.sy /\ b.rise = -a.rise
<1> DEFINE n == Cardinality(S)
           x == Positions(S)
           y == Heights(ch, S, ~low)
           z == Products(ch, S, ~low)
           sx == Total(x, S)
           sy == Total(y, S)
           sxy == Total(z, S)
           sxx == Total(Squares(S), S)
<1>1. /\ \A i \in S : i \in Int /\ i \in 1..Len(ch)
      /\ IsFiniteSet(S) /\ n \in Nat
  <2>1. Len(ch) \in Int /\ 1 \in Int
    BY MirrorFacts
  <2>2. IsFiniteSet(1..Len(ch))
    BY <2>1, FS_Interval
  <2>3. S \in SUBSET (1..Len(ch)) /\ \A i \in 1..Len(ch) : i \in Int
    BY <2>1
  <2>4. IsFiniteSet(S)
    BY <2>2, <2>3, FS_Subset
  <2> QED
    BY <2>3, <2>4, FS_CardinalityType
<1>2. ASSUME NEW i \in S
      PROVE  At(ch, i, ~low) \in Int /\ At(tc, i, low) = Turn - At(ch, i, ~low)
  BY <1>1, MirrorFacts DEF At
<1>3. sx \in Int /\ sxx \in Int
  <2>1. \A i \in S : i * i \in Int
    <3> TAKE i \in S
    <3>1. i \in Int
      BY <1>1
    <3> QED
      BY <3>1, SMT
  <2>2. /\ \A i \in S : x[i] \in Int /\ x[i] = 0 * x[i] - (-x[i])
        /\ \A i \in S : Squares(S)[i] \in Int
    BY <1>1, <2>1 DEF Positions, Squares
  <2> DEFINE u == Squares(S)
             k == [i \in S |-> -u[i]]
             d == [i \in S |-> -x[i]]
  <2>3. /\ \A i \in S : u[i] \in Int /\ d[i] \in Int /\ k[i] \in Int
        /\ \A i \in S : x[i] \in Int
    BY <2>2
  <2>4. \A i \in S : u[i] \in Int /\ x[i] \in Int /\ k[i] = 0 * x[i] - u[i]
    BY <2>3
  <2>7. Turns(k, u, x, 0, S)
    BY <2>4, Zenon DEF Turns
  <2>6. 0 \in Int
    OBVIOUS
  <2> HIDE DEF u, k, d, x
  <2>5. Total(u, S) \in Int /\ Total(x, S) \in Int
    BY <1>1, <2>6, <2>7, TotalTurned
  <2> QED
    BY <2>5 DEF u
<1>4. /\ sy \in Int /\ Total(Heights(tc, S, low), S) = Turn * n - sy
  <2> DEFINE one == Ones(S)
             u == Heights(tc, S, low)
  <2>1. \A i \in S : y[i] \in Int /\ one[i] \in Int /\ u[i] = Turn * one[i] - y[i]
    BY <1>2, TurnWhole DEF Heights, Ones
  <2>4. Turns(u, y, one, Turn, S)
    BY <2>1, Zenon DEF Turns
  <2> HIDE DEF one, u, y
  <2>2. /\ Total(y, S) \in Int
        /\ Total(u, S) = Turn * Total(one, S) - Total(y, S)
    BY <1>1, <2>4, TotalTurned, TurnWhole
  <2>3. Total(one, S) = n
    BY <1>1, OnesTotal DEF one, Ones
  <2> QED
    BY <2>2, <2>3 DEF u
<1>5. /\ sxy \in Int /\ Total(Products(tc, S, low), S) = Turn * sx - sxy
  <2> DEFINE u == Products(tc, S, low)
  <2>1. ASSUME NEW i \in S
        PROVE  z[i] \in Int /\ x[i] \in Int /\ u[i] = Turn * x[i] - z[i]
    <3> DEFINE h == At(ch, i, ~low)
    <3>1. h \in Int /\ i \in Int /\ z[i] = i * h /\ x[i] = i /\ u[i] = i * (Turn - h)
      BY <1>1, <1>2 DEF Products, Positions
    <3> HIDE DEF h, z, x, u
    <3>2. i * h \in Int /\ i * (Turn - h) = Turn * i - i * h
      BY <3>1, TurnWhole, SMT
    <3> QED
      BY <3>1, <3>2
  <2>4. Turns(u, z, x, Turn, S)
    BY <2>1, Zenon DEF Turns
  <2> HIDE DEF u, x, z
  <2>2. /\ Total(z, S) \in Int
        /\ Total(u, S) = Turn * Total(x, S) - Total(z, S)
    BY <1>1, <2>4, TotalTurned, TurnWhole
  <2> QED
    BY <2>2 DEF u
<1>6. Line(ch, S, ~low) = [n |-> n, sx |-> sx, sy |-> sy, run |-> n * sxx - sx * sx,
                           rise |-> n * sxy - sx * sy]
  BY LineIs
<1>7. Line(tc, S, low) = [n |-> n, sx |-> sx, sy |-> Turn * n - sy,
                          run |-> n * sxx - sx * sx,
                          rise |-> n * (Turn * sx - sxy) - sx * (Turn * n - sy)]
  BY <1>4, <1>5, LineIs
<1> HIDE DEF n, x, y, z, sx, sy, sxy, sxx
<1>8. n \in Int /\ n * sxx - sx * sx \in Int /\ n * sxy - sx * sy \in Int
  BY <1>1, <1>3, <1>4, <1>5, SMT
<1>9. n * (Turn * sx - sxy) - sx * (Turn * n - sy) = -(n * sxy - sx * sy)
  BY <1>3, <1>4, <1>5, <1>8, TurnWhole, RiseTurned
<1> QED
  BY <1>3, <1>4, <1>6, <1>7, <1>8, <1>9

\* A line's numbers, and a line turned.
LineOK(a) ==
    a.n \in Int /\ a.sx \in Int /\ a.sy \in Int /\ a.run \in Int /\ a.rise \in Int
Falls(a, b) ==
    /\ LineOK(a) /\ b.n = a.n /\ b.sx = a.sx /\ b.run = a.run
    /\ b.sy = Turn * a.n - a.sy /\ b.rise = -a.rise

(* The heights of a line turned are those of the line turned. *)
LEMMA HeightTurned ==
    ASSUME NEW a, NEW b, Falls(a, b), NEW x \in Int, NEW y \in Int
    PROVE  /\ b.n * b.run * (Turn - y) - Height(b, x) = Height(a, x) - a.n * a.run * y
           /\ Height(b, x) - b.n * b.run * (Turn - y) = a.n * a.run * y - Height(a, x)
<1> DEFINE n == a.n
           r == a.run
           sy == a.sy
           d == a.rise
           e == n * x - a.sx
           g == sy * r
           h == d * e
           p == n * r
           q == p * y
           s == p * Turn
<1>1. n \in Int /\ r \in Int /\ sy \in Int /\ d \in Int /\ a.sx \in Int /\ Turn \in Int
  BY TurnWhole DEF Falls, LineOK
<1>2. b.n = n /\ b.run = r /\ b.sx = a.sx /\ b.sy = Turn * n - sy /\ b.rise = -d
  BY DEF Falls
<1> HIDE DEF n, r, sy, d
<1>3. e \in Int /\ g \in Int /\ p \in Int
  BY <1>1, SMT
<1> HIDE DEF e
<1>4. h \in Int /\ q \in Int /\ s \in Int
  BY <1>1, <1>3, SMT
<1>5. Height(a, x) = g + h
  BY DEF Height, n, r, sy, d, e
<1>6. Height(b, x) = (Turn * n - sy) * r + (-d) * e
  BY <1>2 DEF Height, e
<1>7. (Turn * n - sy) * r = s - g
  <2>1. (Turn * n - sy) * r = (Turn * n) * r - sy * r
    BY <1>1, SMT
  <2>2. (Turn * n) * r = (n * r) * Turn
    BY <1>1, SMT
  <2> QED
    BY <2>1, <2>2
<1>8. (-d) * e = -h
  BY <1>1, <1>3, SMT
<1>9. b.n * b.run * (Turn - y) = s - q
  <2>1. (n * r) * (Turn - y) = (n * r) * Turn - (n * r) * y
    BY <1>1, SMT
  <2> QED
    BY <1>2, <2>1
<1>10. a.n * a.run * y = q
  BY DEF n, r
<1> HIDE DEF g, h, p, q, s
<1>11. Height(b, x) = (s - g) + (-h)
  BY <1>6, <1>7, <1>8
<1>12. p \in Int => s \in Int
  BY <1>4
<1> QED
  BY <1>3, <1>4, <1>5, <1>9, <1>10, <1>11

(* What is above a line is below the line turned. *)
LEMMA MirrorAboveLine ==
    ASSUME NEW w, NEW v, Mirror(w, v), NEW a, NEW b, Falls(a, b),
           NEW x \in Int, NEW y \in Int, NEW percent
    PROVE  /\ AboveLine(v, b, x, Turn - y, percent) <=> BelowLine(w, a, x, y, percent)
           /\ BelowLine(v, b, x, Turn - y, percent) <=> AboveLine(w, a, x, y, percent)
<1>1. /\ b.n * b.run * (Turn - y) - Height(b, x) = Height(a, x) - a.n * a.run * y
      /\ Height(b, x) - b.n * b.run * (Turn - y) = a.n * a.run * y - Height(a, x)
  BY HeightTurned
<1>2. b.n = a.n /\ b.run = a.run
  BY DEF Falls
<1>3. \A d, p : Exceeds(v, d, p) <=> Exceeds(w, d, p)
  BY MirrorAtr
<1>4. AboveLine(v, b, x, Turn - y, percent)
        <=> Exceeds(v, Height(a, x) - a.n * a.run * y, percent * a.n * a.run)
  BY <1>1, <1>2, Zenon DEF AboveLine
<1>5. BelowLine(v, b, x, Turn - y, percent)
        <=> Exceeds(v, a.n * a.run * y - Height(a, x), percent * a.n * a.run)
  BY <1>1, <1>2, Zenon DEF BelowLine
<1> QED
  BY <1>3, <1>4, <1>5, Zenon DEF AboveLine, BelowLine

LEMMA MirrorOnLine ==
    ASSUME NEW w, NEW v, Mirror(w, v), NEW a, NEW b, Falls(a, b),
           NEW x \in Int, NEW y \in Int
    PROVE  OnLine(v, b, x, Turn - y) <=> OnLine(w, a, x, y)
  BY MirrorAboveLine, Zenon DEF OnLine

(* A line fits the candles it is drawn through in either chart, where      *)
(* neither line is too steep for its price.                                *)
LEMMA MirrorFits ==
    ASSUME NEW w, NEW v, Mirror(w, v), NEW S \in SUBSET (1..Len(w)), NEW low \in BOOLEAN,
           Cardinality(S) > 1 => /\ ~Steep(w, Line(w, S, ~low))
                                 /\ ~Steep(v, Line(v, S, low))
    PROVE  /\ Falls(Line(w, S, ~low), Line(v, S, low))
           /\ Fits(v, S, low) <=> Fits(w, S, ~low)
<1> DEFINE a == Line(w, S, ~low)
           b == Line(v, S, low)
<1>1. Falls(a, b)
  BY MirrorLine DEF Falls, LineOK
<1>2. ASSUME NEW i \in S
      PROVE  OnLine(v, b, i, At(v, i, low)) <=> OnLine(w, a, i, At(w, i, ~low))
  <2>1. i \in 1..Len(w) /\ i \in Int
    BY MirrorFacts
  <2>2. At(w, i, ~low) \in Int /\ At(v, i, low) = Turn - At(w, i, ~low)
    BY <2>1, MirrorFacts DEF At
  <2> HIDE DEF a, b
  <2> QED
    BY <1>1, <2>1, <2>2, MirrorOnLine
<1>3. {i \in S : OnLine(v, b, i, At(v, i, low))} = {i \in S : OnLine(w, a, i, At(w, i, ~low))}
  BY <1>2
<1>4. Cardinality(S) >= TL_MIN_TOUCHES => Cardinality(S) > 1
  <2>1. TL_MIN_TOUCHES \in Nat /\ TL_MIN_TOUCHES > 1
    BY LevelsAssumption
  <2>2. Cardinality(S) \in Nat
    <3>1. Len(w) \in Int /\ 1 \in Int
      BY MirrorFacts
    <3>2. IsFiniteSet(1..Len(w))
      BY <3>1, FS_Interval
    <3>3. IsFiniteSet(S)
      BY <3>2, FS_Subset
    <3> QED
      BY <3>3, FS_CardinalityType
  <2> QED
    BY <2>1, <2>2
<1> QED
  BY <1>1, <1>3, <1>4 DEF Fits

(* Two lines are parallel if the lines turned are: where one is level, the *)
(* other has to be, for its slope is within half of its own.               *)
LEMMA ParallelTurned ==
    ASSUME NEW a, NEW b, NEW c, NEW d, Falls(a, c), Falls(b, d)
    PROVE  Parallel(d, c) <=> Parallel(a, b)
<1> DEFINE s == a.rise * b.run
           t == b.rise * a.run
           near(x, y) == ((x >= 0) <=> (y >= 0)) /\ 2 * Size(x - y) <= Max({Size(x), Size(y)})
<1>1. /\ a.rise \in Int /\ a.run \in Int /\ b.rise \in Int /\ b.run \in Int
      /\ c.rise = -a.rise /\ c.run = a.run /\ d.rise = -b.rise /\ d.run = b.run
  BY DEF Falls, LineOK
<1>2. s \in Int /\ t \in Int
  BY <1>1, SMT
<1>3. d.rise * c.run = -t /\ c.rise * d.run = -s
  BY <1>1, SMT
<1>4. Parallel(a, b) <=> near(s, t)
  BY DEF Parallel
<1>5. Parallel(d, c) <=> near(-t, -s)
  <2>1. Parallel(d, c) <=> near(d.rise * c.run, c.rise * d.run)
    BY DEF Parallel
  <2> QED
    BY <1>3, <2>1
<1> HIDE DEF s, t
<1>6. near(-t, -s) <=> near(s, t)
  <2> DEFINE p == Size(s)
             q == Size(t)
  <2>1. /\ p = (IF s < 0 THEN -s ELSE s) /\ q = (IF t < 0 THEN -t ELSE t)
        /\ p \in Int /\ q \in Int
    BY <1>2 DEF Size
  <2>2. /\ Size(-t) = q /\ Size(-s) = p /\ Size((-t) - (-s)) = Size(s - t)
        /\ Size(s - t) = (IF s < t THEN t - s ELSE s - t)
    BY <1>2 DEF Size
  <2> HIDE DEF p, q
  <2>3. /\ Max({p, q}) = IF p >= q THEN p ELSE q
        /\ Max({q, p}) = IF q >= p THEN q ELSE p
    BY <2>1, MaxOfTwo
  <2>4. near(s, t) <=>
          ((s >= 0) <=> (t >= 0)) /\ 2 * Size(s - t) <= (IF p >= q THEN p ELSE q)
    BY <2>3 DEF p, q
  <2>5. near(-t, -s) <=>
          ((-t >= 0) <=> (-s >= 0)) /\ 2 * Size(s - t) <= (IF p >= q THEN p ELSE q)
    <3>1. (IF q >= p THEN q ELSE p) = (IF p >= q THEN p ELSE q)
      BY <2>1
    <3>2. near(-t, -s) <=>
            ((-t >= 0) <=> (-s >= 0)) /\ 2 * Size((-t) - (-s)) <= Max({q, p})
      BY <2>2
    <3> QED
      BY <2>2, <2>3, <3>1, <3>2
  <2> HIDE DEF near
  <2> QED
    BY <1>2, <2>1, <2>2, <2>4, <2>5
<1> QED
  BY <1>4, <1>5, <1>6

\* The lines of a window, and where the last close is beside them.
Support(w) == Line(w, SwingLows(w), TRUE)
Resistance(w) == Line(w, SwingHighs(w), FALSE)
Upward(w) == AboveLine(w, Resistance(w), Len(w), Now(w).c, TL_BREAK_ATR)
Downward(w) == BelowLine(w, Support(w), Len(w), Now(w).c, TL_BREAK_ATR)
Supported(w) == Fits(w, SwingLows(w), TRUE)
Resisted(w) == Fits(w, SwingHighs(w), FALSE)
\* Neither line is too steep for the price.
Gentle(w) ==
    /\ Cardinality(SwingHighs(w)) > 1 => ~Steep(w, Resistance(w))
    /\ Cardinality(SwingLows(w)) > 1 => ~Steep(w, Support(w))

LineBreak(w) ==
    IF Resisted(w) /\ Upward(w) THEN "bullish"
    ELSE IF Supported(w) /\ Downward(w) THEN "bearish" ELSE "none"
LineRetest(w) ==
    \/ Supported(w) /\ OnLine(w, Support(w), Len(w), Now(w).c)
    \/ Resisted(w) /\ OnLine(w, Resistance(w), Len(w), Now(w).c)
Channel(w) == Supported(w) /\ Resisted(w) /\ Parallel(Support(w), Resistance(w))

LEMMA TrendlinesAre ==
    ASSUME NEW ch, NEW w, w = Window(ch, TL_LOOKBACK)
    PROVE  Trendlines(ch) =
             IF \/ Len(ch) < STRUCT_PIVOT_LEFT + STRUCT_PIVOT_RIGHT + 2
                \/ AtrSum(w) = 0
             THEN NoLines
             ELSE [broken |-> LineBreak(w), retest |-> LineRetest(w), channel |-> Channel(w)]
<1> DEFINE v == Window(ch, TL_LOOKBACK)
           drawn == [low \in BOOLEAN |->
                        Fits(v, IF low THEN SwingLows(v) ELSE SwingHighs(v), low)]
           few == \/ Len(ch) < STRUCT_PIVOT_LEFT + STRUCT_PIVOT_RIGHT + 2
                  \/ AtrSum(v) = 0
           broken(up, down) == IF up THEN "bullish" ELSE IF down THEN "bearish" ELSE "none"
           retest == \/ drawn[TRUE] /\ OnLine(v, Support(v), Len(v), Now(v).c)
                     \/ drawn[FALSE] /\ OnLine(v, Resistance(v), Len(v), Now(v).c)
           channel == drawn[TRUE] /\ drawn[FALSE] /\ Parallel(Support(v), Resistance(v))
<1>1. Trendlines(ch) =
        IF few THEN NoLines
        ELSE [broken |-> broken(drawn[FALSE] /\ Upward(v), drawn[TRUE] /\ Downward(v)),
              retest |-> retest, channel |-> channel]
  BY Zenon DEF Trendlines, Upward, Downward, Support, Resistance
<1>2. drawn[TRUE] = Supported(v) /\ drawn[FALSE] = Resisted(v)
  <2>1. TRUE \in BOOLEAN /\ FALSE \in BOOLEAN
    OBVIOUS
  <2>2. /\ drawn[TRUE] = Fits(v, IF TRUE THEN SwingLows(v) ELSE SwingHighs(v), TRUE)
        /\ drawn[FALSE] = Fits(v, IF FALSE THEN SwingLows(v) ELSE SwingHighs(v), FALSE)
    BY <2>1, Zenon
  <2>3. (IF TRUE THEN SwingLows(v) ELSE SwingHighs(v)) = SwingLows(v)
    BY Zenon
  <2>4. (IF FALSE THEN SwingLows(v) ELSE SwingHighs(v)) = SwingHighs(v)
    BY Zenon
  <2> QED
    BY <2>2, <2>3, <2>4, Zenon DEF Supported, Resisted
<1> HIDE DEF drawn
<1>3. broken(drawn[FALSE] /\ Upward(v), drawn[TRUE] /\ Downward(v)) = LineBreak(v)
  BY <1>2, Zenon DEF LineBreak
<1>4. retest = LineRetest(v)
  BY <1>2, Zenon DEF LineRetest
<1>5. channel = Channel(v)
  BY <1>2, Zenon DEF Channel
<1> HIDE DEF broken, retest, channel, v, few
<1>6. Trendlines(ch) = IF few THEN NoLines
                       ELSE [broken |-> LineBreak(v), retest |-> LineRetest(v),
                             channel |-> Channel(v)]
  BY <1>1, <1>3, <1>4, <1>5, Zenon
<1> QED
  BY <1>6, Zenon DEF v, few

(* The lines of a window turned: support is what resistance was. *)
LEMMA MirrorLines ==
    ASSUME NEW w, NEW v, Mirror(w, v), Gentle(w), Gentle(v)
    PROVE  /\ Supported(v) <=> Resisted(w)
           /\ Resisted(v) <=> Supported(w)
           /\ Upward(v) <=> Downward(w)
           /\ Downward(v) <=> Upward(w)
           /\ OnLine(v, Support(v), Len(v), Now(v).c)
                <=> OnLine(w, Resistance(w), Len(w), Now(w).c)
           /\ OnLine(v, Resistance(v), Len(v), Now(v).c)
                <=> OnLine(w, Support(w), Len(w), Now(w).c)
           /\ Parallel(Support(v), Resistance(v)) <=> Parallel(Support(w), Resistance(w))
<1> DEFINE H == SwingHighs(w)
           L == SwingLows(w)
           x == Len(w)
           y == Now(w).c
<1>1. /\ SwingHighs(v) = L /\ SwingLows(v) = H
      /\ H \in SUBSET (1..Len(w)) /\ L \in SUBSET (1..Len(w))
  BY MirrorSwings
<1>2. x \in Int /\ Len(v) = x /\ y \in Int /\ Now(v).c = Turn - y
  BY MirrorFacts, MirrorNow
<1>3. /\ Support(w) = Line(w, L, TRUE) /\ Resistance(w) = Line(w, H, FALSE)
      /\ Support(v) = Line(v, H, TRUE) /\ Resistance(v) = Line(v, L, FALSE)
      /\ Supported(w) = Fits(w, L, TRUE) /\ Resisted(w) = Fits(w, H, FALSE)
      /\ Supported(v) = Fits(v, H, TRUE) /\ Resisted(v) = Fits(v, L, FALSE)
  BY <1>1, Zenon DEF Support, Resistance, Supported, Resisted
<1>4. /\ Cardinality(H) > 1 => ~Steep(w, Line(w, H, FALSE)) /\ ~Steep(v, Line(v, H, TRUE))
      /\ Cardinality(L) > 1 => ~Steep(w, Line(w, L, TRUE)) /\ ~Steep(v, Line(v, L, FALSE))
  BY <1>1, <1>3 DEF Gentle
<1> HIDE DEF H, L, x, y
<1>5. (~TRUE) = FALSE /\ (~FALSE) = TRUE /\ TRUE \in BOOLEAN /\ FALSE \in BOOLEAN
  BY Zenon
<1>6. /\ Falls(Line(w, H, FALSE), Line(v, H, TRUE))
      /\ Fits(v, H, TRUE) <=> Fits(w, H, FALSE)
  <2> DEFINE yes == TRUE
  <2>1. yes \in BOOLEAN /\ (~yes) = FALSE
    BY <1>5
  <2>2. Cardinality(H) > 1 => ~Steep(w, Line(w, H, ~yes)) /\ ~Steep(v, Line(v, H, yes))
    BY <1>4, <2>1
  <2> HIDE DEF yes
  <2>3. /\ Falls(Line(w, H, ~yes), Line(v, H, yes))
        /\ Fits(v, H, yes) <=> Fits(w, H, ~yes)
    BY <1>1, <2>1, <2>2, MirrorFits
  <2> QED
    BY <2>1, <2>3 DEF yes
<1>7. /\ Falls(Line(w, L, TRUE), Line(v, L, FALSE))
      /\ Fits(v, L, FALSE) <=> Fits(w, L, TRUE)
  <2> DEFINE no == FALSE
  <2>1. no \in BOOLEAN /\ (~no) = TRUE
    BY <1>5
  <2>2. Cardinality(L) > 1 => ~Steep(w, Line(w, L, ~no)) /\ ~Steep(v, Line(v, L, no))
    BY <1>4, <2>1
  <2> HIDE DEF no
  <2>3. /\ Falls(Line(w, L, ~no), Line(v, L, no))
        /\ Fits(v, L, no) <=> Fits(w, L, ~no)
    BY <1>1, <2>1, <2>2, MirrorFits
  <2> QED
    BY <2>1, <2>3 DEF no
<1> DEFINE p == Support(w)
           r == Resistance(w)
           q == Support(v)
           s == Resistance(v)
<1>8. Falls(r, q) /\ Falls(p, s)
  BY <1>3, <1>6, <1>7
<1>9. (Supported(v) <=> Resisted(w)) /\ (Resisted(v) <=> Supported(w))
  BY <1>3, <1>6, <1>7
<1> HIDE DEF p, q, r, s
<1>10. Parallel(q, s) <=> Parallel(p, r)
  BY <1>8, ParallelTurned
<1>11. /\ OnLine(v, q, x, Turn - y) <=> OnLine(w, r, x, y)
       /\ OnLine(v, s, x, Turn - y) <=> OnLine(w, p, x, y)
  BY <1>2, <1>8, MirrorOnLine
<1>12. /\ AboveLine(v, s, x, Turn - y, TL_BREAK_ATR) <=> BelowLine(w, p, x, y, TL_BREAK_ATR)
       /\ BelowLine(v, q, x, Turn - y, TL_BREAK_ATR) <=> AboveLine(w, r, x, y, TL_BREAK_ATR)
  BY <1>2, <1>8, MirrorAboveLine
<1>13. /\ Upward(v) <=> Downward(w)
       /\ Downward(v) <=> Upward(w)
  BY <1>2, <1>12 DEF Upward, Downward, p, q, r, s, x, y
<1> QED
  BY <1>2, <1>9, <1>10, <1>11, <1>13 DEF p, q, r, s, x, y

(* Trendlines turned, but where both are broken at once. *)
LEMMA MirrorTrendlines ==
    ASSUME NEW ch, NEW tc, Mirror(ch, tc),
           NEW w, w = Window(ch, TL_LOOKBACK), NEW v, v = Window(tc, TL_LOOKBACK),
           Gentle(w), Gentle(v), ~(Upward(w) /\ Downward(w))
    PROVE  /\ Trendlines(tc).broken = OtherSide(Trendlines(ch).broken)
           /\ Trendlines(tc).retest = Trendlines(ch).retest
           /\ Trendlines(tc).channel = Trendlines(ch).channel
           /\ Trendlines(ch).broken \in Found
<1>1. TL_LOOKBACK \in Nat \ {0}
  BY LevelsAssumption
<1>2. Mirror(w, v) /\ Len(tc) = Len(ch)
  BY <1>1, MirrorWindow, MirrorFacts
<1>3. AtrSum(v) = AtrSum(w)
  BY <1>2, MirrorAtr
<1>4. /\ Supported(v) <=> Resisted(w)
      /\ Resisted(v) <=> Supported(w)
      /\ Upward(v) <=> Downward(w)
      /\ Downward(v) <=> Upward(w)
      /\ OnLine(v, Support(v), Len(v), Now(v).c)
           <=> OnLine(w, Resistance(w), Len(w), Now(w).c)
      /\ OnLine(v, Resistance(v), Len(v), Now(v).c)
           <=> OnLine(w, Support(w), Len(w), Now(w).c)
      /\ Parallel(Support(v), Resistance(v)) <=> Parallel(Support(w), Resistance(w))
  BY <1>2, MirrorLines
<1>5. LineBreak(v) = OtherSide(LineBreak(w)) /\ LineBreak(w) \in Found
  BY <1>4 DEF LineBreak, OtherSide, Found, Sides
<1>6. LineRetest(v) = LineRetest(w)
  <2>1. LineRetest(v) <=> LineRetest(w)
    BY <1>4 DEF LineRetest
  <2> QED
    BY <2>1 DEF LineRetest
<1>7. Channel(v) = Channel(w)
  <2>1. Channel(v) <=> Channel(w)
    BY <1>4 DEF Channel
  <2> QED
    BY <2>1 DEF Channel
<1> DEFINE few(c, u) == \/ Len(c) < STRUCT_PIVOT_LEFT + STRUCT_PIVOT_RIGHT + 2
                        \/ AtrSum(u) = 0
           full(u) == [broken |-> LineBreak(u), retest |-> LineRetest(u),
                       channel |-> Channel(u)]
<1>8. /\ Trendlines(ch) = IF few(ch, w) THEN NoLines ELSE full(w)
      /\ Trendlines(tc) = IF few(tc, v) THEN NoLines ELSE full(v)
  BY TrendlinesAre, Zenon
<1>9. few(tc, v) <=> few(ch, w)
  BY <1>2, <1>3
<1>10. /\ OtherSide(NoLines.broken) = NoLines.broken /\ NoLines.broken \in Found
  BY DEF NoLines, OtherSide, Found
<1>11. /\ full(v).broken = OtherSide(full(w).broken) /\ full(w).broken \in Found
       /\ full(v).retest = full(w).retest /\ full(v).channel = full(w).channel
  BY <1>5, <1>6, <1>7
<1> HIDE DEF few, full
<1>12. CASE few(ch, w)
  BY <1>8, <1>9, <1>10, <1>12
<1>13. CASE ~few(ch, w)
  BY <1>8, <1>9, <1>11, <1>13
<1> QED
  BY <1>12, <1>13

-----------------------------------------------------------------------------
(* The layers of a setup turned.                                           *)

(* The other side of something is what it is of, and nothing else's. *)
LEMMA OtherSideIs ==
    ASSUME NEW want \in Sides, NEW x
    PROVE  /\ OtherSide(x) = OtherSide(want) <=> x = want
           /\ OtherSide(x) = "neutral" <=> x = "neutral"
           /\ OtherSide(x) = "none" <=> x = "none"
  BY DEF OtherSide, Sides

\* The fields of a structure.
LEMMA StructureIs ==
    ASSUME NEW ch
    PROVE  \E t, b, o, c, d, r :
             Structure(ch) = [trend |-> t, bias |-> b, bos |-> o, choch |-> c,
                              displacement |-> d, retest |-> r]
<1> DEFINE made(t, b, o, c, d, r) ==
        [trend |-> t, bias |-> b, bos |-> o, choch |-> c, displacement |-> d, retest |-> r]
<1>1. \/ Structure(ch) = NoStructure
      \/ \E t, b, o, c, d, r : Structure(ch) = made(t, b, o, c, d, r)
  <2> DEFINE w == Window(ch, STRUCT_LOOKBACK)
             swings == Swings(w)
             trend == Trend(w, swings)
             broken == Broken(w, swings)
             level == LastPrice(w, IF broken = "bullish" THEN Highs(swings)
                                   ELSE Lows(swings))
             turns == broken # "none" /\ broken = Against(trend)
             bos == IF turns THEN "none" ELSE broken
             choch == IF turns THEN broken ELSE "none"
             displacement ==
                IF AtrSum(w) > 0 /\ Exceeds(w, Body(Now(w)), STRUCT_DISPLACEMENT_ATR)
                THEN Colour(Now(w)) ELSE "none"
             retest == IF /\ broken # "none" /\ AtrSum(w) > 0
                          /\ ~Exceeds(w, Size(Now(w).c - level), STRUCT_RETEST_ATR)
                       THEN broken ELSE "none"
             bias == IF turns THEN broken
                     ELSE CASE trend = "uptrend" -> "bullish"
                            [] trend = "downtrend" -> "bearish"
                            [] OTHER -> "neutral"
             few == \/ Len(ch) < STRUCT_PIVOT_LEFT + STRUCT_PIVOT_RIGHT + 2
                    \/ Cardinality(swings) < STRUCT_MIN_SWINGS
             full == [trend |-> trend, bos |-> bos, choch |-> choch,
                      displacement |-> displacement, retest |-> retest, bias |-> bias]
  <2>1. Structure(ch) = IF few THEN NoStructure ELSE full
    BY Zenon DEF Structure
  <2> HIDE DEF trend, bos, choch, displacement, retest, bias, few
  <2>2. full = made(trend, bias, bos, choch, displacement, retest)
    OBVIOUS
  <2> HIDE DEF full, made
  <2> QED
    BY <2>1, <2>2, Zenon
<1>2. NoStructure = made("range", "neutral", "none", "none", "none", "none")
  BY DEF NoStructure
<1> HIDE DEF made
<1>3. \E t, b, o, c, d, r : Structure(ch) = made(t, b, o, c, d, r)
  BY <1>1, <1>2, Zenon
<1> QED
  BY <1>3, Zenon DEF made

(* The fields of a structure turned. *)
LEMMA TurnedFields ==
    ASSUME NEW ch
    PROVE  LET s == Structure(ch)
               t == TurnedStructure(s) IN
           /\ t.trend = OtherTrend(s.trend) /\ t.bias = OtherSide(s.bias)
           /\ t.bos = OtherSide(s.bos) /\ t.choch = OtherSide(s.choch)
           /\ t.displacement = OtherSide(s.displacement)
           /\ t.retest = OtherSide(s.retest)
<1> DEFINE s == Structure(ch)
           tr == OtherTrend(s.trend)
<1>1. PICK t, b, o, c, d, r :
        s = [trend |-> t, bias |-> b, bos |-> o, choch |-> c, displacement |-> d,
             retest |-> r]
  BY StructureIs
<1>2. TurnedStructure(s) = [s EXCEPT !.trend = tr,
              !.bias = OtherSide(@), !.bos = OtherSide(@), !.choch = OtherSide(@),
              !.displacement = OtherSide(@), !.retest = OtherSide(@)]
  BY Zenon DEF TurnedStructure, OtherTrend
<1> HIDE DEF s, tr
<1> DEFINE x == TurnedStructure(s)
<1>3. /\ x.trend = tr /\ x.bias = OtherSide(s.bias)
      /\ x.bos = OtherSide(s.bos) /\ x.choch = OtherSide(s.choch)
      /\ x.displacement = OtherSide(s.displacement)
      /\ x.retest = OtherSide(s.retest)
  BY <1>1, <1>2
<1> QED
  BY <1>3 DEF s, tr

LEMMA StructureTurned ==
    ASSUME NEW ch, NEW want \in Sides
    PROVE  StructureSupport(TurnedStructure(Structure(ch)), OtherSide(want))
             = StructureSupport(Structure(ch), want)
<1> DEFINE s == Structure(ch)
           t == TurnedStructure(s)
           base(x, side) == CASE x.bias = side /\ Against(x.trend) = side -> 35
                              [] x.bias = side /\ Against(x.trend) # side -> 50
                              [] x.bias = "neutral" -> 15
                              [] OTHER -> 0
           total(x, side) ==
               base(x, side) + When(x.bos = side, 20) + When(x.choch = side, 25)
               + When(x.displacement = side, 15) + When(x.retest = side, 10)
           other == OtherSide(want)
<1>1. /\ t.trend = OtherTrend(s.trend) /\ t.bias = OtherSide(s.bias)
      /\ t.bos = OtherSide(s.bos) /\ t.choch = OtherSide(s.choch)
      /\ t.displacement = OtherSide(s.displacement)
      /\ t.retest = OtherSide(s.retest)
  BY TurnedFields
<1>2. ASSUME NEW x, NEW side
      PROVE  StructureSupport(x, side) = Clamp(total(x, side), 0, 100)
  BY Zenon DEF StructureSupport
<1> HIDE DEF s, t
<1>3. Against(t.trend) = OtherSide(Against(s.trend))
  BY <1>1 DEF Against, OtherTrend, OtherSide
<1>4. /\ t.bias = other <=> s.bias = want
      /\ t.bias = "neutral" <=> s.bias = "neutral"
      /\ Against(t.trend) = other <=> Against(s.trend) = want
      /\ t.bos = other <=> s.bos = want
      /\ t.choch = other <=> s.choch = want
      /\ t.displacement = other <=> s.displacement = want
      /\ t.retest = other <=> s.retest = want
  BY <1>1, <1>3, OtherSideIs
<1> HIDE DEF other
<1>5. base(t, other) = base(s, want)
  BY <1>4
<1>6. /\ When(t.bos = other, 20) = When(s.bos = want, 20)
      /\ When(t.choch = other, 25) = When(s.choch = want, 25)
      /\ When(t.displacement = other, 15) = When(s.displacement = want, 15)
      /\ When(t.retest = other, 10) = When(s.retest = want, 10)
  BY <1>4 DEF When
<1> HIDE DEF base
<1>7. total(t, other) = total(s, want)
  BY <1>5, <1>6
<1> HIDE DEF total
<1> QED
  BY <1>2, <1>7 DEF s, t, other

LEMMA ZoneTurned ==
    ASSUME NEW want \in Sides, NEW at, NEW back,
           back.side = OtherEnd(at.side), back.major = at.major,
           at.side \in {"support", "resistance", "none"}
    PROVE  SrSupport(back, OtherSide(want)) = SrSupport(at, want)
  BY DEF SrSupport, OtherEnd, OtherSide, Sides, When

LEMMA LinesTurned ==
    ASSUME NEW want \in Sides, NEW tl, NEW back,
           back.broken = OtherSide(tl.broken), back.retest = tl.retest,
           back.channel = tl.channel
    PROVE  TrendlineSupport(back, OtherSide(want)) = TrendlineSupport(tl, want)
<1>1. back.broken = OtherSide(want) <=> tl.broken = want
  BY OtherSideIs
<1> QED
  BY <1>1 DEF TrendlineSupport

(* Open interest with a price that moved the other way. *)
LEMMA FuturesTurned ==
    ASSUME NEW want \in Sides, NEW oi \in Int \cup {None}, NEW price \in Int, NEW funded
    PROVE  FuturesSupport(Interpret(oi, -price, funded), OtherSide(want))
             = FuturesSupport(Interpret(oi, price, funded), want)
<1> DEFINE f == Interpret(oi, price, funded)
           g == Interpret(oi, -price, funded)
<1>1. f.available = g.available /\ f.high = g.high
  BY DEF Interpret
<1>2. g.bias = OtherSide(f.bias) /\ f.bias \in {"neutral", "bullish", "bearish"}
  <2> DEFINE still == Size(oi) < OI_CHANGE_MIN_PCT \/ oi = 0
             bias(x) == IF oi = None THEN "neutral"
                        ELSE IF still \/ x = 0 THEN "neutral"
                        ELSE IF x > 0 THEN "bullish" ELSE "bearish"
  <2>1. /\ f.bias = bias(price) /\ g.bias = bias(-price)
    BY DEF Interpret
  <2> HIDE DEF still, f, g
  <2>2. (-price = 0 <=> price = 0) /\ (price # 0 => (-price > 0 <=> ~(price > 0)))
    OBVIOUS
  <2> QED
    BY <2>1, <2>2 DEF OtherSide
<1> HIDE DEF f, g
<1>3. (g.bias = OtherSide(want) <=> f.bias = want) /\ (g.bias = "neutral" <=> f.bias = "neutral")
  BY <1>2, OtherSideIs
<1>4. FuturesSupport(g, OtherSide(want)) = FuturesSupport(f, want)
  BY <1>1, <1>3 DEF FuturesSupport
<1> QED
  BY <1>4 DEF f, g

LEMMA PaFields ==
    ASSUME NEW P, NEW B, NEW V, NEW A,
           NEW pa \in [patterns : P, breakout : B, volume_ok : V, absorption : A]
    PROVE  LET t == TurnedPa(pa) IN
           /\ t.patterns = [p \in DOMAIN pa.patterns |-> OtherSide(pa.patterns[p])]
           /\ t.breakout = OtherSide(pa.breakout)
           /\ t.volume_ok = pa.volume_ok /\ t.absorption = pa.absorption
<1> DEFINE ps == pa.patterns
           b == pa.breakout
           v == pa.volume_ok
           a == pa.absorption
<1>1. pa = [patterns |-> ps, breakout |-> b, volume_ok |-> v, absorption |-> a]
  OBVIOUS
<1> HIDE DEF ps, b, v, a
<1>2. TurnedPa(pa) = [patterns |-> [p \in DOMAIN ps |-> OtherSide(ps[p])],
                      breakout |-> OtherSide(b), volume_ok |-> v, absorption |-> a]
  BY <1>1, TurnedPaIs, Zenon
<1> DEFINE turned == [p \in DOMAIN ps |-> OtherSide(ps[p])]
<1> HIDE DEF turned
<1>3. LET t == [patterns |-> turned, breakout |-> OtherSide(b), volume_ok |-> v,
                absorption |-> a] IN
      /\ t.patterns = turned /\ t.breakout = OtherSide(b)
      /\ t.volume_ok = v /\ t.absorption = a
  OBVIOUS
<1> QED
  BY <1>2, <1>3, Zenon DEF turned, ps, b, v, a

LEMMA PaTurned ==
    ASSUME NEW want \in Sides, NEW F, NEW B,
           NEW pa \in [patterns : [1..6 -> F], breakout : B, volume_ok : BOOLEAN,
                       absorption : BOOLEAN]
    PROVE  PaSupport(TurnedPa(pa), OtherSide(want)) = PaSupport(pa, want)
<1> DEFINE t == TurnedPa(pa)
           six == 1..6
           other == OtherSide(want)
           net(x, side) == Signals(x, side) - Signals(x, OtherSide(side))
           trusted(x, side) == IF x.breakout = side /\ ~x.volume_ok THEN 60 ELSE 100
           absorbed(x) == IF x.absorption THEN 70 ELSE 100
<1>1. /\ t.patterns = [p \in DOMAIN pa.patterns |-> OtherSide(pa.patterns[p])]
      /\ t.breakout = OtherSide(pa.breakout)
      /\ t.volume_ok = pa.volume_ok /\ t.absorption = pa.absorption
  <2> DEFINE P == [1..6 -> F]
             V == BOOLEAN
  <2>1. pa \in [patterns : P, breakout : B, volume_ok : V, absorption : V]
    OBVIOUS
  <2> HIDE DEF P, V
  <2> QED
    BY <2>1, PaFields
<1>2. DOMAIN pa.patterns = six
  OBVIOUS
<1>3. ASSUME NEW x, NEW side
      PROVE  PaSupport(x, side) = Min({Clamp(40 + 20 * net(x, side), 0, 100),
                                       trusted(x, side), absorbed(x)})
  BY Zenon DEF PaSupport
<1> HIDE DEF six, t
<1>4. ASSUME NEW side \in Sides
      PROVE  Signals(t, OtherSide(side)) = Signals(pa, side)
  <2>1. \A p \in six : t.patterns[p] = OtherSide(side) <=> pa.patterns[p] = side
    BY <1>1, <1>2, OtherSideIs
  <2>2. {p \in six : t.patterns[p] = OtherSide(side)} = {p \in six : pa.patterns[p] = side}
    BY <2>1
  <2>3. /\ Signals(t, OtherSide(side)) = Cardinality({p \in six : t.patterns[p] = OtherSide(side)})
        /\ Signals(pa, side) = Cardinality({p \in six : pa.patterns[p] = side})
    BY Zenon DEF Signals, six
  <2> QED
    BY <2>2, <2>3
<1>5. other \in Sides /\ OtherSide(other) = want
  BY SidesTurned
<1>6. /\ Signals(t, other) = Signals(pa, want)
      /\ Signals(t, OtherSide(other)) = Signals(pa, OtherSide(want))
  BY <1>4, <1>5
<1>7. net(t, other) = net(pa, want)
  BY <1>6
<1>8. trusted(t, other) = trusted(pa, want) /\ absorbed(t) = absorbed(pa)
  BY <1>1, OtherSideIs
<1> HIDE DEF net, trusted, absorbed
<1>9. PaSupport(t, other) = PaSupport(pa, want)
  <2>1. /\ PaSupport(t, other) = Min({Clamp(40 + 20 * net(t, other), 0, 100),
                                      trusted(t, other), absorbed(t)})
        /\ PaSupport(pa, want) = Min({Clamp(40 + 20 * net(pa, want), 0, 100),
                                      trusted(pa, want), absorbed(pa)})
    BY <1>3
  <2> QED
    BY <1>7, <1>8, <2>1
<1> QED
  BY <1>9 DEF t, other

(* The fields of a snapshot turned. *)
LEMMA SnapFields ==
    ASSUME NEW s \in Snapshot
    PROVE  LET t == TurnedSnap(s) IN
           /\ t # None
           /\ t.close = -s.close /\ t.ema21 = -s.ema21 /\ t.vwap = -s.vwap
           /\ t.bb_mid = -s.bb_mid
           /\ t.bb_lower = -s.bb_upper /\ t.bb_upper = -s.bb_lower
           /\ t.rsi = 100 - s.rsi /\ t.rsi_prev = 100 - s.rsi_prev
           /\ t.range_pos = 100 - s.range_pos
           /\ t.volume = s.volume /\ t.volume_prev = s.volume_prev
           /\ t.volume_avg20 = s.volume_avg20
<1> DEFINE t == TurnedSnap(s)
<1>1. s # None
  BY ReadingAssumption
<1>2. t = [s EXCEPT !.close = -@, !.ema21 = -@, !.vwap = -@, !.bb_mid = -@,
                   !.bb_lower = -s.bb_upper, !.bb_upper = -s.bb_lower,
                   !.rsi = 100 - @, !.rsi_prev = 100 - @, !.range_pos = 100 - @]
  BY <1>1, Zenon DEF TurnedSnap
<1>3. /\ s.close \in Int /\ s.ema21 \in Int /\ s.vwap \in Int /\ s.bb_mid \in Int
      /\ s.bb_lower \in Int /\ s.bb_upper \in Int /\ s.rsi \in Int
      /\ s.rsi_prev \in Int /\ s.range_pos \in Int
  BY DEF Snapshot
<1>4. /\ t.close = -s.close /\ t.ema21 = -s.ema21 /\ t.vwap = -s.vwap
      /\ t.bb_mid = -s.bb_mid
      /\ t.bb_lower = -s.bb_upper /\ t.bb_upper = -s.bb_lower
      /\ t.rsi = 100 - s.rsi /\ t.rsi_prev = 100 - s.rsi_prev
      /\ t.range_pos = 100 - s.range_pos
      /\ t.volume = s.volume /\ t.volume_prev = s.volume_prev
      /\ t.volume_avg20 = s.volume_avg20
  BY <1>2 DEF Snapshot
<1>5. t \in Snapshot
  <2>1. /\ t.close \in Int /\ t.ema21 \in Int /\ t.vwap \in Int /\ t.rsi \in Int
        /\ t.rsi_prev \in Int /\ t.bb_lower \in Int /\ t.bb_mid \in Int
        /\ t.bb_upper \in Int /\ t.range_pos \in Int
        /\ t.volume \in Nat /\ t.volume_prev \in Nat /\ t.volume_avg20 \in Nat
    BY <1>3, <1>4 DEF Snapshot
  <2>2. /\ t = [x \in DOMAIN t |-> t[x]]
        /\ DOMAIN t = DOMAIN s
    BY <1>2
  <2>3. DOMAIN s = {"close", "ema21", "vwap", "rsi", "rsi_prev", "bb_lower", "bb_mid",
                    "bb_upper", "range_pos", "volume", "volume_prev", "volume_avg20"}
    BY DEF Snapshot
  <2> HIDE DEF t
  <2> QED
    BY <2>1, <2>2, <2>3 DEF Snapshot
<1> QED
  BY <1>4, <1>5, ReadingAssumption

(* Room in the range, an exhausted RSI, a close at a band: of a long as of *)
(* a short, where the bounds of the RSI are as far from 50.                *)
LEMMA ExhaustionTurned ==
    ASSUME QUALITY_RSI_OVERSOLD + QUALITY_RSI_OVERBOUGHT = 100, NEW want \in Sides,
           NEW snap \in Snapshot \cup {None}, NEW ready, NEW ch
    PROVE  ExhaustionFactor(OtherSide(want), TurnedSnap(snap), ready,
                            TurnedStructure(Structure(ch)))
             = ExhaustionFactor(want, snap, ready, Structure(ch))
<1> DEFINE back == TurnedSnap(snap)
           other == OtherSide(want)
           s == Structure(ch)
           t == TurnedStructure(s)
           strong(x, side) == x.bos = side /\ x.displacement = side
           penalties(x, k, side) ==
               LocationPenalties(k, side, ready)
               \cup (IF ~strong(x, side) /\ RsiExhausted(k, side)
                     THEN {100 * QUALITY_RSI_EXHAUSTION_FACTOR} ELSE {})
               \cup (IF ~strong(x, side) /\ AtBand(k, side)
                     THEN {100 * QUALITY_BB_EXTREME_FACTOR} ELSE {})
               \cup VolumePenalties(k)
<1>1. ASSUME NEW x, NEW k, NEW side
      PROVE  ExhaustionFactor(side, k, ready, x) =
               IF k = None THEN 10000
               ELSE IF penalties(x, k, side) = {} THEN 10000
               ELSE Max({5000, Min(penalties(x, k, side))})
  <2> DEFINE firm == x.bos = side /\ x.displacement = side
             all == LocationPenalties(k, side, ready)
                    \cup (IF ~firm /\ RsiExhausted(k, side)
                          THEN {100 * QUALITY_RSI_EXHAUSTION_FACTOR} ELSE {})
                    \cup (IF ~firm /\ AtBand(k, side)
                          THEN {100 * QUALITY_BB_EXTREME_FACTOR} ELSE {})
                    \cup VolumePenalties(k)
  <2>1. ExhaustionFactor(side, k, ready, x) =
          IF k = None THEN 10000
          ELSE IF all = {} THEN 10000
          ELSE Max({5000, Min(all)})
    BY DEF ExhaustionFactor
  <2>2. all = penalties(x, k, side)
    OBVIOUS
  <2> HIDE DEF all, penalties, s, t, back, other
  <2> QED
    BY <2>1, <2>2
<1>2. CASE snap = None
  <2>1. back = None
    BY <1>2 DEF TurnedSnap
  <2> HIDE DEF penalties, back, s, t, other
  <2>2. ASSUME NEW x, NEW k, NEW side, k = None
        PROVE  ExhaustionFactor(side, k, ready, x) = 10000
    <3> DEFINE worst(p) == IF p = {} THEN 10000 ELSE Max({5000, Min(p)})
    <3>1. ExhaustionFactor(side, k, ready, x)
            = IF k = None THEN 10000 ELSE worst(penalties(x, k, side))
      BY <1>1
    <3> HIDE DEF worst
    <3> QED
      BY <2>2, <3>1
  <2>3. /\ ExhaustionFactor(other, back, ready, t) = 10000
        /\ ExhaustionFactor(want, snap, ready, s) = 10000
    BY <1>2, <2>1, <2>2
  <2> QED
    BY <2>3 DEF back, s, t, other
<1>3. CASE snap # None
  <2>1. snap \in Snapshot
    BY <1>3
  <2>2. /\ back # None
        /\ back.close = -snap.close
        /\ back.bb_lower = -snap.bb_upper /\ back.bb_upper = -snap.bb_lower
        /\ back.rsi = 100 - snap.rsi
        /\ back.range_pos = 100 - snap.range_pos
        /\ back.volume = snap.volume /\ back.volume_prev = snap.volume_prev
        /\ back.volume_avg20 = snap.volume_avg20
    BY <2>1, SnapFields
  <2>3. /\ snap.close \in Int /\ snap.bb_lower \in Int /\ snap.bb_upper \in Int
        /\ snap.rsi \in Int /\ snap.range_pos \in Int
    BY <2>1 DEF Snapshot
  <2>4. strong(t, other) <=> strong(s, want)
    <3>1. t.bos = OtherSide(s.bos) /\ t.displacement = OtherSide(s.displacement)
      BY TurnedFields
    <3> HIDE DEF s, t
    <3> QED
      BY <3>1, OtherSideIs
  <2> HIDE DEF back, s, t
  <2>5. \/ want = "bullish" /\ other = "bearish"
        \/ want = "bearish" /\ other = "bullish"
    BY SidesTurned
  <2> HIDE DEF other
  <2>6. LocationPenalties(back, other, ready) = LocationPenalties(snap, want, ready)
    <3> DEFINE room(k, side) == IF side = "bullish" THEN 100 - k.range_pos ELSE k.range_pos
               tiers(r) == {i \in DOMAIN Locations : r <= Locations[i][1]}
               cost(r) ==
                   IF tiers(r) = {} THEN {}
                   ELSE {10000 - (100 - Locations[Min(tiers(r))][2])
                             * (IF ready THEN QUALITY_SWEEP_EXEMPT_FACTOR ELSE 100)}
    <3>1. ASSUME NEW k, NEW side
          PROVE  LocationPenalties(k, side, ready) = cost(room(k, side))
      BY Zenon DEF LocationPenalties
    <3>2. room(back, other) = room(snap, want)
      BY <2>2, <2>3, <2>5
    <3> HIDE DEF cost, room
    <3> QED
      BY <3>1, <3>2, Zenon
  <2>7. RsiExhausted(back, other) <=> RsiExhausted(snap, want)
    <3>1. QUALITY_RSI_OVERSOLD \in Int /\ QUALITY_RSI_OVERBOUGHT \in Int
      BY RsiAssumption
    <3> QED
      BY <2>2, <2>3, <2>5, <3>1 DEF RsiExhausted
  <2>8. AtBand(back, other) <=> AtBand(snap, want)
    BY <2>2, <2>3, <2>5 DEF AtBand
  <2>9. VolumePenalties(back) = VolumePenalties(snap)
    BY <2>2, Zenon DEF VolumePenalties
  <2>10. penalties(t, back, other) = penalties(s, snap, want)
    <3> HIDE DEF strong
    <3> QED
      BY <2>4, <2>6, <2>7, <2>8, <2>9
  <2> HIDE DEF penalties
  <2>11. ExhaustionFactor(other, back, ready, t) = ExhaustionFactor(want, snap, ready, s)
    <3> DEFINE worst(p) == IF p = {} THEN 10000 ELSE Max({5000, Min(p)})
    <3>1. ASSUME NEW x, NEW k, NEW side, k # None
          PROVE  ExhaustionFactor(side, k, ready, x) = worst(penalties(x, k, side))
      BY <1>1, <3>1
    <3> HIDE DEF worst
    <3>2. /\ ExhaustionFactor(other, back, ready, t) = worst(penalties(t, back, other))
          /\ ExhaustionFactor(want, snap, ready, s) = worst(penalties(s, snap, want))
      BY <1>3, <2>2, <3>1
    <3> QED
      BY <2>10, <3>2
  <2> QED
    BY <2>11 DEF back, other, s, t
<1> QED
  BY <1>2, <1>3

-----------------------------------------------------------------------------
(* Each of the six votes is the one a short would have in the market       *)
(* turned, but for a flat RSI and one between the bounds of an extreme.    *)
LEMMA VotesTurned ==
    ASSUME NEW want \in Sides, NEW snap \in Snapshot \cup {None}, ~SnapTied(snap)
    PROVE  Votes(TurnedSnap(snap), OtherSide(want)) = Votes(snap, want)
<1> DEFINE back == TurnedSnap(snap)
           other == OtherSide(want)
           beyond(k, x, side) == IF side = "bullish" THEN Vote(k.close > x, k.close < x)
                                 ELSE Vote(k.close < x, k.close > x)
           rising(k, side) == Vote((k.rsi > k.rsi_prev) = (side = "bullish"), TRUE)
           spent(k, side) == IF side = "bullish" THEN Vote(k.rsi <= RSI_OVERBOUGHT, TRUE)
                             ELSE Vote(k.rsi >= RSI_OVERSOLD, TRUE)
           banded(k, side) ==
               IF side = "bullish" THEN Vote(k.close <= k.bb_mid, k.close >= k.bb_upper)
               ELSE Vote(k.close >= k.bb_mid, k.close <= k.bb_lower)
           louder(k) == Vote(k.volume > k.volume_prev, FALSE)
           all(k, side) == beyond(k, k.ema21, side) + beyond(k, k.vwap, side)
                           + rising(k, side)
                           + (IF side = "bullish"
                              THEN Vote(k.rsi <= RSI_OVERBOUGHT, TRUE)
                                   + Vote(k.close <= k.bb_mid, k.close >= k.bb_upper)
                              ELSE Vote(k.rsi >= RSI_OVERSOLD, TRUE)
                                   + Vote(k.close >= k.bb_mid, k.close <= k.bb_lower))
                           + louder(k)
<1>1. ASSUME NEW k, NEW side
      PROVE  Votes(k, side) = IF k = None THEN 0 ELSE all(k, side)
  BY Zenon DEF Votes
<1>2. CASE snap = None
  <2>1. back = None
    BY <1>2 DEF TurnedSnap
  <2> HIDE DEF all, back
  <2>2. Votes(back, other) = 0 /\ Votes(snap, want) = 0
    BY <1>1, <1>2, <2>1, Zenon
  <2> QED
    BY <2>2 DEF back
<1>3. CASE snap # None
  <2>1. snap \in Snapshot
    BY <1>3
  <2>2. /\ back # None
        /\ back.close = -snap.close /\ back.ema21 = -snap.ema21 /\ back.vwap = -snap.vwap
        /\ back.bb_mid = -snap.bb_mid
        /\ back.bb_lower = -snap.bb_upper /\ back.bb_upper = -snap.bb_lower
        /\ back.rsi = 100 - snap.rsi /\ back.rsi_prev = 100 - snap.rsi_prev
        /\ back.volume = snap.volume /\ back.volume_prev = snap.volume_prev
    BY <2>1, SnapFields
  <2>3. /\ snap.close \in Int /\ snap.ema21 \in Int /\ snap.vwap \in Int
        /\ snap.bb_mid \in Int /\ snap.bb_lower \in Int /\ snap.bb_upper \in Int
        /\ snap.rsi \in Int /\ snap.rsi_prev \in Int
    BY <2>1 DEF Snapshot
  <2>4. \/ want = "bullish" /\ other = "bearish"
        \/ want = "bearish" /\ other = "bullish"
    BY SidesTurned
  <2>5. /\ snap.rsi # snap.rsi_prev
        /\ snap.rsi <= 100 - RSI_OVERSOLD <=> snap.rsi <= RSI_OVERBOUGHT
        /\ snap.rsi >= 100 - RSI_OVERBOUGHT <=> snap.rsi >= RSI_OVERSOLD
        /\ RSI_OVERSOLD \in Int /\ RSI_OVERBOUGHT \in Int
    BY <1>3, RsiAssumption DEF SnapTied
  <2> HIDE DEF back, other
  <2>6. /\ beyond(back, back.ema21, other) = beyond(snap, snap.ema21, want)
        /\ beyond(back, back.vwap, other) = beyond(snap, snap.vwap, want)
    BY <2>2, <2>3, <2>4 DEF Vote
  <2>7. rising(back, other) = rising(snap, want)
    <3>1. (back.rsi > back.rsi_prev) <=> ~(snap.rsi > snap.rsi_prev)
      BY <2>2, <2>3, <2>5
    <3>2. ((back.rsi > back.rsi_prev) = (other = "bullish"))
            <=> ((snap.rsi > snap.rsi_prev) = (want = "bullish"))
      BY <2>4, <3>1
    <3> QED
      BY <3>2 DEF Vote
  <2>8. spent(back, other) = spent(snap, want)
    BY <2>2, <2>3, <2>4, <2>5 DEF Vote
  <2>9. banded(back, other) = banded(snap, want)
    BY <2>2, <2>3, <2>4 DEF Vote
  <2>10. louder(back) = louder(snap)
    BY <2>2 DEF Vote
  <2>11. ASSUME NEW k, NEW side
         PROVE  all(k, side) = beyond(k, k.ema21, side) + beyond(k, k.vwap, side)
                               + rising(k, side) + (spent(k, side) + banded(k, side))
                               + louder(k)
    BY DEF Vote
  <2> HIDE DEF beyond, rising, spent, banded, louder, all
  <2>12. all(back, other) = all(snap, want)
    BY <2>6, <2>7, <2>8, <2>9, <2>10, <2>11, Zenon
  <2>13. Votes(back, other) = Votes(snap, want)
    BY <1>1, <1>3, <2>2, <2>12, Zenon
  <2> QED
    BY <2>13 DEF back, other
<1> QED
  BY <1>2, <1>3

-----------------------------------------------------------------------------
(* The score of a setup turned.                                            *)

LEMMA MarketFields ==
    ASSUME NEW m \in Market
    PROVE  LET t == TurnedMarket(m) IN
           /\ m.pa \in [patterns : [1..6 -> Sides \cup {"none"}],
                        breakout : Sides \cup {"none"},
                        volume_ok : BOOLEAN, absorption : BOOLEAN]
           /\ m.oi \in Int \cup {None} /\ m.price \in Int
           /\ m.setup \in Snapshot \cup {None} /\ m.htf \in Snapshot \cup {None}
           /\ t.pa = TurnedPa(m.pa) /\ t.price = -m.price
           /\ t.setup = TurnedSnap(m.setup) /\ t.htf = TurnedSnap(m.htf)
           /\ t.mtf = m.mtf /\ t.oi = m.oi /\ t.funded = m.funded
           /\ t.direction_factor = m.direction_factor /\ t.rr = m.rr
<1> DEFINE P == [patterns : [1..6 -> Sides \cup {"none"}],
                 breakout : Sides \cup {"none"},
                 volume_ok : BOOLEAN, absorption : BOOLEAN]
           D == 0..100
           S == Snapshot \cup {None}
<1>1. m \in [pa : P, mtf : STRING, oi : Int \cup {None}, price : Int, funded : BOOLEAN,
             direction_factor : D, rr : Nat \cup {None}, setup : S, htf : S]
  BY Zenon DEF Market
<1> HIDE DEF P, D, S
<1>2. m.pa \in P /\ m.oi \in Int \cup {None} /\ m.price \in Int /\ m.setup \in S /\ m.htf \in S
  BY <1>1
<1>3. LET t == [m EXCEPT !.pa = TurnedPa(@), !.price = -@, !.setup = TurnedSnap(@),
                         !.htf = TurnedSnap(@)] IN
      /\ t.pa = TurnedPa(m.pa) /\ t.price = -m.price
      /\ t.setup = TurnedSnap(m.setup) /\ t.htf = TurnedSnap(m.htf)
      /\ t.mtf = m.mtf /\ t.oi = m.oi /\ t.funded = m.funded
      /\ t.direction_factor = m.direction_factor /\ t.rr = m.rr
  BY <1>1
<1> QED
  BY <1>2, <1>3, Zenon DEF TurnedMarket, P, S

\* The hypotheses of the ties, of any chart: see ChartTied and the others.
Untied(ch) ==
    LET w == Window(ch, STRUCT_LOOKBACK)
        z == Window(ch, SR_LOOKBACK) IN
    /\ ~(Above(w, Swings(w)) /\ Below(w, Swings(w)))
    /\ ~TrendTied(w)
    /\ Uncentred(z) /\ Ranked(z)
Unbroken(ch, tc) ==
    LET w == Window(ch, TL_LOOKBACK)
        v == Window(tc, TL_LOOKBACK) IN
    Gentle(w) /\ Gentle(v) /\ ~(Upward(w) /\ Downward(w))

(* The primary points of a setup are those of the setup turned. *)
LEMMA RawTurned ==
    ASSUME NEW ch, NEW tc, Mirror(ch, tc), Untied(ch), Unbroken(ch, tc),
           NEW m \in Market, NEW want \in Sides
    PROVE  RawPrimary(tc, TurnedMarket(m), OtherSide(want)) = RawPrimary(ch, m, want)
<1> DEFINE t == TurnedMarket(m)
           other == OtherSide(want)
<1>1. StructureSupport(Structure(tc), other) = StructureSupport(Structure(ch), want)
  <2>1. Structure(tc) = TurnedStructure(Structure(ch))
    BY MirrorStructure DEF Untied
  <2> QED
    BY <2>1, StructureTurned
<1>2. SrSupport(AtZone(tc), other) = SrSupport(AtZone(ch), want)
  <2>1. /\ AtZone(tc).side = OtherEnd(AtZone(ch).side)
        /\ AtZone(tc).major = AtZone(ch).major
        /\ AtZone(ch).side \in {"support", "resistance", "none"}
    BY MirrorAtZone DEF Untied
  <2> QED
    BY <2>1, ZoneTurned
<1>3. LiquiditySupport(Liquidity(tc)[other]) = LiquiditySupport(Liquidity(ch)[want])
  <2>1. other \in Sides /\ OtherSide(other) = want
    BY SidesTurned
  <2>2. Liquidity(tc)[other] = Liquidity(ch)[want]
    BY <2>1, MirrorLiquidity
  <2> QED
    BY <2>2
<1>4. PaSupport(t.pa, other) = PaSupport(m.pa, want)
  <2> DEFINE B == Sides \cup {"none"}
  <2>1. m.pa \in [patterns : [1..6 -> B], breakout : B, volume_ok : BOOLEAN,
                  absorption : BOOLEAN]
    BY MarketFields
  <2> HIDE DEF B
  <2>2. PaSupport(TurnedPa(m.pa), other) = PaSupport(m.pa, want)
    BY <2>1, PaTurned
  <2> QED
    BY <2>2, MarketFields
<1>5. TrendlineSupport(Trendlines(tc), other) = TrendlineSupport(Trendlines(ch), want)
  <2>1. /\ Trendlines(tc).broken = OtherSide(Trendlines(ch).broken)
        /\ Trendlines(tc).retest = Trendlines(ch).retest
        /\ Trendlines(tc).channel = Trendlines(ch).channel
    BY MirrorTrendlines DEF Unbroken
  <2> QED
    BY <2>1, LinesTurned
<1>6. FuturesSupport(Interpret(t.oi, t.price, t.funded), other)
        = FuturesSupport(Interpret(m.oi, m.price, m.funded), want)
  <2>1. /\ m.oi \in Int \cup {None} /\ m.price \in Int
        /\ t.oi = m.oi /\ t.price = -m.price /\ t.funded = m.funded
    BY MarketFields
  <2> HIDE DEF t
  <2> QED
    BY <2>1, FuturesTurned
<1>7. MtfSupport(t.mtf) = MtfSupport(m.mtf)
  BY MarketFields
<1> HIDE DEF t, other
<1>8. RawPrimary(tc, t, other) = RawPrimary(ch, m, want)
  BY <1>1, <1>2, <1>3, <1>4, <1>5, <1>6, <1>7, Zenon DEF RawPrimary
<1> QED
  BY <1>8 DEF t, other

(* So is the score. *)
LEMMA ScoreTurned ==
    ASSUME QUALITY_RSI_OVERSOLD + QUALITY_RSI_OVERBOUGHT = 100,
           NEW ch, NEW tc, Mirror(ch, tc), Untied(ch), Unbroken(ch, tc),
           NEW m \in Market, ~SnapTied(m.setup), NEW want \in Sides
    PROVE  Score(tc, TurnedMarket(m), OtherSide(want)) = Score(ch, m, want)
<1> DEFINE t == TurnedMarket(m)
           other == OtherSide(want)
<1>1. RawPrimary(tc, t, other) = RawPrimary(ch, m, want)
  BY RawTurned
<1>2. /\ m.setup \in Snapshot \cup {None} /\ m.htf \in Snapshot \cup {None}
      /\ t.setup = TurnedSnap(m.setup) /\ t.htf = TurnedSnap(m.htf)
      /\ t.direction_factor = m.direction_factor /\ t.rr = m.rr
  BY MarketFields
<1>3. Liquidity(tc)[other] = Liquidity(ch)[want]
  <2>1. other \in Sides /\ OtherSide(other) = want
    BY SidesTurned
  <2> QED
    BY <2>1, MirrorLiquidity
<1>4. Structure(tc) = TurnedStructure(Structure(ch))
  BY MirrorStructure DEF Untied
<1>5. Votes(t.setup, other) = Votes(m.setup, want)
  BY <1>2, VotesTurned
<1> DEFINE ready == Liquidity(ch)[want].ready
           e == ExhaustionFactor(want, m.htf, ready, Structure(ch))
<1>6. TotalFactor(ch, m, want) = (m.direction_factor * e) \div 100
  BY Zenon DEF TotalFactor
<1>7. TotalFactor(tc, t, other)
        = (m.direction_factor
             * ExhaustionFactor(other, TurnedSnap(m.htf), ready,
                                TurnedStructure(Structure(ch)))) \div 100
  BY <1>2, <1>3, <1>4, Zenon DEF TotalFactor
<1> HIDE DEF ready
<1>8. ExhaustionFactor(other, TurnedSnap(m.htf), ready, TurnedStructure(Structure(ch))) = e
  BY <1>2, ExhaustionTurned
<1> HIDE DEF e, t, other
<1>9. TotalFactor(tc, t, other) = TotalFactor(ch, m, want)
  BY <1>6, <1>7, <1>8, Zenon
<1>10. Score(tc, t, other) = Score(ch, m, want)
  BY <1>1, <1>2, <1>5, <1>9, Zenon DEF Score
<1> QED
  BY <1>10 DEF t, other

-----------------------------------------------------------------------------
(* The chart of a state turned is a chart, and every tie of EvenHanded     *)
(* that does not hold is a hypothesis of the lemmas above.                 *)
LEMMA ChartTurned ==
    ASSUME ChartInv
    PROVE  Mirror(chart, TurnedChart)
<1>1. /\ chart \in Seq(Candle) /\ chart # <<>>
      /\ Len(chart) \in Nat \ {0} /\ DOMAIN chart = 1..Len(chart)
      /\ \A i \in 1..Len(chart) : chart[i] \in Candle
  BY ChartFacts DEF ChartInv, ChartOK
<1>2. \A i \in 1..Len(chart) : TurnedCandle(chart[i]) \in Candle
  BY <1>1, TurnedFacts
<1> DEFINE n == Len(chart)
           t == [i \in 1..n |-> TurnedCandle(chart[i])]
<1>3. TurnedChart = t
  BY <1>1 DEF TurnedChart
<1> HIDE DEF n
<1>4. n \in Nat \ {0} /\ n = Len(chart)
  BY <1>1 DEF n
<1>5. t \in Seq(Candle) /\ Len(t) = n
  BY <1>2, <1>4
<1>6. t # <<>>
  BY <1>4, <1>5
<1>7. \A i \in 1..n : t[i] = TurnedCandle(chart[i])
  OBVIOUS
<1> HIDE DEF t
<1> QED
  BY <1>1, <1>3, <1>4, <1>5, <1>6, <1>7 DEF Mirror, ChartOK

LEMMA TiesAre ==
    /\ ~ChartTied => Untied(chart)
    /\ ~LineTied /\ ~SteepTied => Unbroken(chart, TurnedChart)
<1>1. ~ChartTied => Untied(chart)
  BY Zenon DEF ChartTied, Untied, Uncentred, Ranked
<1>2. ~LineTied /\ ~SteepTied => Unbroken(chart, TurnedChart)
  <2>1. ~SteepTied =>
          \A ch \in {chart, TurnedChart} : Gentle(Window(ch, TL_LOOKBACK))
    BY Zenon DEF SteepTied, Gentle, Support, Resistance
  <2>2. ~LineTied <=> ~(/\ Upward(Window(chart, TL_LOOKBACK))
                        /\ Downward(Window(chart, TL_LOOKBACK)))
    BY Zenon DEF LineTied, Upward, Downward, Support, Resistance
  <2> QED
    BY <2>1, <2>2, Zenon DEF Unbroken
<1> QED
  BY <1>1, <1>2

(* EvenHanded (market_structure.py, liquidity.py, price_action.py,         *)
(* support_resistance.py, trendlines.py, setup_quality.py), with the       *)
(* bounds of an exhausted RSI as far from 50 on either side, as they are   *)
(* configured (config.py:365-366).                                         *)
LEMMA ReadEvenly ==
    ASSUME QUALITY_RSI_OVERSOLD + QUALITY_RSI_OVERBOUGHT = 100, ChartInv, JudgedInv
    PROVE  EvenHanded
<1>1. Mirror(chart, TurnedChart)
  BY ChartTurned
<1>2. CASE judged = None
  <2>1. RangeTied \/ PriceAction(TurnedChart) = TurnedPa(PriceAction(chart))
    BY <1>1, MirrorPriceAction DEF RangeTied
  <2>2. ChartTied \/ /\ Structure(TurnedChart) = TurnedStructure(Structure(chart))
                     /\ AtZone(TurnedChart) = TurnedZone(AtZone(chart))
    <3> SUFFICES ASSUME ~ChartTied
                 PROVE  /\ Structure(TurnedChart) = TurnedStructure(Structure(chart))
                        /\ AtZone(TurnedChart) = TurnedZone(AtZone(chart))
      OBVIOUS
    <3>1. Untied(chart)
      BY TiesAre
    <3> QED
      BY <1>1, <3>1, MirrorStructure, MirrorAtZone DEF Untied
  <2>3. \A side \in Sides : Liquidity(TurnedChart)[side] = Liquidity(chart)[OtherSide(side)]
    BY <1>1, MirrorLiquidity
  <2> QED
    BY <1>2, <2>1, <2>2, <2>3, Zenon DEF EvenHanded
<1>3. CASE judged # None
  <2> DEFINE m == judged.market
             want == judged.want
             even == Score(TurnedChart, TurnedMarket(m), OtherSide(want)) = judged.score
  <2>1. m \in Market /\ want \in Sides /\ judged.score = Score(chart, m, want)
    BY <1>3, ReadingAssumption DEF JudgedInv
  <2>2. ChartTied \/ LineTied \/ SteepTied \/ SnapTied(m.setup) \/ even
    <3> SUFFICES ASSUME ~ChartTied, ~LineTied, ~SteepTied, ~SnapTied(m.setup) PROVE even
      BY Zenon
    <3>1. Untied(chart) /\ Unbroken(chart, TurnedChart)
      BY TiesAre
    <3> HIDE DEF m, want
    <3>2. Score(TurnedChart, TurnedMarket(m), OtherSide(want)) = Score(chart, m, want)
      BY <1>1, <2>1, <3>1, ScoreTurned
    <3> QED
      BY <2>1, <3>2
  <2> QED
    BY <1>3, <2>2, Zenon DEF EvenHanded
<1> QED
  BY <1>2, <1>3

(* In every run, for any chart and market, the detectors and the score read *)
(* a chart for a long as they read it turned upside down for a short,       *)
(* wherever the code has no tie to break.                                   *)
THEOREM NoSideFavoured ==
    QUALITY_RSI_OVERSOLD + QUALITY_RSI_OVERBOUGHT = 100 => (Spec => []EvenHanded)
<1> SUFFICES ASSUME QUALITY_RSI_OVERSOLD + QUALITY_RSI_OVERBOUGHT = 100
             PROVE  Spec => []EvenHanded
  OBVIOUS
<1>1. ChartInv /\ JudgedInv => EvenHanded
  BY ReadEvenly
<1> QED
  BY <1>1, ChartHolds, JudgedHolds, PTL
=============================================================================
