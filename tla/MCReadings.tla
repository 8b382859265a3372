---------------------------- MODULE MCReadings ----------------------------
(***************************************************************************)
(* A small instance of ChartReading: prices around 40, four candles, each  *)
(* of which is there the other way up too, and windows scaled down from    *)
(* those of config.py.  The ratios and the points are those of config.py,  *)
(* but for four, as the prices are so few: the slope of a trendline, the   *)
(* two displacements (60 for 1.5 ATR) and the proximity of a zone (30 for  *)
(* 1 ATR).                                                                 *)
(***************************************************************************)
EXTENDS ChartReading, TLC

Shape(h, l, c, v) == [h |-> h, l |-> l, c |-> c, v |-> v]
Rise == Shape(3, -1, 3, 2)
Fall == Shape(1, -3, -3, 2)
WickUp == Shape(5, -1, 1, 3)
WickDown == Shape(1, -5, -1, 3)

SomeCandles == {Rise, Fall, WickUp, WickDown}

\* Up, down and up again, and the other way round.
Drawn(shapes) ==
    FoldLeft(LAMBDA ch, k : Append(ch, Placed(IF ch = <<>> THEN 40 ELSE Now(ch).c, k)),
             <<>>, shapes)
Outside == Shape(6, -6, 0, 2)
SomeOpenings == {Drawn(<<Rise, Fall, Rise>>), Drawn(<<Fall, Rise, Fall>>),
                 Drawn(<<Rise, Outside, Rise>>)}

QualityWeights ==
    [structure |-> 25, sr |-> 20, liquidity |-> 20, price_action |-> 15,
     mtf |-> 10, trendline |-> 5, futures |-> 5]

LocationTiers == <<<<15, 55>>, <<30, 75>>, <<45, 90>>>>

Snap(close, rsi, rsi_prev, range_pos, volume) ==
    [close |-> close, ema21 |-> 0, vwap |-> 1, rsi |-> rsi, rsi_prev |-> rsi_prev,
     bb_lower |-> -4, bb_mid |-> 0, bb_upper |-> 5, range_pos |-> range_pos,
     volume |-> volume, volume_prev |-> 4, volume_avg20 |-> 5]

Pa(patterns, breakout, volume_ok, absorption) ==
    [patterns |-> patterns, breakout |-> breakout, volume_ok |-> volume_ok,
     absorption |-> absorption]
Bulls == <<"bullish", "bullish", "bullish", "bullish", "none", "none">>
Bears == <<"none", "bearish", "none", "none", "bearish", "none">>

\* Every value of every field of a market, in a few combinations.
SomeMarkets ==
    {[mtf |-> "aligned", pa |-> Pa(Bulls, "bullish", TRUE, FALSE), oi |-> 2,
      price |-> 1, funded |-> TRUE, direction_factor |-> 100, rr |-> 150,
      setup |-> Snap(5, 60, 55, 50, 6), htf |-> Snap(2, 60, 55, 20, 6)],
     [mtf |-> "choch_reversal", pa |-> Pa(Bulls, "bullish", FALSE, FALSE), oi |-> -2,
      price |-> 1, funded |-> TRUE, direction_factor |-> 75, rr |-> 120,
      setup |-> Snap(-4, 24, 30, 50, 3), htf |-> Snap(5, 72, 70, 60, 3)],
     [mtf |-> "counter_htf", pa |-> Pa(Bears, "none", FALSE, TRUE), oi |-> 2,
      price |-> -1, funded |-> FALSE, direction_factor |-> 60, rr |-> None,
      setup |-> Snap(0, 50, 50, 50, 4), htf |-> None],
     [mtf |-> "neutral_htf", pa |-> Pa(Bears, "bearish", FALSE, FALSE), oi |-> None,
      price |-> 0, funded |-> FALSE, direction_factor |-> 100, rr |-> 200,
      setup |-> None, htf |-> Snap(-4, 28, 30, 90, 5)],
     [mtf |-> "other", pa |-> Pa(Bulls, "bullish", TRUE, TRUE), oi |-> None,
      price |-> 1, funded |-> TRUE, direction_factor |-> 100, rr |-> 150,
      setup |-> Snap(5, 80, 70, 50, 5), htf |-> Snap(-5, 40, 41, 75, 4)]}
=============================================================================
