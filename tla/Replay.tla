------------------------------- MODULE Replay -------------------------------
(***************************************************************************)
(* backtest.py --strategy: the decision core is stepped over the history   *)
(* of one coin, bar by bar, and every alertable setup is scored on the     *)
(* bars after it.  Bars close on the exchange between two runs of the      *)
(* backtest.  Time is counted in bars of the entry timeframe: the n-th bar *)
(* opens at n - 1 and closes at n.                                         *)
(***************************************************************************)
EXTENDS Integers, Sequences, SequencesExt, FiniteSetsExt

CONSTANTS
    Shapes,              \* the bars that may close, from their open
    Decide(_),           \* decision.decide: what it says of its frames
    HtfBars,             \* bars in one candle of the higher timeframe
    COOLDOWN,            \* DUPLICATE_COOLDOWN_MIN, in bars
    HORIZON,             \* horizon_hours, in bars
    ALERT_QUALITY_MIN,
    MaxBars              \* bound on the history

ASSUME ReplayAssumption ==
    /\ Shapes \subseteq [h : Nat, l : Int, c : Int]
    /\ \A k \in Shapes : k.l <= 0 /\ k.l <= k.c /\ k.c <= k.h
    /\ {HtfBars, HORIZON} \subseteq Nat \ {0}
    /\ {COOLDOWN, ALERT_QUALITY_MIN, MaxBars} \subseteq Nat

VARIABLES
    bars,      \* the entry bars closed so far
    report     \* of the last run: [results, no_trade, logged_only]

replayVars == <<bars, report>>

Start == 100
Close(history) == IF history = << >> THEN Start ELSE Last(history).c

Bar(open, t, k) == [t |-> t, o |-> open, h |-> open + k.h, l |-> open + k.l,
                    c |-> open + k.c]

-----------------------------------------------------------------------------
(* The frames.                                                             *)

\* The higher timeframe, of which _fetch_tf_history drops the forming candle.
Htf(history) ==
    [k \in 1..Len(history) \div HtfBars |->
        [t |-> (k - 1) * HtfBars,
         o |-> history[(k - 1) * HtfBars + 1].o,
         c |-> history[k * HtfBars].c]]

FramesFull(history) == [entry |-> history, htf |-> Htf(history)]
Duration == [entry |-> 1, htf |-> HtfBars]

\* The index of a frame is in order of time: the rows before t are a prefix.
UpTo(frame, rows) == SubSeq(frame, 1, Max(rows \cup {0}))

OpenedBy(frame, duration, t) ==
    UpTo(frame, {n \in DOMAIN frame : frame[n].t < t})

ClosedBy(frame, duration, t) ==
    UpTo(frame, {n \in DOMAIN frame : frame[n].t + duration <= t})

SliceFrames(frames, t) ==
    [tf \in DOMAIN frames |-> ClosedBy(frames[tf], Duration[tf], t)]

-----------------------------------------------------------------------------
(* evaluate_signal: the gain is counted in ticks, in place of R.           *)

HitSl(sig, k) == IF sig.signal = "BUY" THEN k.l <= sig.sl ELSE k.h >= sig.sl
HitTp(sig, k) == IF sig.signal = "BUY" THEN k.h >= sig.tp ELSE k.l <= sig.tp

Move(sig, price) == IF sig.signal = "BUY" THEN price - sig.entry
                                          ELSE sig.entry - price

Scored(sig, outcome, gain) == [sig |-> sig, outcome |-> outcome, gain |-> gain]

\* The stop counts first when a bar hits both.
Filled(sig, k) == IF HitSl(sig, k) THEN Scored(sig, "LOSS", Move(sig, sig.sl))
                                   ELSE Scored(sig, "WIN", Move(sig, sig.tp))

\* The rows of the horizon, and those of them that hit a level.
Ahead(sig, history) ==
    {n \in DOMAIN history : sig.t + 1 <= history[n].t /\ history[n].t < sig.t + HORIZON}
Hits(sig, history) ==
    {n \in Ahead(sig, history) : HitSl(sig, history[n]) \/ HitTp(sig, history[n])}

EvaluateSignal(sig, history) ==
    CASE Ahead(sig, history) = {} -> Scored(sig, "NO_DATA", 0)
      [] Hits(sig, history) # {}   -> Filled(sig, history[Min(Hits(sig, history))])
      [] OTHER -> Scored(sig, "OPEN", Move(sig, history[Max(Ahead(sig, history))].c))

-----------------------------------------------------------------------------
(* replay_strategy.                                                        *)

EmptyReport == [results |-> << >>, no_trade |-> 0, logged_only |-> 0]

Cooling(results, t) == results # << >> /\ t < Last(results).sig.t + COOLDOWN

Signal(d, t) == [t |-> t, signal |-> IF d.decision = "LONG" THEN "BUY" ELSE "SELL",
                 entry |-> d.entry, sl |-> d.sl, tp |-> d.tp]

\* What the replay makes of the decision d at the bar that opens at t.
Judged(rep, d, t, history) ==
    CASE d.decision = "NO_TRADE"         -> [rep EXCEPT !.no_trade = @ + 1]
      [] d.decision # "NO_TRADE" /\ d.quality < ALERT_QUALITY_MIN
                                         -> [rep EXCEPT !.logged_only = @ + 1]
      [] OTHER -> [rep EXCEPT !.results =
                      Append(@, EvaluateSignal(Signal(d, t), history))]

ReplayBar(rep, k, history) ==
    IF Cooling(rep.results, k.t) THEN rep
    ELSE Judged(rep, Decide(SliceFrames(FramesFull(history), k.t + 1)), k.t, history)

ReplayStrategy(history) ==
    FoldLeft(LAMBDA rep, k : ReplayBar(rep, k, history), EmptyReport, history)

-----------------------------------------------------------------------------

ReplayTypeOK ==
    /\ Len(bars) <= MaxBars
    /\ report.no_trade + report.logged_only + Len(report.results) <= Len(bars)

ReplayInit == bars = << >> /\ report = EmptyReport

BarCloses(k) ==
    /\ Len(bars) < MaxBars
    /\ bars' = Append(bars, Bar(Close(bars), Len(bars), k))
    /\ UNCHANGED report

RunBacktest ==
    /\ bars # << >>
    /\ report' = ReplayStrategy(bars)
    /\ UNCHANGED bars

ReplayNext == (\E k \in Shapes : BarCloses(k)) \/ RunBacktest

ReplaySpec == ReplayInit /\ [][ReplayNext]_replayVars

-----------------------------------------------------------------------------
(* Properties.                                                             *)

Settled(r) == r.outcome \in {"WIN", "LOSS"}

(* "Free of look-ahead" (backtest.py:44-46, 164-175): a run over a longer  *)
(* history reports the same setups at the same bars with the same levels   *)
(* as the run before it and only adds later ones, and a trade that was won *)
(* or lost stays so; what the candles of both timeframes become after a    *)
(* bar closed does not reach the decision at that bar.                     *)
NoHindsight ==
    [][report'.results # report.results =>
          /\ Len(report.results) <= Len(report'.results)
          /\ \A n \in DOMAIN report.results :
                /\ report'.results[n].sig = report.results[n].sig
                /\ Settled(report.results[n]) =>
                      report'.results[n] = report.results[n]
          /\ report'.no_trade >= report.no_trade
      ]_replayVars

(* No trade is credited with more than its target or charged with more     *)
(* than its stop, and an open one with strictly less: the score of a setup *)
(* lies where its levels do, on whichever side it is (backtest.py:79-122). *)
ScoreWithinLevels ==
    \A n \in DOMAIN report.results :
        LET r == report.results[n]
            loss == Move(r.sig, r.sig.sl)
            win == Move(r.sig, r.sig.tp) IN
        /\ loss <= r.gain /\ r.gain <= win
        /\ r.outcome = "OPEN" => loss < r.gain /\ r.gain < win

(* Both, for the report a reader sees.                                     *)
ReplayFair == NoHindsight /\ []ScoreWithinLevels
=============================================================================
