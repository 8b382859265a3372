---------------------------- MODULE DecisionCore ----------------------------
(***************************************************************************)
(* decision.decide with mtf.combine, direction_gate.confirm and            *)
(* risk_gate.evaluate, after the 1H funnel of the scan that asks for it:   *)
(* one coin, one scan.  The gates are operators; the steps choose what the *)
(* detectors reported, among the reads they can report together.           *)
(*                                                                         *)
(* Prices are integers, ratios and factors percentages.  "range" stands    *)
(* for range and consolidation, which no gate tells apart.                 *)
(***************************************************************************)
EXTENDS Integers, FiniteSets

CONSTANTS
    Entries,                \* 5M closes
    Swings,                 \* levels of the last swings
    Zones,                  \* S/R zones: [lo, hi, side]
    MaxZones,               \* bound: zones reported at once
    RISK_SL_BUFFER,         \* RISK_SL_BUFFER_ATR * atr
    RISK_TARGET_ZONE_PAD,   \* RISK_TARGET_ZONE_PAD_ATR * atr
    RISK_MIN_TARGET,        \* RISK_MIN_TARGET_ATR * atr
    RISK_MAX_STOP,          \* RISK_MAX_STOP_ATR * atr
    MIN_RR,
    DIR_CONFLICT_FACTOR, DIR_CONFLICT_LATE_FACTOR,
    DIR_POSITIONING_CONFLICT_FACTOR, DIR_MOMENTUM_CONFLICT_FACTOR,
    DIR_MOMENTUM_CONFLICT_CONFIRMED_FACTOR, DIR_UNCONFIRMED_CHOCH_FACTOR,
    None

Factors ==
    {DIR_CONFLICT_FACTOR, DIR_CONFLICT_LATE_FACTOR,
     DIR_POSITIONING_CONFLICT_FACTOR, DIR_MOMENTUM_CONFLICT_FACTOR,
     DIR_MOMENTUM_CONFLICT_CONFIRMED_FACTOR, DIR_UNCONFIRMED_CHOCH_FACTOR, 100}

ASSUME DecisionAssumption ==
    /\ Entries \subseteq Int /\ Swings \subseteq Int
    /\ Zones \subseteq [lo : Int, hi : Int, side : {"support", "resistance"}]
    /\ {RISK_SL_BUFFER, RISK_TARGET_ZONE_PAD} \subseteq Nat
    /\ {RISK_MIN_TARGET, RISK_MAX_STOP, MIN_RR, MaxZones} \subseteq Nat
    /\ Factors \subseteq 0..100
    /\ None \notin Int
    /\ None \notin {"LONG", "SHORT", "bullish", "bearish", "bull", "bear",
                    "uptrend", "downtrend", "support", "resistance"}

(* The factors of config.py:375-379 grow as the contradiction weakens.      *)
ASSUME FactorAssumption ==
    /\ DIR_CONFLICT_FACTOR <= DIR_CONFLICT_LATE_FACTOR
    /\ DIR_CONFLICT_LATE_FACTOR <= DIR_POSITIONING_CONFLICT_FACTOR
    /\ DIR_POSITIONING_CONFLICT_FACTOR <= DIR_MOMENTUM_CONFLICT_FACTOR
    /\ DIR_MOMENTUM_CONFLICT_FACTOR <= DIR_MOMENTUM_CONFLICT_CONFIRMED_FACTOR

VARIABLES
    stage,      \* how far the coin has got
    htf,        \* the 1H read
    asked,      \* the direction the funnel let through, None in a replay
    crowded,    \* the side the funding rate calls overleveraged, or None
    mtf,        \* what mtf.combine returned
    evidence,   \* what direction_gate.confirm is given
    gate,       \* what direction_gate.confirm returned
    market,     \* what risk_gate.evaluate was given
    risk,       \* what it returned
    verdict

vars ==
    <<stage, htf, asked, crowded, mtf, evidence, gate, market, risk, verdict>>

Directions == {"LONG", "SHORT"}
Biases == {"bullish", "bearish", "neutral"}
Breaks == {"bullish", "bearish", None}
BiasOf(dir) == IF dir = "LONG" THEN "bullish" ELSE "bearish"
TrendAgainst(dir) == IF dir = "LONG" THEN "downtrend" ELSE "uptrend"
TapeFor(dir) == IF dir = "LONG" THEN "bull" ELSE "bear"
TapeAgainst(dir) == IF dir = "LONG" THEN "bear" ELSE "bull"

(* Mutated form: the words of the alert layer.                              *)
DirectionOfAlerts(bias) ==
    CASE bias = "bullish" -> "BUY" [] bias = "bearish" -> "SELL" [] OTHER -> None

DirectionOf(bias) ==
    CASE bias = "bullish" -> "LONG" [] bias = "bearish" -> "SHORT" [] OTHER -> None

Lesser(a, b) == IF a < b THEN a ELSE b

----------------------------------------------------------------------------
(* market_structure.analyze: a break against the trend is a CHoCH, any      *)
(* other a BOS; a fresh CHoCH leads the bias, else the trend does.          *)

Reads ==
    {r \in [trend : {"uptrend", "downtrend", "range"}, bos : Breaks,
            choch : Breaks, displacement : Breaks, retest : Breaks] :
        /\ r.bos = None \/ r.choch = None
        /\ r.choch = "bullish" => r.trend = "downtrend"
        /\ r.choch = "bearish" => r.trend = "uptrend"
        /\ r.bos = "bullish" => r.trend # "downtrend"
        /\ r.bos = "bearish" => r.trend # "uptrend"
        /\ r.retest # None => r.retest \in {r.bos, r.choch}}

BiasRead(r) ==
    IF r.choch # None THEN r.choch
    ELSE IF r.trend = "uptrend" THEN "bullish"
    ELSE IF r.trend = "downtrend" THEN "bearish"
    ELSE "neutral"

----------------------------------------------------------------------------
(* mtf.combine.                                                             *)

(* Mutated form: the setup timeframe leads.                                 *)
PrimarySetupFirst(htf_bias, setup_bias) ==
    IF setup_bias # "neutral" THEN setup_bias ELSE htf_bias

Primary(htf_bias, setup_bias) ==
    IF htf_bias # "neutral" THEN htf_bias ELSE setup_bias

Combine(high, setup_bias, entry_bias) ==
    LET dir == DirectionOf(Primary(high.bias, setup_bias))
        counter == /\ dir # None /\ high.bias # "neutral"
                   /\ entry_bias \notin {BiasOf(dir), "neutral"}
    IN  [direction      |-> dir,
         counter_htf    |-> counter,
         choch_reversal |-> /\ dir # None /\ high.bias = BiasOf(dir)
                            /\ high.trend = TrendAgainst(dir)]

----------------------------------------------------------------------------
(* direction_gate.confirm, on the evidence for or against a direction.      *)

(* A tape read is what positioning or momentum says; without one nothing is *)
(* said.                                                                    *)
Tapes == {"bull", "bear", "mixed"}
Evidence ==
    [setup : Reads, long_ready : BOOLEAN, short_ready : BOOLEAN,
     setup_pos : Tapes, entry_pos : Tapes, htf_pos : Tapes, momentum : Tapes]

Sweep(dir, e) == IF dir = "LONG" THEN e.long_ready ELSE e.short_ready
Shown(event, dir) == event = BiasOf(dir)

FullConfirmation(dir, e) ==
    Shown(e.setup.bos, dir) /\ Shown(e.setup.displacement, dir)

AnyConfirmation(dir, e) ==
    \/ Shown(e.setup.bos, dir) \/ Shown(e.setup.displacement, dir)
    \/ Sweep(dir, e)
    \/ Shown(e.setup.choch, dir) /\ Shown(e.setup.retest, dir)

ContraBoth(dir, e) ==
    e.setup_pos = TapeAgainst(dir) /\ e.entry_pos = TapeAgainst(dir)
ContraOne(dir, e) ==
    (e.setup_pos = TapeAgainst(dir)) # (e.entry_pos = TapeAgainst(dir))
MomentumAgainst(dir, e) == e.momentum = TapeAgainst(dir)

Conflict(dir, e) ==
    /\ ContraBoth(dir, e) /\ MomentumAgainst(dir, e)
    /\ ~ (FullConfirmation(dir, e) \/ Sweep(dir, e))

(* Mutated form: the branches about momentum come first.                    *)
TapeFactorMomentumFirst(dir, e) ==
    IF Conflict(dir, e) THEN DIR_CONFLICT_FACTOR
    ELSE IF MomentumAgainst(dir, e) /\ ~ AnyConfirmation(dir, e)
      THEN DIR_MOMENTUM_CONFLICT_FACTOR
    ELSE IF MomentumAgainst(dir, e) THEN DIR_MOMENTUM_CONFLICT_CONFIRMED_FACTOR
    ELSE IF ContraBoth(dir, e) THEN DIR_POSITIONING_CONFLICT_FACTOR
    ELSE IF ContraOne(dir, e) /\ ~ AnyConfirmation(dir, e)
      THEN DIR_POSITIONING_CONFLICT_FACTOR
    ELSE 100

TapeFactor(dir, e) ==
    IF Conflict(dir, e) THEN DIR_CONFLICT_FACTOR
    ELSE IF ContraBoth(dir, e) /\ MomentumAgainst(dir, e)
      THEN DIR_CONFLICT_LATE_FACTOR
    ELSE IF ContraBoth(dir, e) THEN DIR_POSITIONING_CONFLICT_FACTOR
    ELSE IF ContraOne(dir, e) /\ ~ AnyConfirmation(dir, e)
      THEN DIR_POSITIONING_CONFLICT_FACTOR
    ELSE IF MomentumAgainst(dir, e) /\ ~ AnyConfirmation(dir, e)
      THEN DIR_MOMENTUM_CONFLICT_FACTOR
    ELSE IF MomentumAgainst(dir, e) THEN DIR_MOMENTUM_CONFLICT_CONFIRMED_FACTOR
    ELSE 100

(* Mutated form: for both directions the sweep of the long side counts.     *)
ConfirmedAfterLongSweep(dir, e) ==
    \/ Shown(e.setup.displacement, dir) \/ Shown(e.setup.retest, dir)
    \/ e.long_ready
    \/ e.setup_pos = TapeFor(dir) /\ e.entry_pos = TapeFor(dir)

ConfirmedAfter(dir, e) ==
    \/ Shown(e.setup.displacement, dir) \/ Shown(e.setup.retest, dir)
    \/ Sweep(dir, e)
    \/ e.setup_pos = TapeFor(dir) /\ e.entry_pos = TapeFor(dir)

ChochFactor(dir, e, reversal) ==
    IF reversal /\ ~ ConfirmedAfter(dir, e) THEN DIR_UNCONFIRMED_CHOCH_FACTOR
    ELSE 100

HtfFactor(dir, e) ==
    IF e.htf_pos # TapeAgainst(dir) THEN 100
    ELSE IF AnyConfirmation(dir, e) THEN DIR_MOMENTUM_CONFLICT_CONFIRMED_FACTOR
    ELSE DIR_POSITIONING_CONFLICT_FACTOR

Confirm(dir, e, reversal) ==
    LET factor == Lesser(TapeFactor(dir, e),
                         Lesser(ChochFactor(dir, e, reversal), HtfFactor(dir, e)))
    IN  [status |-> IF Conflict(dir, e) THEN "conflict"
                    ELSE IF factor < 100 THEN "weak" ELSE "confirmed",
         factor |-> factor]

----------------------------------------------------------------------------
(* risk_gate.evaluate.                                                      *)

Distance(a, b) == IF a < b THEN b - a ELSE a - b

StructureStop(dir, m) ==
    IF dir = "LONG"
      THEN IF m.swing_low # None /\ m.swing_low < m.entry
             THEN m.swing_low - RISK_SL_BUFFER ELSE None
      ELSE IF m.swing_high # None /\ m.swing_high > m.entry
             THEN m.swing_high + RISK_SL_BUFFER ELSE None

OpposingSide(dir) == IF dir = "LONG" THEN "resistance" ELSE "support"
Opposing(dir, m) == {z \in m.zones : z.side = OpposingSide(dir)}

(* Mutated form: the side of a zone is taken to say where it lies.          *)
TargetLevelUnguarded(dir, entry, z) ==
    IF dir = "LONG" THEN z.lo - RISK_TARGET_ZONE_PAD
                    ELSE z.hi + RISK_TARGET_ZONE_PAD

TargetLevel(dir, entry, z) ==
    IF dir = "LONG"
      THEN IF z.lo - RISK_TARGET_ZONE_PAD > entry
             THEN z.lo - RISK_TARGET_ZONE_PAD ELSE None
      ELSE IF z.hi + RISK_TARGET_ZONE_PAD < entry
             THEN z.hi + RISK_TARGET_ZONE_PAD ELSE None

(* Mutated form: the zones are ordered by their far edges.                  *)
NearerFarEdge(dir, y, z) ==
    IF dir = "LONG" THEN y.hi < z.hi ELSE y.lo > z.lo

Nearer(dir, y, z) == IF dir = "LONG" THEN y.lo < z.lo ELSE y.hi > z.hi

(* The walk takes the first zone of the order that offers enough, else the  *)
(* first that offers a level at all.                                        *)
Usable(dir, m) == {z \in Opposing(dir, m) : TargetLevel(dir, m.entry, z) # None}
Rewarding(dir, m) ==
    {z \in Usable(dir, m) :
        Distance(TargetLevel(dir, m.entry, z), m.entry) >= RISK_MIN_TARGET}
FirstOf(dir, S) == {z \in S : \A y \in S : ~ Nearer(dir, y, z)}

Targets(dir, m) ==
    IF Usable(dir, m) = {} THEN {None}
    ELSE {TargetLevel(dir, m.entry, z) :
             z \in FirstOf(dir, IF Rewarding(dir, m) # {} THEN Rewarding(dir, m)
                                ELSE Usable(dir, m))}

PoorRR(m, sl, tp) ==
    /\ sl # None /\ tp # None
    /\ 100 * Distance(tp, m.entry) < MIN_RR * Distance(m.entry, sl)

Reasons ==
    {"no_atr", "no_structure_stop", "no_clear_target", "stop_too_wide",
     "target_too_close", "poor_rr", "into_opposing_zone"}

RiskReasons(dir, m, sl, tp) ==
    UNION {IF sl = None THEN {"no_structure_stop"} ELSE {},
           IF tp = None THEN {"no_clear_target"} ELSE {},
           IF sl # None /\ Distance(m.entry, sl) > RISK_MAX_STOP
             THEN {"stop_too_wide"} ELSE {},
           IF tp # None /\ Distance(tp, m.entry) < RISK_MIN_TARGET
             THEN {"target_too_close"} ELSE {},
           IF PoorRR(m, sl, tp) THEN {"poor_rr"} ELSE {},
           IF m.at_zone = OpposingSide(dir) THEN {"into_opposing_zone"} ELSE {}}

Evaluations(dir, m) ==
    IF m.no_atr THEN {[sl |-> None, tp |-> None, reasons |-> {"no_atr"}]}
    ELSE LET sl == StructureStop(dir, m)
         IN  {[sl |-> sl, tp |-> tp, reasons |-> RiskReasons(dir, m, sl, tp)] :
                 tp \in Targets(dir, m)}

----------------------------------------------------------------------------
(* What the detectors may report to risk_gate.  Sides are told by the 15M   *)
(* close and the entry is the 5M close, so a zone may lie on either side.   *)

Markets ==
    {m \in [entry : Entries, swing_low : Swings \cup {None},
            swing_high : Swings \cup {None},
            zones : {S \in SUBSET Zones : Cardinality(S) <= MaxZones},
            at_zone : {"support", "resistance", None}, no_atr : BOOLEAN] :
        m.at_zone # None => \E z \in m.zones : z.side = m.at_zone}

HigherReads == {[trend |-> r.trend, bias |-> BiasRead(r)] : r \in Reads}

----------------------------------------------------------------------------
Init ==
    /\ stage = "waiting"
    /\ htf = None /\ asked = None /\ crowded = None
    /\ mtf = None /\ evidence = None /\ gate = None
    /\ market = None /\ risk = None /\ verdict = None

(* The scan's funnel: the 1H bias asks for a direction, unless the funding  *)
(* rate calls that side overleveraged.                                      *)
Funnel ==
    /\ stage = "waiting"
    /\ \E h \in HigherReads, c \in Directions \cup {None} :
        /\ DirectionOf(h.bias) \notin {None, c}
        /\ htf' = h /\ crowded' = c /\ asked' = DirectionOf(h.bias)
    /\ stage' = "asked"
    /\ UNCHANGED <<mtf, evidence, gate, market, risk, verdict>>

(* backtest.py calls decide on whatever the frames are.                     *)
Replay ==
    /\ stage = "waiting"
    /\ htf' \in HigherReads
    /\ stage' = "asked"
    /\ UNCHANGED <<asked, crowded, mtf, evidence, gate, market, risk, verdict>>

NoTrade == stage' = "decided" /\ verdict' = "NO_TRADE"

(* One of the three frames is too short.                                    *)
TooShort ==
    /\ stage = "asked" /\ NoTrade
    /\ UNCHANGED <<htf, asked, crowded, mtf, evidence, gate, market, risk>>

(* The structure reads are combined and the other detectors run.            *)
Analyse ==
    /\ stage = "asked"
    /\ \E e \in Evidence, entry_bias \in Biases :
        LET combined == Combine(htf, BiasRead(e.setup), entry_bias)
        IN  IF combined.direction = None
              THEN NoTrade /\ UNCHANGED <<mtf, evidence>>
              ELSE /\ stage' = "analysed" /\ mtf' = combined /\ evidence' = e
                   /\ UNCHANGED verdict
    /\ UNCHANGED <<htf, asked, crowded, gate, market, risk>>

ConfirmDirection ==
    /\ stage = "analysed" /\ stage' = "confirmed"
    /\ gate' = Confirm(mtf.direction, evidence, mtf.choch_reversal)
    /\ evidence' = None
    /\ UNCHANGED <<htf, asked, crowded, mtf, market, risk, verdict>>

(* The risk gate, the score and the verdict.  Whether setup_quality lets    *)
(* the setup pass, for its primary evidence and its total, is free.         *)
Judge ==
    /\ stage = "confirmed" /\ stage' = "decided"
    /\ \E m \in Markets, passes \in BOOLEAN :
        \E evaluation \in Evaluations(mtf.direction, m) :
            /\ market' = m /\ risk' = evaluation
            /\ verdict' =
                IF /\ ~ mtf.counter_htf /\ gate.status # "conflict"
                   /\ passes /\ evaluation.reasons = {}
                  THEN mtf.direction ELSE "NO_TRADE"
    /\ UNCHANGED <<htf, asked, crowded, mtf, evidence, gate>>

NextCoin ==
    /\ stage = "decided" /\ stage' = "waiting"
    /\ htf' = None /\ asked' = None /\ crowded' = None
    /\ mtf' = None /\ evidence' = None /\ gate' = None
    /\ market' = None /\ risk' = None /\ verdict' = None

Next ==
    \/ Funnel \/ Replay \/ TooShort \/ Analyse
    \/ ConfirmDirection \/ Judge \/ NextCoin

Spec == Init /\ [][Next]_vars

----------------------------------------------------------------------------
(* Types; a direction is one of the two words decide speaks.                *)
TypeOK ==
    /\ stage \in {"waiting", "asked", "analysed", "confirmed", "decided"}
    /\ htf \in HigherReads \cup {None}
    /\ asked \in Directions \cup {None} /\ crowded \in Directions \cup {None}
    /\ mtf \in [direction : Directions, counter_htf : BOOLEAN,
               choch_reversal : BOOLEAN] \cup {None}
    /\ evidence \in Evidence \cup {None}
    /\ gate \in [status : {"confirmed", "weak", "conflict"},
                factor : Factors] \cup {None}
    /\ market \in Markets \cup {None}
    /\ risk \in [sl : Int \cup {None}, tp : Int \cup {None},
                reasons : SUBSET Reasons] \cup {None}
    /\ verdict \in Directions \cup {"NO_TRADE", None}

(* A scan trades a coin only in the direction its funnel asked for, which   *)
(* is the side of the 1H bias and not the side funding calls overleveraged: *)
(* the funding check is made once, before the direction is decided again    *)
(* from three timeframes (main.py:599, decision.py:119).                    *)
TradeAllowed ==
    asked # None /\ verdict \in Directions =>
        /\ verdict = asked /\ verdict # crowded
        /\ htf.bias = BiasOf(verdict)

(* A trade has its stop and its target on the two sides of the entry, the   *)
(* stop beyond the swing it protects and no wider than the limit, and a     *)
(* reward that is worth the risk (risk_gate.py:33-46, 91-137, 151-174).     *)
TradeGeometry ==
    verdict \in Directions =>
        /\ IF verdict = "LONG"
             THEN /\ risk.sl <= market.swing_low
                  /\ market.swing_low < market.entry /\ market.entry < risk.tp
             ELSE /\ risk.tp < market.entry /\ market.entry < market.swing_high
                  /\ market.swing_high <= risk.sl
        /\ Distance(market.entry, risk.sl) <= RISK_MAX_STOP
        /\ Distance(risk.tp, market.entry) >= RISK_MIN_TARGET
        /\ 100 * Distance(risk.tp, market.entry)
             >= MIN_RR * Distance(market.entry, risk.sl)

(* The target is the least one the opposing zones offer: no usable zone     *)
(* with enough reward lies nearer the entry, whatever the zones' widths and *)
(* however they overlap (risk_gate.py:91-101 walks them by one edge).       *)
TargetNearest ==
    verdict \in Directions =>
        \A z \in Rewarding(verdict, market) :
            Distance(risk.tp, market.entry)
                <= Distance(TargetLevel(verdict, market.entry, z), market.entry)

----------------------------------------------------------------------------
(* Longs and shorts.                                                        *)

OtherSide(dir) == IF dir = "LONG" THEN "SHORT" ELSE "LONG"
Turned(word) ==
    CASE word = "bullish" -> "bearish" [] word = "bearish" -> "bullish"
      [] word = "bull" -> "bear" [] word = "bear" -> "bull"
      [] word = "uptrend" -> "downtrend" [] word = "downtrend" -> "uptrend"
      [] word = "support" -> "resistance" [] word = "resistance" -> "support"
      [] OTHER -> word
Negated(price) == IF price = None THEN None ELSE - price

TurnedEvidence(e) ==
    [setup |-> [field \in DOMAIN e.setup |-> Turned(e.setup[field])],
     long_ready |-> e.short_ready, short_ready |-> e.long_ready,
     setup_pos |-> Turned(e.setup_pos), entry_pos |-> Turned(e.entry_pos),
     htf_pos |-> Turned(e.htf_pos), momentum |-> Turned(e.momentum)]

TurnedMarket(m) ==
    [entry |-> - m.entry, swing_low |-> Negated(m.swing_high),
     swing_high |-> Negated(m.swing_low),
     zones |-> {[lo |-> - z.hi, hi |-> - z.lo, side |-> Turned(z.side)] :
                   z \in m.zones},
     at_zone |-> Turned(m.at_zone), no_atr |-> m.no_atr]

TurnedRisk(r) == [r EXCEPT !.sl = Negated(@), !.tp = Negated(@)]

(* The two directions are judged alike: with the chart turned upside down   *)
(* the direction gate gives the other direction the same status and factor, *)
(* and the risk gate the mirrored levels with the same objections.  The     *)
(* code writes each rule once per direction (direction_gate.py:67-84,       *)
(* risk_gate.py:36-46, 57-64, 78-88).                                       *)
Mirrored ==
    /\ evidence # None =>
        Confirm(mtf.direction, evidence, mtf.choch_reversal)
          = Confirm(OtherSide(mtf.direction), TurnedEvidence(evidence),
                    mtf.choch_reversal)
    /\ market # None =>
        Evaluations(OtherSide(mtf.direction), TurnedMarket(market))
          = {TurnedRisk(r) : r \in Evaluations(mtf.direction, market)}

(* What speaks for the direction on top of e, or no longer against it.      *)
Better(dir, e) ==
    {[e EXCEPT !.momentum = "mixed"], [e EXCEPT !.htf_pos = "mixed"],
     [e EXCEPT !.setup_pos = IF @ = TapeAgainst(dir) THEN "mixed" ELSE @],
     [e EXCEPT !.entry_pos = IF @ = TapeAgainst(dir) THEN "mixed" ELSE @],
     [e EXCEPT !.long_ready = @ \/ dir = "LONG",
               !.short_ready = @ \/ dir = "SHORT"],
     [e EXCEPT !.setup.displacement = BiasOf(dir)]}

(* A contradiction that goes away or a confirmation that arrives never      *)
(* lowers the factor the score is multiplied with, nor turns a direction    *)
(* into a conflict: the branches of direction_gate.py:97-124 overlap and    *)
(* their order decides.                                                     *)
EvidenceHelps ==
    evidence # None =>
        \A e \in Better(mtf.direction, evidence) :
            LET now == Confirm(mtf.direction, evidence, mtf.choch_reversal)
                then == Confirm(mtf.direction, e, mtf.choch_reversal)
            IN  /\ then.factor >= now.factor
                /\ then.status = "conflict" => now.status = "conflict"
=============================================================================
