------------------------ MODULE DecisionCoreProofs ------------------------
(***************************************************************************)
(* Theorems about DecisionCore, for every set of prices and zones and every *)
(* value of the limits.  The decision is one pass over fresh data, so the   *)
(* invariant only has to carry what an earlier step fixed to the last one:  *)
(* the direction the funnel asked for, and with a trade the evaluation that *)
(* raised no objection.  What that evaluation means for the levels is       *)
(* proved once, about the operators.                                        *)
(***************************************************************************)
EXTENDS DecisionCore, TLAPS

(* The funnel's direction is the side of the 1H bias, checked against       *)
(* funding.                                                                 *)
AskedInv ==
    /\ stage = "waiting" => asked = None
    /\ asked # None => asked = DirectionOf(htf.bias) /\ asked # crowded

(* The combined direction cannot leave a 1H bias that is not neutral; the   *)
(* evidence is there for the direction gate only.                           *)
LeadInv ==
    /\ evidence # None => stage = "analysed"
    /\ stage \in {"analysed", "confirmed"} =>
        /\ mtf.direction \in Directions
        /\ htf.bias # "neutral" => mtf.direction = DirectionOf(htf.bias)

(* A trade has the combined direction and a clean evaluation.               *)
JudgedInv ==
    /\ stage # "decided" => verdict = None
    /\ verdict \in Directions =>
        /\ htf.bias # "neutral" => verdict = DirectionOf(htf.bias)
        /\ market \in Markets
        /\ risk \in Evaluations(verdict, market) /\ risk.reasons = {}

TradeInv == AskedInv /\ LeadInv /\ JudgedInv

-----------------------------------------------------------------------------
(* A combination that has a direction follows the 1H bias unless that is    *)
(* neutral.                                                                 *)
LEMMA HigherLeads ==
    ASSUME NEW high, NEW setup_bias, NEW entry_bias,
           Combine(high, setup_bias, entry_bias).direction # None
    PROVE  LET dir == Combine(high, setup_bias, entry_bias).direction
           IN  /\ dir \in Directions
               /\ high.bias # "neutral" => dir = DirectionOf(high.bias)
  BY DecisionAssumption DEF Combine, Primary, DirectionOf, Directions

(* No trade is the verdict of neither direction.                            *)
LEMMA NoDirection == None \notin Directions /\ "NO_TRADE" \notin Directions
  BY DecisionAssumption DEF Directions

LEMMA InitTrade == Init => TradeInv
  BY NoDirection DEF Init, TradeInv, AskedInv, LeadInv, JudgedInv

LEMMA NextTrade == TradeInv /\ [Next]_vars => TradeInv'
<1> SUFFICES ASSUME TradeInv, [Next]_vars PROVE TradeInv'
  OBVIOUS
<1> USE NoDirection DEF TradeInv, AskedInv, LeadInv, JudgedInv
<1>1. CASE Funnel
  BY <1>1 DEF Funnel
<1>2. CASE Replay
  BY <1>2 DEF Replay
<1>3. CASE TooShort
  BY <1>3 DEF TooShort, NoTrade
<1>4. CASE Analyse
  <2> PICK e \in Evidence, entry_bias \in Biases :
        LET combined == Combine(htf, BiasRead(e.setup), entry_bias)
        IN  IF combined.direction = None
              THEN NoTrade /\ UNCHANGED <<mtf, evidence>>
              ELSE /\ stage' = "analysed" /\ mtf' = combined /\ evidence' = e
                   /\ UNCHANGED verdict
    BY <1>4 DEF Analyse
  <2> DEFINE combined == Combine(htf, BiasRead(e.setup), entry_bias)
  <2>1. UNCHANGED <<htf, asked, crowded, market, risk>> /\ stage = "asked"
    BY <1>4 DEF Analyse
  <2>2. CASE combined.direction = None
    BY <2>1, <2>2 DEF NoTrade
  <2>3. CASE combined.direction # None
    <3>1. /\ combined.direction \in Directions
          /\ htf.bias # "neutral" => combined.direction = DirectionOf(htf.bias)
      BY <2>3, HigherLeads
    <3>2. stage' = "analysed" /\ mtf' = combined /\ verdict' = verdict
      BY <2>3
    <3> HIDE DEF combined
    <3> QED
      BY <2>1, <3>1, <3>2
  <2> QED
    BY <2>2, <2>3
<1>5. CASE ConfirmDirection
  BY <1>5 DEF ConfirmDirection
<1>6. CASE Judge
  <2> PICK m \in Markets, passes \in BOOLEAN :
        \E evaluation \in Evaluations(mtf.direction, m) :
            /\ market' = m /\ risk' = evaluation
            /\ verdict' = IF /\ ~ mtf.counter_htf /\ gate.status # "conflict"
                             /\ passes /\ evaluation.reasons = {}
                           THEN mtf.direction ELSE "NO_TRADE"
    BY <1>6 DEF Judge
  <2> PICK evaluation \in Evaluations(mtf.direction, m) :
            /\ market' = m /\ risk' = evaluation
            /\ verdict' = IF /\ ~ mtf.counter_htf /\ gate.status # "conflict"
                             /\ passes /\ evaluation.reasons = {}
                           THEN mtf.direction ELSE "NO_TRADE"
    OBVIOUS
  <2>1. /\ stage = "confirmed" /\ stage' = "decided"
        /\ UNCHANGED <<htf, asked, crowded, mtf, evidence>>
    BY <1>6 DEF Judge
  <2>2. verdict' \in Directions => verdict' = mtf.direction /\ risk'.reasons = {}
    BY NoDirection
  <2> QED
    BY <2>1, <2>2
<1>7. CASE NextCoin
  BY <1>7 DEF NextCoin
<1>8. CASE UNCHANGED vars
  BY <1>8 DEF vars
<1> QED
  BY <1>1, <1>2, <1>3, <1>4, <1>5, <1>6, <1>7, <1>8 DEF Next

THEOREM TradeCorrect == Spec => []TradeInv
<1>1. Init => TradeInv
  BY InitTrade
<1>2. TradeInv /\ [Next]_vars => TradeInv'
  BY NextTrade
<1> QED
  BY <1>1, <1>2, PTL DEF Spec

-----------------------------------------------------------------------------
(* In every run a coin of the scan is traded only on the side of its 1H     *)
(* bias that the funnel let through, never the overleveraged one            *)
(* (main.py:599, mtf.py:32, decision.py:119).                               *)
THEOREM AllowedCorrect == Spec => []TradeAllowed
<1>1. TradeInv => TradeAllowed
  <2> SUFFICES ASSUME TradeInv, asked # None, verdict \in Directions
               PROVE  /\ verdict = asked /\ verdict # crowded
                      /\ htf.bias = BiasOf(verdict)
    BY DEF TradeAllowed
  <2>1. asked = DirectionOf(htf.bias) /\ asked # crowded
    BY DEF TradeInv, AskedInv
  <2>2. htf.bias \in {"bullish", "bearish"}
    BY <2>1 DEF DirectionOf
  <2>3. verdict = DirectionOf(htf.bias)
    BY <2>2 DEF TradeInv, JudgedInv
  <2> QED
    BY <2>1, <2>2, <2>3 DEF DirectionOf, BiasOf
<1> QED
  BY <1>1, TradeCorrect, PTL

-----------------------------------------------------------------------------
(* Distances between numbers are natural numbers.                           *)
LEMMA DistanceType ==
    ASSUME NEW a \in Int, NEW b \in Int PROVE Distance(a, b) \in Nat
  BY DEF Distance

(* A stop lies beyond the swing it protects, and that beyond the entry.     *)
LEMMA StopBeyondSwing ==
    ASSUME NEW dir \in Directions, NEW m \in Markets, StructureStop(dir, m) # None
    PROVE  /\ StructureStop(dir, m) \in Int
           /\ dir = "LONG" => /\ StructureStop(dir, m) <= m.swing_low
                              /\ m.swing_low < m.entry
           /\ dir = "SHORT" => /\ m.swing_high <= StructureStop(dir, m)
                               /\ m.entry < m.swing_high
<1>1. m.entry \in Int /\ RISK_SL_BUFFER \in Nat
  BY DecisionAssumption DEF Markets
<1>2. m.swing_low \in Int \cup {None} /\ m.swing_high \in Int \cup {None}
  BY DecisionAssumption DEF Markets
<1> QED
  BY <1>1, <1>2 DEF StructureStop, Directions

(* A zone's level, where it has one, is a number on the trade's side of the *)
(* entry.                                                                   *)
LEMMA LevelBeyondEntry ==
    ASSUME NEW dir \in Directions, NEW m \in Markets, NEW z \in Usable(dir, m)
    PROVE  LET level == TargetLevel(dir, m.entry, z)
           IN  /\ m.entry \in Int /\ level \in Int /\ z.lo \in Int /\ z.hi \in Int
               /\ dir = "LONG" => level = z.lo - RISK_TARGET_ZONE_PAD /\ m.entry < level
               /\ dir = "SHORT" => level = z.hi + RISK_TARGET_ZONE_PAD /\ level < m.entry
<1>1. m.entry \in Int /\ RISK_TARGET_ZONE_PAD \in Nat
  BY DecisionAssumption DEF Markets
<1>2. z \in Zones /\ TargetLevel(dir, m.entry, z) # None
  BY DEF Usable, Opposing, Markets
<1>3. z.lo \in Int /\ z.hi \in Int
  BY <1>2, DecisionAssumption
<1> QED
  BY <1>1, <1>2, <1>3 DEF TargetLevel, Directions

(* A target the walk returns is the level of a usable zone.                 *)
LEMMA TargetIsLevel ==
    ASSUME NEW dir, NEW m, NEW tp \in Targets(dir, m), tp # None
    PROVE  \E z \in Usable(dir, m) :
             /\ tp = TargetLevel(dir, m.entry, z)
             /\ Rewarding(dir, m) # {} => z \in FirstOf(dir, Rewarding(dir, m))
  BY DEF Targets, FirstOf, Rewarding

(* An evaluation without an objection has both levels, and each objection   *)
(* is answered.                                                             *)
LEMMA NoObjection ==
    ASSUME NEW dir, NEW m, NEW r \in Evaluations(dir, m), r.reasons = {}
    PROVE  /\ r.sl = StructureStop(dir, m) /\ r.sl # None
           /\ r.tp \in Targets(dir, m) /\ r.tp # None
           /\ ~ Distance(m.entry, r.sl) > RISK_MAX_STOP
           /\ ~ Distance(r.tp, m.entry) < RISK_MIN_TARGET
           /\ ~ PoorRR(m, r.sl, r.tp)
<1>1. ~ m.no_atr
  BY DEF Evaluations
<1>2. PICK tp \in Targets(dir, m) :
        r = [sl |-> StructureStop(dir, m), tp |-> tp,
             reasons |-> RiskReasons(dir, m, StructureStop(dir, m), tp)]
  BY <1>1 DEF Evaluations
<1>3. RiskReasons(dir, m, r.sl, r.tp) = {}
  BY <1>2
<1>4. r.sl = StructureStop(dir, m) /\ r.tp \in Targets(dir, m)
  BY <1>2
<1> QED
  BY <1>3, <1>4 DEF RiskReasons

(* In every run a trade has its stop beyond the swing, its target on the    *)
(* other side of the entry, a stop within the limit and a reward worth the  *)
(* risk (risk_gate.py:33-46, 91-137, 151-174).                              *)
THEOREM GeometryCorrect == Spec => []TradeGeometry
<1>1. TradeInv => TradeGeometry
  <2> SUFFICES ASSUME TradeInv, verdict \in Directions PROVE TradeGeometry
    BY DEF TradeGeometry
  <2>1. market \in Markets /\ risk \in Evaluations(verdict, market) /\ risk.reasons = {}
    BY DEF TradeInv, JudgedInv
  <2>2. /\ risk.sl = StructureStop(verdict, market) /\ risk.sl # None
        /\ risk.tp \in Targets(verdict, market) /\ risk.tp # None
        /\ ~ Distance(market.entry, risk.sl) > RISK_MAX_STOP
        /\ ~ Distance(risk.tp, market.entry) < RISK_MIN_TARGET
        /\ ~ PoorRR(market, risk.sl, risk.tp)
    BY <2>1, NoObjection
  <2>3. PICK z \in Usable(verdict, market) : risk.tp = TargetLevel(verdict, market.entry, z)
    BY <2>2, TargetIsLevel
  <2>4. /\ market.entry \in Int /\ risk.tp \in Int
        /\ verdict = "LONG" => market.entry < risk.tp
        /\ verdict = "SHORT" => risk.tp < market.entry
    BY <2>1, <2>3, LevelBeyondEntry
  <2>5. /\ risk.sl \in Int
        /\ verdict = "LONG" => /\ risk.sl <= market.swing_low
                               /\ market.swing_low < market.entry
        /\ verdict = "SHORT" => /\ market.swing_high <= risk.sl
                                /\ market.entry < market.swing_high
    BY <2>1, <2>2, StopBeyondSwing
  <2>6. /\ Distance(market.entry, risk.sl) \in Nat
        /\ Distance(risk.tp, market.entry) \in Nat
    BY <2>4, <2>5, DistanceType
  <2>7. {RISK_MAX_STOP, RISK_MIN_TARGET, MIN_RR} \subseteq Nat
    BY DecisionAssumption
  <2>8. /\ Distance(market.entry, risk.sl) <= RISK_MAX_STOP
        /\ Distance(risk.tp, market.entry) >= RISK_MIN_TARGET
    BY <2>2, <2>6, <2>7
  <2>9. 100 * Distance(risk.tp, market.entry) >= MIN_RR * Distance(market.entry, risk.sl)
    BY <2>2, <2>6, <2>7 DEF PoorRR
  <2> QED
    BY <2>4, <2>5, <2>8, <2>9 DEF TradeGeometry, Directions
<1> QED
  BY <1>1, TradeCorrect, PTL

(* In every run no opposing zone with enough reward lies nearer the entry   *)
(* than the target of a trade, however the zones overlap                    *)
(* (risk_gate.py:91-137).                                                   *)
THEOREM TargetCorrect == Spec => []TargetNearest
<1>1. TradeInv => TargetNearest
  <2> SUFFICES ASSUME TradeInv, verdict \in Directions,
                      NEW z \in Rewarding(verdict, market)
               PROVE  Distance(risk.tp, market.entry)
                        <= Distance(TargetLevel(verdict, market.entry, z), market.entry)
    BY DEF TargetNearest
  <2>1. market \in Markets /\ risk \in Evaluations(verdict, market) /\ risk.reasons = {}
    BY DEF TradeInv, JudgedInv
  <2>2. risk.tp \in Targets(verdict, market) /\ risk.tp # None
    BY <2>1, NoObjection
  <2>3. PICK y \in Usable(verdict, market) :
          /\ risk.tp = TargetLevel(verdict, market.entry, y)
          /\ y \in FirstOf(verdict, Rewarding(verdict, market))
    BY <2>2, TargetIsLevel
  <2>4. ~ Nearer(verdict, z, y) /\ z \in Usable(verdict, market)
    BY <2>3 DEF FirstOf, Rewarding
  <2>5. RISK_TARGET_ZONE_PAD \in Nat
    BY DecisionAssumption
  <2>6. CASE verdict = "LONG"
    BY <2>1, <2>3, <2>4, <2>5, <2>6, LevelBeyondEntry DEF Nearer, Distance
  <2>7. CASE verdict = "SHORT"
    BY <2>1, <2>3, <2>4, <2>5, <2>7, LevelBeyondEntry DEF Nearer, Distance
  <2> QED
    BY <2>6, <2>7 DEF Directions
<1> QED
  BY <1>1, TradeCorrect, PTL

-----------------------------------------------------------------------------
(* Types.  The reads an action can choose come from the sets the type       *)
(* invariant names; the gates' results have to be computed.                 *)

LEMMA ConfirmType ==
    ASSUME NEW dir, NEW e, NEW reversal
    PROVE  Confirm(dir, e, reversal) \in
             [status : {"confirmed", "weak", "conflict"}, factor : Factors]
<1>1. TapeFactor(dir, e) \in Factors
  BY DEF TapeFactor, Factors
<1>2. ChochFactor(dir, e, reversal) \in Factors /\ HtfFactor(dir, e) \in Factors
  BY DEF ChochFactor, HtfFactor, Factors
<1>3. \A a, b \in Factors : Lesser(a, b) \in Factors
  BY DEF Lesser
<1> QED
  BY <1>1, <1>2, <1>3 DEF Confirm

LEMMA CombineType ==
    ASSUME NEW high, NEW setup_bias, NEW entry_bias,
           Combine(high, setup_bias, entry_bias).direction # None
    PROVE  Combine(high, setup_bias, entry_bias) \in
             [direction : Directions, counter_htf : BOOLEAN, choch_reversal : BOOLEAN]
<1>1. Combine(high, setup_bias, entry_bias).direction \in Directions
  BY HigherLeads
<1> QED
  BY <1>1 DEF Combine

LEMMA EvaluationType ==
    ASSUME NEW dir \in Directions, NEW m \in Markets, NEW r \in Evaluations(dir, m)
    PROVE  r \in [sl : Int \cup {None}, tp : Int \cup {None}, reasons : SUBSET Reasons]
<1>1. CASE m.no_atr
  BY <1>1 DEF Evaluations, Reasons
<1>2. CASE ~ m.no_atr
  <2>1. PICK tp \in Targets(dir, m) :
          r = [sl |-> StructureStop(dir, m), tp |-> tp,
               reasons |-> RiskReasons(dir, m, StructureStop(dir, m), tp)]
    BY <1>2 DEF Evaluations
  <2>2. StructureStop(dir, m) \in Int \cup {None}
    BY StopBeyondSwing
  <2>3. tp \in Int \cup {None}
    BY <2>1, TargetIsLevel, LevelBeyondEntry
  <2>4. RiskReasons(dir, m, StructureStop(dir, m), tp) \subseteq Reasons
    BY DEF RiskReasons, Reasons
  <2> QED
    BY <2>1, <2>2, <2>3, <2>4
<1> QED
  BY <1>1, <1>2

LEMMA NextTypes == TypeOK /\ TradeInv /\ [Next]_vars => TypeOK'
<1> SUFFICES ASSUME TypeOK, TradeInv, [Next]_vars PROVE TypeOK'
  OBVIOUS
<1>1. CASE Funnel
  BY <1>1 DEF TypeOK, Funnel, DirectionOf, Directions
<1>2. CASE Replay
  BY <1>2 DEF TypeOK, Replay
<1>3. CASE TooShort
  BY <1>3 DEF TypeOK, TooShort, NoTrade
<1>4. CASE Analyse
  <2> PICK e \in Evidence, entry_bias \in Biases :
        LET combined == Combine(htf, BiasRead(e.setup), entry_bias)
        IN  IF combined.direction = None
              THEN NoTrade /\ UNCHANGED <<mtf, evidence>>
              ELSE /\ stage' = "analysed" /\ mtf' = combined /\ evidence' = e
                   /\ UNCHANGED verdict
    BY <1>4 DEF Analyse
  <2> DEFINE combined == Combine(htf, BiasRead(e.setup), entry_bias)
  <2>1. UNCHANGED <<htf, asked, crowded, gate, market, risk>>
    BY <1>4 DEF Analyse
  <2>2. CASE combined.direction = None
    BY <2>1, <2>2 DEF TypeOK, NoTrade
  <2>3. CASE combined.direction # None
    <3>1. combined \in [direction : Directions, counter_htf : BOOLEAN,
                        choch_reversal : BOOLEAN]
      BY <2>3, CombineType
    <3>2. /\ stage' = "analysed" /\ mtf' = combined /\ evidence' = e
          /\ verdict' = verdict
      BY <2>3
    <3> HIDE DEF combined
    <3> QED
      BY <2>1, <3>1, <3>2 DEF TypeOK
  <2> QED
    BY <2>2, <2>3
<1>5. CASE ConfirmDirection
  BY <1>5, ConfirmType DEF TypeOK, ConfirmDirection
<1>6. CASE Judge
  <2> PICK m \in Markets, passes \in BOOLEAN :
        \E evaluation \in Evaluations(mtf.direction, m) :
            /\ market' = m /\ risk' = evaluation
            /\ verdict' = IF /\ ~ mtf.counter_htf /\ gate.status # "conflict"
                             /\ passes /\ evaluation.reasons = {}
                           THEN mtf.direction ELSE "NO_TRADE"
    BY <1>6 DEF Judge
  <2>1. /\ stage = "confirmed" /\ stage' = "decided"
        /\ UNCHANGED <<htf, asked, crowded, mtf, evidence, gate>>
    BY <1>6 DEF Judge
  <2>2. mtf.direction \in Directions
    BY <2>1 DEF TradeInv, LeadInv
  <2>3. risk' \in [sl : Int \cup {None}, tp : Int \cup {None},
                   reasons : SUBSET Reasons]
    BY <2>2, EvaluationType
  <2>4. market' \in Markets /\ verdict' \in Directions \cup {"NO_TRADE"}
    BY <2>2
  <2> QED
    BY <2>1, <2>3, <2>4 DEF TypeOK
<1>7. CASE NextCoin
  BY <1>7 DEF TypeOK, NextCoin
<1>8. CASE UNCHANGED vars
  BY <1>8 DEF TypeOK, vars
<1> QED
  BY <1>1, <1>2, <1>3, <1>4, <1>5, <1>6, <1>7, <1>8 DEF Next

(* Every variable keeps its type; the gates speak LONG and SHORT only       *)
(* (decision.py:78-211).                                                    *)
THEOREM DecisionTypes == Spec => []TypeOK
<1>1. Init => TypeOK
  BY DEF Init, TypeOK
<1>2. TypeOK /\ TradeInv /\ [Next]_vars => TypeOK'
  BY NextTypes
<1> QED
  BY <1>1, <1>2, TradeCorrect, PTL DEF Spec

-----------------------------------------------------------------------------
(* What the gate hears when something speaks better for a direction: less   *)
(* against it, no less for it.                                              *)
LEMMA BetterEvidence ==
    ASSUME NEW dir \in Directions, NEW e \in Evidence, NEW f \in Better(dir, e)
    PROVE  /\ MomentumAgainst(dir, f) => MomentumAgainst(dir, e)
           /\ f.setup_pos = TapeAgainst(dir) => e.setup_pos = TapeAgainst(dir)
           /\ f.entry_pos = TapeAgainst(dir) => e.entry_pos = TapeAgainst(dir)
           /\ f.htf_pos = TapeAgainst(dir) => e.htf_pos = TapeAgainst(dir)
           /\ FullConfirmation(dir, e) => FullConfirmation(dir, f)
           /\ AnyConfirmation(dir, e) => AnyConfirmation(dir, f)
           /\ Sweep(dir, e) => Sweep(dir, f)
           /\ ConfirmedAfter(dir, e) => ConfirmedAfter(dir, f)
<1>3. /\ f.momentum \in {e.momentum, "mixed"} /\ f.htf_pos \in {e.htf_pos, "mixed"}
      /\ \/ f.setup_pos = e.setup_pos
         \/ f.setup_pos = "mixed" /\ e.setup_pos = TapeAgainst(dir)
      /\ \/ f.entry_pos = e.entry_pos
         \/ f.entry_pos = "mixed" /\ e.entry_pos = TapeAgainst(dir)
      /\ e.long_ready => f.long_ready
      /\ e.short_ready => f.short_ready
      /\ f.setup.bos = e.setup.bos /\ f.setup.choch = e.setup.choch
      /\ f.setup.retest = e.setup.retest
      /\ f.setup.displacement \in {e.setup.displacement, BiasOf(dir)}
  <2>1. CASE f = [e EXCEPT !.momentum = "mixed"]
    BY <2>1 DEF Evidence
  <2>2. CASE f = [e EXCEPT !.htf_pos = "mixed"]
    BY <2>2 DEF Evidence
  <2>3. CASE f = [e EXCEPT !.setup_pos = IF @ = TapeAgainst(dir) THEN "mixed" ELSE @]
    BY <2>3 DEF Evidence
  <2>4. CASE f = [e EXCEPT !.entry_pos = IF @ = TapeAgainst(dir) THEN "mixed" ELSE @]
    BY <2>4 DEF Evidence
  <2>5. CASE f = [e EXCEPT !.long_ready = @ \/ dir = "LONG",
                           !.short_ready = @ \/ dir = "SHORT"]
    BY <2>5 DEF Evidence
  <2>6. CASE f = [e EXCEPT !.setup.displacement = BiasOf(dir)]
    BY <2>6 DEF Evidence, Reads
  <2> QED
    BY <2>1, <2>2, <2>3, <2>4, <2>5, <2>6 DEF Better
<1>4. TapeAgainst(dir) # "mixed" /\ TapeFor(dir) # TapeAgainst(dir)
  BY DEF TapeAgainst, TapeFor
<1>5. /\ FullConfirmation(dir, e) => FullConfirmation(dir, f)
      /\ Sweep(dir, e) => Sweep(dir, f)
  BY <1>3 DEF FullConfirmation, Shown, Sweep
<1>6. AnyConfirmation(dir, e) => AnyConfirmation(dir, f)
  BY <1>3, <1>5 DEF AnyConfirmation, Shown
<1>7. ConfirmedAfter(dir, e) => ConfirmedAfter(dir, f)
  BY <1>3, <1>4, <1>5 DEF ConfirmedAfter, Shown
<1> QED
  BY <1>3, <1>4, <1>5, <1>6, <1>7 DEF MomentumAgainst

(* Each of the three parts of the factor grows with the evidence.           *)
LEMMA BetterFactor ==
    ASSUME NEW dir \in Directions, NEW e \in Evidence, NEW f \in Better(dir, e),
           NEW reversal
    PROVE  /\ TapeFactor(dir, e) <= TapeFactor(dir, f)
           /\ ChochFactor(dir, e, reversal) <= ChochFactor(dir, f, reversal)
           /\ HtfFactor(dir, e) <= HtfFactor(dir, f)
           /\ Conflict(dir, f) => Conflict(dir, e)
<1>1. /\ DIR_CONFLICT_FACTOR \in 0..100 /\ DIR_CONFLICT_LATE_FACTOR \in 0..100
      /\ DIR_POSITIONING_CONFLICT_FACTOR \in 0..100
      /\ DIR_MOMENTUM_CONFLICT_FACTOR \in 0..100
      /\ DIR_MOMENTUM_CONFLICT_CONFIRMED_FACTOR \in 0..100
      /\ DIR_UNCONFIRMED_CHOCH_FACTOR \in 0..100
  BY DecisionAssumption DEF Factors
<1>2. FullConfirmation(dir, e) => AnyConfirmation(dir, e)
  BY DEF FullConfirmation, AnyConfirmation
<1>3. Sweep(dir, e) => AnyConfirmation(dir, e)
  BY DEF AnyConfirmation
<1>4. /\ ContraBoth(dir, f) => ContraBoth(dir, e)
      /\ ContraOne(dir, f) => ContraOne(dir, e) \/ ContraBoth(dir, e)
  BY BetterEvidence DEF ContraBoth, ContraOne
<1>5. Conflict(dir, f) => Conflict(dir, e)
  BY <1>4, BetterEvidence DEF Conflict
<1>6. TapeFactor(dir, e) <= TapeFactor(dir, f)
  <2>1. ~ (ContraBoth(dir, f) /\ ContraOne(dir, f))
    BY DEF ContraBoth, ContraOne
  <2> QED
    BY <1>1, <1>2, <1>3, <1>4, <1>5, <2>1, BetterEvidence, FactorAssumption
    DEF TapeFactor, Conflict
<1>7. ChochFactor(dir, e, reversal) <= ChochFactor(dir, f, reversal)
  BY <1>1, BetterEvidence DEF ChochFactor
<1>8. HtfFactor(dir, e) <= HtfFactor(dir, f)
  BY <1>1, BetterEvidence, FactorAssumption DEF HtfFactor
<1> QED
  BY <1>5, <1>6, <1>7, <1>8

(* A confirmation that arrives or a contradiction that goes never lowers    *)
(* the factor of a direction nor makes it a conflict, in whatever order the *)
(* branches are tried (direction_gate.py:93-155).                           *)
THEOREM EvidenceCorrect == Spec => []EvidenceHelps
<1>1. TypeOK /\ TradeInv => EvidenceHelps
  <2> SUFFICES ASSUME TypeOK, evidence # None, mtf.direction \in Directions,
                      NEW e \in Better(mtf.direction, evidence)
               PROVE  LET now == Confirm(mtf.direction, evidence, mtf.choch_reversal)
                          then == Confirm(mtf.direction, e, mtf.choch_reversal)
                      IN  /\ then.factor >= now.factor
                          /\ then.status = "conflict" => now.status = "conflict"
    BY DEF EvidenceHelps, TradeInv, LeadInv
  <2> DEFINE dir == mtf.direction
             reversal == mtf.choch_reversal
  <2>1. evidence \in Evidence
    BY DEF TypeOK
  <2>2. /\ TapeFactor(dir, evidence) <= TapeFactor(dir, e)
        /\ ChochFactor(dir, evidence, reversal) <= ChochFactor(dir, e, reversal)
        /\ HtfFactor(dir, evidence) <= HtfFactor(dir, e)
        /\ Conflict(dir, e) => Conflict(dir, evidence)
    BY <2>1, BetterFactor
  <2>3. \A x \in Evidence \cup {e} :
          /\ TapeFactor(dir, x) \in Int
          /\ ChochFactor(dir, x, reversal) \in Int /\ HtfFactor(dir, x) \in Int
    BY DecisionAssumption DEF TapeFactor, ChochFactor, HtfFactor, Factors
  <2>4. Confirm(dir, e, reversal).factor >= Confirm(dir, evidence, reversal).factor
    BY <2>1, <2>2, <2>3 DEF Confirm, Lesser
  <2>5. \A x : Confirm(dir, x, reversal).status = "conflict" <=> Conflict(dir, x)
    BY DEF Confirm
  <2> QED
    BY <2>2, <2>4, <2>5
<1> QED
  BY <1>1, TradeCorrect, DecisionTypes, PTL

-----------------------------------------------------------------------------
(* The chart upside down, for the direction gate.                           *)

LEMMA OtherSideType ==
    ASSUME NEW dir \in Directions
    PROVE  /\ OtherSide(dir) \in Directions
           /\ OtherSide(dir) = "LONG" <=> dir = "SHORT"
           /\ OtherSide(OtherSide(dir)) = dir
  BY DEF OtherSide, Directions

(* A word speaks for the other direction once it is turned.                 *)
LEMMA TurnedWords ==
    ASSUME NEW dir \in Directions
    PROVE  /\ \A x \in Breaks :
                 Turned(x) = BiasOf(OtherSide(dir)) <=> x = BiasOf(dir)
           /\ \A t \in Tapes :
                 /\ Turned(t) = TapeFor(OtherSide(dir)) <=> t = TapeFor(dir)
                 /\ Turned(t) = TapeAgainst(OtherSide(dir)) <=> t = TapeAgainst(dir)
<1>1. /\ Turned("bullish") = "bearish" /\ Turned("bearish") = "bullish"
      /\ Turned(None) = None
      /\ Turned("bull") = "bear" /\ Turned("bear") = "bull"
      /\ Turned("mixed") = "mixed"
  BY DecisionAssumption DEF Turned
<1>2. CASE dir = "LONG"
  BY <1>1, <1>2, DecisionAssumption
  DEF Breaks, Tapes, BiasOf, TapeFor, TapeAgainst, OtherSide
<1>3. CASE dir = "SHORT"
  BY <1>1, <1>3, DecisionAssumption
  DEF Breaks, Tapes, BiasOf, TapeFor, TapeAgainst, OtherSide
<1> QED
  BY <1>2, <1>3 DEF Directions

LEMMA TurnedFields ==
    ASSUME NEW e \in Evidence
    PROVE  LET f == TurnedEvidence(e)
           IN  /\ f.setup.bos = Turned(e.setup.bos)
               /\ f.setup.choch = Turned(e.setup.choch)
               /\ f.setup.displacement = Turned(e.setup.displacement)
               /\ f.setup.retest = Turned(e.setup.retest)
               /\ f.long_ready = e.short_ready /\ f.short_ready = e.long_ready
               /\ f.setup_pos = Turned(e.setup_pos)
               /\ f.entry_pos = Turned(e.entry_pos)
               /\ f.htf_pos = Turned(e.htf_pos)
               /\ f.momentum = Turned(e.momentum)
<1>1. e.setup \in [trend : {"uptrend", "downtrend", "range"}, bos : Breaks,
                   choch : Breaks, displacement : Breaks, retest : Breaks]
  BY DEF Evidence, Reads
<1>2. /\ "bos" \in DOMAIN e.setup /\ "choch" \in DOMAIN e.setup
      /\ "displacement" \in DOMAIN e.setup /\ "retest" \in DOMAIN e.setup
  BY <1>1
<1> QED
  BY <1>2 DEF TurnedEvidence

(* What confirms or contradicts a direction does so for the other one.      *)
LEMMA TurnedGate ==
    ASSUME NEW dir \in Directions, NEW e \in Evidence,
           NEW d, d = OtherSide(dir), NEW f, f = TurnedEvidence(e)
    PROVE  /\ FullConfirmation(d, f) <=> FullConfirmation(dir, e)
           /\ AnyConfirmation(d, f) <=> AnyConfirmation(dir, e)
           /\ Sweep(d, f) <=> Sweep(dir, e)
           /\ ContraBoth(d, f) <=> ContraBoth(dir, e)
           /\ ContraOne(d, f) <=> ContraOne(dir, e)
           /\ MomentumAgainst(d, f) <=> MomentumAgainst(dir, e)
           /\ ConfirmedAfter(d, f) <=> ConfirmedAfter(dir, e)
           /\ f.htf_pos = TapeAgainst(d) <=> e.htf_pos = TapeAgainst(dir)
<1>1. /\ e.setup.bos \in Breaks /\ e.setup.choch \in Breaks
      /\ e.setup.displacement \in Breaks /\ e.setup.retest \in Breaks
      /\ e.setup_pos \in Tapes /\ e.entry_pos \in Tapes
      /\ e.htf_pos \in Tapes /\ e.momentum \in Tapes
  BY DEF Evidence, Reads
<1>2. /\ Shown(f.setup.bos, d) <=> Shown(e.setup.bos, dir)
      /\ Shown(f.setup.choch, d) <=> Shown(e.setup.choch, dir)
      /\ Shown(f.setup.displacement, d) <=> Shown(e.setup.displacement, dir)
      /\ Shown(f.setup.retest, d) <=> Shown(e.setup.retest, dir)
  BY <1>1, TurnedWords, TurnedFields DEF Shown
<1>3. /\ f.setup_pos = TapeAgainst(d) <=> e.setup_pos = TapeAgainst(dir)
      /\ f.entry_pos = TapeAgainst(d) <=> e.entry_pos = TapeAgainst(dir)
      /\ f.htf_pos = TapeAgainst(d) <=> e.htf_pos = TapeAgainst(dir)
      /\ f.momentum = TapeAgainst(d) <=> e.momentum = TapeAgainst(dir)
      /\ f.setup_pos = TapeFor(d) <=> e.setup_pos = TapeFor(dir)
      /\ f.entry_pos = TapeFor(d) <=> e.entry_pos = TapeFor(dir)
  BY <1>1, TurnedWords, TurnedFields
<1>4. Sweep(d, f) <=> Sweep(dir, e)
  BY TurnedFields DEF Sweep, OtherSide, Directions
<1> HIDE DEF Shown
<1> QED
  BY <1>2, <1>3, <1>4
  DEF FullConfirmation, AnyConfirmation, ContraBoth, ContraOne,
      MomentumAgainst, ConfirmedAfter

LEMMA TurnedConfirm ==
    ASSUME NEW dir \in Directions, NEW e \in Evidence, NEW reversal
    PROVE  Confirm(dir, e, reversal)
             = Confirm(OtherSide(dir), TurnedEvidence(e), reversal)
<1> DEFINE d == OtherSide(dir)
           f == TurnedEvidence(e)
<1>1. /\ FullConfirmation(d, f) <=> FullConfirmation(dir, e)
      /\ AnyConfirmation(d, f) <=> AnyConfirmation(dir, e)
      /\ Sweep(d, f) <=> Sweep(dir, e)
      /\ ContraBoth(d, f) <=> ContraBoth(dir, e)
      /\ ContraOne(d, f) <=> ContraOne(dir, e)
      /\ MomentumAgainst(d, f) <=> MomentumAgainst(dir, e)
      /\ ConfirmedAfter(d, f) <=> ConfirmedAfter(dir, e)
      /\ f.htf_pos = TapeAgainst(d) <=> e.htf_pos = TapeAgainst(dir)
  BY TurnedGate
<1> HIDE DEF d, f
<1>2. Conflict(d, f) <=> Conflict(dir, e)
  BY <1>1 DEF Conflict
<1>3. TapeFactor(d, f) = TapeFactor(dir, e)
  BY <1>1, <1>2 DEF TapeFactor
<1>4. ChochFactor(d, f, reversal) = ChochFactor(dir, e, reversal)
  BY <1>1 DEF ChochFactor
<1>5. HtfFactor(d, f) = HtfFactor(dir, e)
  BY <1>1 DEF HtfFactor
<1>6. Confirm(d, f, reversal) = Confirm(dir, e, reversal)
  BY <1>2, <1>3, <1>4, <1>5 DEF Confirm
<1> QED
  BY <1>6 DEF d, f

-----------------------------------------------------------------------------
(* The chart upside down, for the risk gate.                                *)

TurnedZone(z) == [lo |-> - z.hi, hi |-> - z.lo, side |-> Turned(z.side)]

(* The image of a set of zones.                                             *)
TurnedZones(S) == {TurnedZone(z) : z \in S}

(* A turned distance is the same, and None stays None.                      *)
LEMMA NegatedFacts ==
    /\ Negated(None) = None
    /\ \A a \in Int : Negated(a) = - a /\ Negated(a) \in Int /\ - a # None
    /\ \A a \in Int \cup {None} : Negated(a) = None <=> a = None
    /\ \A a, b \in Int : Distance(- a, - b) = Distance(a, b)
  BY DecisionAssumption DEF Negated, Distance

LEMMA ZoneFacts ==
    ASSUME NEW z \in Zones
    PROVE  /\ z.lo \in Int /\ z.hi \in Int
           /\ TurnedZone(z).lo = - z.hi /\ TurnedZone(z).hi = - z.lo
           /\ \A dir \in Directions :
                 TurnedZone(z).side = OpposingSide(OtherSide(dir))
                   <=> z.side = OpposingSide(dir)
<1>1. z \in [lo : Int, hi : Int, side : {"support", "resistance"}]
  BY DecisionAssumption
<1>2. /\ Turned("support") = "resistance" /\ Turned("resistance") = "support"
  BY DEF Turned
<1> QED
  BY <1>1, <1>2 DEF TurnedZone, OpposingSide, OtherSide, Directions

LEMMA TurnedLevel ==
    ASSUME NEW dir \in Directions, NEW entry \in Int, NEW z \in Zones
    PROVE  /\ TargetLevel(OtherSide(dir), - entry, TurnedZone(z))
                = Negated(TargetLevel(dir, entry, z))
           /\ TargetLevel(dir, entry, z) \in Int \cup {None}
<1>1. RISK_TARGET_ZONE_PAD \in Nat /\ None \notin Int
  BY DecisionAssumption
<1>2. CASE dir = "LONG"
  BY <1>1, <1>2, ZoneFacts DEF TargetLevel, Negated, OtherSide
<1>3. CASE dir = "SHORT"
  BY <1>1, <1>3, ZoneFacts DEF TargetLevel, Negated, OtherSide
<1> QED
  BY <1>2, <1>3 DEF Directions

LEMMA TurnedNearer ==
    ASSUME NEW dir \in Directions, NEW y \in Zones, NEW z \in Zones
    PROVE  Nearer(OtherSide(dir), TurnedZone(y), TurnedZone(z)) <=> Nearer(dir, y, z)
  BY ZoneFacts DEF Nearer, OtherSide, Directions

LEMMA MarketFacts ==
    ASSUME NEW m \in Markets
    PROVE  /\ m.entry \in Int
           /\ m.swing_low \in Int \cup {None} /\ m.swing_high \in Int \cup {None}
           /\ m.zones \subseteq Zones
           /\ m.at_zone \in {"support", "resistance", None}
           /\ TurnedMarket(m).entry = - m.entry
           /\ TurnedMarket(m).swing_low = Negated(m.swing_high)
           /\ TurnedMarket(m).swing_high = Negated(m.swing_low)
           /\ TurnedMarket(m).zones = TurnedZones(m.zones)
           /\ TurnedMarket(m).at_zone = Turned(m.at_zone)
           /\ TurnedMarket(m).no_atr = m.no_atr
<1>1. /\ m.entry \in Entries
      /\ m.swing_low \in Swings \cup {None} /\ m.swing_high \in Swings \cup {None}
      /\ m.zones \in SUBSET Zones
      /\ m.at_zone \in {"support", "resistance", None}
  BY DEF Markets
<1> QED
  BY <1>1, DecisionAssumption DEF TurnedMarket, TurnedZones, TurnedZone

LEMMA TurnedStop ==
    ASSUME NEW dir \in Directions, NEW m \in Markets
    PROVE  /\ StructureStop(OtherSide(dir), TurnedMarket(m))
                = Negated(StructureStop(dir, m))
           /\ StructureStop(dir, m) \in Int \cup {None}
<1>1. RISK_SL_BUFFER \in Nat /\ None \notin Int
  BY DecisionAssumption
<1>2. CASE dir = "LONG"
  BY <1>1, <1>2, MarketFacts DEF StructureStop, Negated, OtherSide
<1>3. CASE dir = "SHORT"
  BY <1>1, <1>3, MarketFacts DEF StructureStop, Negated, OtherSide
<1> QED
  BY <1>2, <1>3 DEF Directions

(* The zones in the way, the usable ones, those that offer enough and the   *)
(* first of them, turned.                                                   *)
LEMMA TurnedChoice ==
    ASSUME NEW dir \in Directions, NEW m \in Markets,
           NEW d, d = OtherSide(dir), NEW n, n = TurnedMarket(m)
    PROVE  /\ Usable(d, n) = TurnedZones(Usable(dir, m))
           /\ Rewarding(d, n) = TurnedZones(Rewarding(dir, m))
           /\ \A S \in SUBSET Zones :
                 FirstOf(d, TurnedZones(S)) = TurnedZones(FirstOf(dir, S))
           /\ Usable(dir, m) \subseteq Zones /\ Rewarding(dir, m) \subseteq Zones
<1>1. m.zones \subseteq Zones /\ m.entry \in Int /\ n.entry = - m.entry
      /\ n.zones = TurnedZones(m.zones)
  BY MarketFacts
<1>2. Opposing(d, n) = TurnedZones(Opposing(dir, m))
  <2>1. \A z \in m.zones :
           TurnedZone(z).side = OpposingSide(d) <=> z.side = OpposingSide(dir)
    BY <1>1, ZoneFacts
  <2> QED
    BY <1>1, <2>1 DEF Opposing, TurnedZones
<1>3. Opposing(dir, m) \subseteq Zones
  BY <1>1 DEF Opposing
<1>4. \A z \in Zones :
         /\ TargetLevel(d, n.entry, TurnedZone(z)) = Negated(TargetLevel(dir, m.entry, z))
         /\ TargetLevel(dir, m.entry, z) \in Int \cup {None}
  BY <1>1, TurnedLevel
<1>5. Usable(d, n) = TurnedZones(Usable(dir, m))
  <2>1. \A z \in Opposing(dir, m) :
           TargetLevel(d, n.entry, TurnedZone(z)) # None
             <=> TargetLevel(dir, m.entry, z) # None
    BY <1>3, <1>4, NegatedFacts
  <2> QED
    BY <1>2, <2>1 DEF Usable, TurnedZones
<1>6. Usable(dir, m) \subseteq Zones /\ Rewarding(dir, m) \subseteq Zones
  BY <1>3 DEF Usable, Rewarding
<1>7. Rewarding(d, n) = TurnedZones(Rewarding(dir, m))
  <2>1. ASSUME NEW z \in Usable(dir, m)
        PROVE  Distance(TargetLevel(d, n.entry, TurnedZone(z)), n.entry)
                 = Distance(TargetLevel(dir, m.entry, z), m.entry)
    <3>1. TargetLevel(dir, m.entry, z) \in Int
      BY <1>4, <1>6 DEF Usable
    <3>2. TargetLevel(d, n.entry, TurnedZone(z)) = - TargetLevel(dir, m.entry, z)
      BY <1>4, <1>6, <3>1, NegatedFacts
    <3> QED
      BY <1>1, <3>1, <3>2, NegatedFacts
  <2> QED
    BY <1>5, <2>1 DEF Rewarding, TurnedZones
<1>8. ASSUME NEW S \in SUBSET Zones
      PROVE  FirstOf(d, TurnedZones(S)) = TurnedZones(FirstOf(dir, S))
  <2>1. \A y, z \in S : Nearer(d, TurnedZone(y), TurnedZone(z)) <=> Nearer(dir, y, z)
    BY TurnedNearer
  <2> QED
    BY <2>1 DEF FirstOf, TurnedZones
<1> QED
  BY <1>5, <1>6, <1>7, <1>8

LEMMA TurnedTargets ==
    ASSUME NEW dir \in Directions, NEW m \in Markets
    PROVE  /\ Targets(OtherSide(dir), TurnedMarket(m))
                = {Negated(tp) : tp \in Targets(dir, m)}
           /\ Targets(dir, m) \subseteq Int \cup {None}
<1> DEFINE d == OtherSide(dir)
           n == TurnedMarket(m)
           S == IF Rewarding(dir, m) # {} THEN Rewarding(dir, m) ELSE Usable(dir, m)
           T == IF Rewarding(d, n) # {} THEN Rewarding(d, n) ELSE Usable(d, n)
<1>1. /\ Usable(d, n) = TurnedZones(Usable(dir, m))
      /\ Rewarding(d, n) = TurnedZones(Rewarding(dir, m))
      /\ \A X \in SUBSET Zones :
            FirstOf(d, TurnedZones(X)) = TurnedZones(FirstOf(dir, X))
      /\ Usable(dir, m) \subseteq Zones /\ Rewarding(dir, m) \subseteq Zones
  BY TurnedChoice
<1>2. \A X : TurnedZones(X) = {} <=> X = {}
  BY DEF TurnedZones
<1>3. m.entry \in Int /\ n.entry = - m.entry
  BY MarketFacts
<1>4. \A z \in Zones :
         /\ TargetLevel(d, n.entry, TurnedZone(z)) = Negated(TargetLevel(dir, m.entry, z))
         /\ TargetLevel(dir, m.entry, z) \in Int \cup {None}
  BY <1>3, TurnedLevel
<1> HIDE DEF d, n
<1>5. CASE Usable(dir, m) = {}
  <2>1. Usable(d, n) = {}
    BY <1>1, <1>2, <1>5
  <2>2. Targets(d, n) = {None} /\ Targets(dir, m) = {None}
    BY <1>5, <2>1 DEF Targets
  <2> QED
    BY <2>2, NegatedFacts DEF d, n
<1>6. CASE Usable(dir, m) # {}
  <2>1. Usable(d, n) # {}
    BY <1>1, <1>2, <1>6
  <2>2. T = TurnedZones(S) /\ S \in SUBSET Zones
    BY <1>1, <1>2
  <2>3. /\ Targets(dir, m) = {TargetLevel(dir, m.entry, z) : z \in FirstOf(dir, S)}
        /\ Targets(d, n) = {TargetLevel(d, n.entry, z) : z \in FirstOf(d, T)}
    BY <1>6, <2>1 DEF Targets
  <2> HIDE DEF S, T
  <2>4. FirstOf(d, T) = TurnedZones(FirstOf(dir, S))
    BY <1>1, <2>2
  <2>5. FirstOf(dir, S) \subseteq Zones
    BY <2>2 DEF FirstOf
  <2>6. Targets(d, n) = {Negated(tp) : tp \in Targets(dir, m)}
    BY <1>4, <2>3, <2>4, <2>5 DEF TurnedZones
  <2>7. Targets(dir, m) \subseteq Int \cup {None}
    BY <1>4, <2>3, <2>5
  <2> QED
    BY <2>6, <2>7 DEF d, n
<1> QED
  BY <1>5, <1>6

(* The objections to two levels are those to the turned ones.               *)
LEMMA TurnedReasons ==
    ASSUME NEW dir \in Directions, NEW m \in Markets,
           NEW sl \in Int \cup {None}, NEW tp \in Int \cup {None}
    PROVE  RiskReasons(OtherSide(dir), TurnedMarket(m), Negated(sl), Negated(tp))
             = RiskReasons(dir, m, sl, tp)
<1> DEFINE d == OtherSide(dir)
           n == TurnedMarket(m)
           nsl == Negated(sl)
           ntp == Negated(tp)
<1>1. m.entry \in Int /\ n.entry = - m.entry
  BY MarketFacts
<1>2. (nsl = None <=> sl = None) /\ (ntp = None <=> tp = None)
  BY NegatedFacts
<1>3. /\ sl # None => Distance(n.entry, nsl) = Distance(m.entry, sl)
      /\ tp # None => Distance(ntp, n.entry) = Distance(tp, m.entry)
  BY <1>1, NegatedFacts
<1>4. n.at_zone = OpposingSide(d) <=> m.at_zone = OpposingSide(dir)
  <2>1. /\ Turned("support") = "resistance" /\ Turned("resistance") = "support"
        /\ Turned(None) = None
    BY DecisionAssumption DEF Turned
  <2>2. m.at_zone \in {"support", "resistance", None} /\ n.at_zone = Turned(m.at_zone)
    BY MarketFacts
  <2>3. None \notin {"support", "resistance"}
    BY DecisionAssumption
  <2> QED
    BY <2>1, <2>2, <2>3 DEF OpposingSide, OtherSide, Directions
<1> HIDE DEF d, n, nsl, ntp
<1>5. PoorRR(n, nsl, ntp) <=> PoorRR(m, sl, tp)
  BY <1>2, <1>3 DEF PoorRR
<1>6. RiskReasons(d, n, nsl, ntp) = RiskReasons(dir, m, sl, tp)
  BY <1>2, <1>3, <1>4, <1>5 DEF RiskReasons
<1> QED
  BY <1>6 DEF d, n, nsl, ntp

LEMMA TurnedRecord ==
    ASSUME NEW sl, NEW tp, NEW reasons
    PROVE  TurnedRisk([sl |-> sl, tp |-> tp, reasons |-> reasons])
             = [sl |-> Negated(sl), tp |-> Negated(tp), reasons |-> reasons]
<1> DEFINE r == [sl |-> sl, tp |-> tp, reasons |-> reasons]
<1>1. r.sl = sl /\ r.tp = tp /\ r.reasons = reasons /\ DOMAIN r = {"sl", "tp", "reasons"}
  OBVIOUS
<1>2. r = [k \in {"sl", "tp", "reasons"} |-> r[k]]
  OBVIOUS
<1> HIDE DEF r
<1>3. TurnedRisk(r) = [k \in {"sl", "tp", "reasons"} |->
                         IF k = "tp" THEN Negated(tp)
                         ELSE IF k = "sl" THEN Negated(sl) ELSE reasons]
  BY <1>1, <1>2 DEF TurnedRisk
<1>4. @ = [sl |-> Negated(sl), tp |-> Negated(tp), reasons |-> reasons]
  OBVIOUS
<1> QED
  BY <1>3, <1>4 DEF r

LEMMA TurnedEvaluations ==
    ASSUME NEW dir \in Directions, NEW m \in Markets
    PROVE  Evaluations(OtherSide(dir), TurnedMarket(m))
             = {TurnedRisk(r) : r \in Evaluations(dir, m)}
<1> DEFINE d == OtherSide(dir)
           n == TurnedMarket(m)
           sl == StructureStop(dir, m)
           R(tp) == [sl |-> sl, tp |-> tp, reasons |-> RiskReasons(dir, m, sl, tp)]
<1>1. n.no_atr = m.no_atr
  BY MarketFacts
<1>2. CASE m.no_atr
  <2>1. Evaluations(d, n) = {[sl |-> None, tp |-> None, reasons |-> {"no_atr"}]}
    BY <1>1, <1>2 DEF Evaluations
  <2>2. Evaluations(dir, m) = {[sl |-> None, tp |-> None, reasons |-> {"no_atr"}]}
    BY <1>2 DEF Evaluations
  <2>3. TurnedRisk([sl |-> None, tp |-> None, reasons |-> {"no_atr"}])
          = [sl |-> None, tp |-> None, reasons |-> {"no_atr"}]
    BY NegatedFacts, TurnedRecord
  <2> QED
    BY <2>1, <2>2, <2>3
<1>3. CASE ~ m.no_atr
  <2>1. StructureStop(d, n) = Negated(sl) /\ sl \in Int \cup {None}
    BY TurnedStop
  <2>2. /\ Targets(d, n) = {Negated(tp) : tp \in Targets(dir, m)}
        /\ Targets(dir, m) \subseteq Int \cup {None}
    BY TurnedTargets
  <2>3. Evaluations(d, n) =
          {[sl |-> Negated(sl), tp |-> tp,
            reasons |-> RiskReasons(d, n, Negated(sl), tp)] : tp \in Targets(d, n)}
    BY <1>1, <1>3, <2>1 DEF Evaluations
  <2>4. Evaluations(dir, m) = {R(tp) : tp \in Targets(dir, m)}
    BY <1>3 DEF Evaluations
  <2>5. ASSUME NEW tp \in Targets(dir, m)
        PROVE  TurnedRisk(R(tp)) =
                 [sl |-> Negated(sl), tp |-> Negated(tp),
                  reasons |-> RiskReasons(d, n, Negated(sl), Negated(tp))]
    <3>1. RiskReasons(d, n, Negated(sl), Negated(tp)) = RiskReasons(dir, m, sl, tp)
      BY <2>1, <2>2, TurnedReasons
    <3> HIDE DEF d, n, sl
    <3> QED
      BY <3>1, TurnedRecord
  <2> HIDE DEF d, n, sl, R
  <2>6. Evaluations(d, n) = {TurnedRisk(R(tp)) : tp \in Targets(dir, m)}
    BY <2>2, <2>3, <2>5
  <2>7. {TurnedRisk(R(tp)) : tp \in Targets(dir, m)}
          = {TurnedRisk(r) : r \in Evaluations(dir, m)}
    BY <2>4
  <2> QED
    BY <2>6, <2>7 DEF d, n
<1> QED
  BY <1>2, <1>3

(* What the risk gate was given is judged for a direction.                  *)
MarketInv == market # None => stage = "decided" /\ mtf.direction \in Directions

LEMMA MarketStep == TradeInv /\ MarketInv /\ [Next]_vars => MarketInv'
<1> SUFFICES ASSUME TradeInv, MarketInv, [Next]_vars PROVE MarketInv'
  OBVIOUS
<1>1. CASE Judge
  <2>1. stage' = "decided" /\ mtf' = mtf /\ mtf.direction \in Directions
    BY <1>1 DEF Judge, TradeInv, LeadInv
  <2> QED
    BY <2>1 DEF MarketInv
<1>2. CASE Funnel \/ Replay \/ TooShort \/ Analyse \/ ConfirmDirection
  <2>1. market' = market /\ stage # "decided"
    BY <1>2 DEF Funnel, Replay, TooShort, Analyse, ConfirmDirection
  <2> QED
    BY <2>1 DEF MarketInv
<1>3. CASE NextCoin
  BY <1>3 DEF NextCoin, MarketInv
<1>4. CASE UNCHANGED vars
  BY <1>4 DEF vars, MarketInv
<1> QED
  BY <1>1, <1>2, <1>3, <1>4 DEF Next

(* In every run the direction gate and the risk gate treat long and short   *)
(* alike: the chart turned upside down gets the other direction the same    *)
(* status and factor, the mirrored levels and the same objections           *)
(* (direction_gate.py:67-84, risk_gate.py:36-46, 57-64, 78-88).             *)
THEOREM MirrorCorrect == Spec => []Mirrored
<1>1. TypeOK /\ TradeInv /\ MarketInv => Mirrored
  <2> SUFFICES ASSUME TypeOK, TradeInv, MarketInv PROVE Mirrored
    OBVIOUS
  <2>1. ASSUME evidence # None
        PROVE  Confirm(mtf.direction, evidence, mtf.choch_reversal)
                 = Confirm(OtherSide(mtf.direction), TurnedEvidence(evidence),
                           mtf.choch_reversal)
    <3>1. evidence \in Evidence /\ mtf.direction \in Directions
      BY <2>1 DEF TypeOK, TradeInv, LeadInv
    <3> QED
      BY <3>1, TurnedConfirm
  <2>2. ASSUME market # None
        PROVE  Evaluations(OtherSide(mtf.direction), TurnedMarket(market))
                 = {TurnedRisk(r) : r \in Evaluations(mtf.direction, market)}
    <3>1. market \in Markets /\ mtf.direction \in Directions
      BY <2>2 DEF TypeOK, MarketInv
    <3> QED
      BY <3>1, TurnedEvaluations
  <2> QED
    BY <2>1, <2>2 DEF Mirrored
<1>2. Init => MarketInv
  BY DEF Init, MarketInv
<1> QED
  BY <1>1, <1>2, MarketStep, TradeCorrect, DecisionTypes, PTL DEF Spec
=============================================================================
