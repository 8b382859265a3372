SPECIFICATION Spec
CONSTANTS
    None = None
    Kinds <- SomeCandles
    Markets <- SomeMarkets
    Openings <- SomeOpenings
    Axis = 40
    MaxCandles = 8
    \* Candles and MarketStructure
    STRUCT_LOOKBACK = 7
    STRUCT_ATR_LENGTH = 3
    STRUCT_PIVOT_LEFT = 1
    STRUCT_PIVOT_RIGHT = 1
    STRUCT_MIN_SWINGS = 2
    STRUCT_TREND_SWINGS = 2
    STRUCT_DISPLACEMENT_ATR = 60
    STRUCT_RANGE_ATR = 100
    STRUCT_RETEST_ATR = 50
    \* Detectors
    SWEEP_WINDOW = 2
    SWEEP_SEARCH_CANDLES = 3
    SWEEP_WICK_BODY_RATIO = 150
    SWEEP_VOL_RATIO = 120
    LIQ_RECLAIM_CANDLES = 2
    LIQ_CONFIRM_CLOSE_ATR = 0
    LIQ_EQUAL_TOL_ATR = 15
    LIQ_MIN_EQUAL = 2
    PA_REJECTION_WICK_RATIO = 200
    PA_ENGULF_MIN_RATIO = 100
    PA_DISPLACEMENT_ATR = 60
    PA_VOLUME_STRONG = 150
    PA_VOLUME_WEAK = 80
    PA_BREAKOUT_LOOKBACK = 2
    \* Levels
    SR_LOOKBACK = 7
    SR_CLUSTER_ATR_MULT = 50
    SR_ZONE_PAD_ATR = 25
    SR_MIN_TOUCHES = 2
    SR_MAJOR_TOUCHES = 4
    SR_PROXIMITY_ATR = 30
    SR_WICK_BONUS = 50
    SR_MAX_ZONES = 1
    TL_LOOKBACK = 7
    TL_MIN_TOUCHES = 2
    TL_TOLERANCE_ATR = 30
    TL_MAX_SLOPE_PCT = 8
    TL_BREAK_ATR = 25
    \* SetupQuality
    Weights <- QualityWeights
    QUALITY_PRIMARY_FLOOR = 45
    QUALITY_MIN = 50
    IND_CONFIRM_BONUS_MAX = 10
    IND_CONFLICT_PENALTY_MAX = 15
    Locations <- LocationTiers
    QUALITY_SWEEP_EXEMPT_FACTOR = 50
    QUALITY_RSI_OVERSOLD = 30
    QUALITY_RSI_OVERBOUGHT = 70
    QUALITY_RSI_EXHAUSTION_FACTOR = 70
    QUALITY_BB_EXTREME_FACTOR = 85
    QUALITY_WEAK_VOLUME_FACTOR = 90
    QUALITY_DECLINING_VOLUME_FACTOR = 95
    QUALITY_RR_NONE_PENALTY = 30
    QUALITY_RR_MISS_PENALTY = 20
    MIN_RR = 150
    RSI_OVERBOUGHT = 78
    RSI_OVERSOLD = 25
    OI_CHANGE_MIN_PCT = 1
INVARIANTS
    EvenHanded
    IndicatorsBounded
PROPERTY
    NoRepaint
CHECK_DEADLOCK FALSE
