CONSTANTS
    Entries <- EntryAtZero
    Swings <- SwingLevels
    Zones <- ZonesAround
    MaxZones = 2
    RISK_SL_BUFFER = 2
    RISK_TARGET_ZONE_PAD = 1
    RISK_MIN_TARGET = 4
    RISK_MAX_STOP = 12
    MIN_RR = 150
    DIR_CONFLICT_FACTOR = 30
    DIR_CONFLICT_LATE_FACTOR = 60
    DIR_POSITIONING_CONFLICT_FACTOR = 70
    DIR_MOMENTUM_CONFLICT_FACTOR = 80
    DIR_MOMENTUM_CONFLICT_CONFIRMED_FACTOR = 90
    DIR_UNCONFIRMED_CHOCH_FACTOR = 75
    None = None
SPECIFICATION Spec
INVARIANTS TypeOK TradeAllowed TradeGeometry TargetNearest Mirrored EvidenceHelps
