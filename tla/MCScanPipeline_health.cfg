CONSTANTS
    scheduled = scheduled
    ondemand = ondemand
    copyMain = copyMain
    copyScript = copyScript
    Jobs = {scheduled, ondemand}
    Copies = {copyMain}
    CopyOf <- SharedCopy
    Coins = {btc}
    None = None
    Reasons = {"poor_rr"}
    DUPLICATE_COOLDOWN_MIN = 1
    HOLD_LOG_COOLDOWN_MIN = 2
    Directions = {"BUY"}
    Qualities = {40, 60}
    ALERT_QUALITY_MIN = 50
    MaxTime = 1
    MaxRestarts = 1
SPECIFICATION FairSpec
INVARIANTS TypeOK StatusHonest RowsFirst
PROPERTIES LastScanNeverGoesBack ImplementsAlertGate SlotFreed
CHECK_DEADLOCK FALSE
