CONSTANTS
    scheduled = scheduled
    ondemand = ondemand
    copyMain = copyMain
    copyScript = copyScript
    Jobs = {scheduled, ondemand}
    Copies = {copyMain}
    CopyOf <- SharedCopy
    Coins = {btc, eth}
    None = None
    Reasons = {"poor_rr", "ranging"}
    DUPLICATE_COOLDOWN_MIN = 1
    HOLD_LOG_COOLDOWN_MIN = 1
    Directions = {"BUY"}
    Qualities = {60}
    ALERT_QUALITY_MIN = 50
    MaxTime = 1
    MaxRestarts = 0
VIEW GateAndRows
SPECIFICATION Spec
SYMMETRY CoinSymmetry
INVARIANTS OneScanPerCopy CooldownHeld HoldsWrittenOnce
CHECK_DEADLOCK FALSE
