CONSTANTS
    scheduled = scheduled
    ondemand = ondemand
    copyMain = copyMain
    copyScript = copyScript
    Jobs = {scheduled, ondemand}
    Copies = {copyMain}
    CopyOf <- SharedCopy
    Coins = {btc}
    None = None
    Reasons = {"poor_rr"}
    DUPLICATE_COOLDOWN_MIN = 2
    HOLD_LOG_COOLDOWN_MIN = 3
    Directions = {"BUY"}
    Qualities = {40, 60}
    ALERT_QUALITY_MIN = 50
    MaxTime = 2
    MaxRestarts = 0
VIEW WithoutHealth
SPECIFICATION Spec
PROPERTY ChangedVerdictWritten
CHECK_DEADLOCK FALSE
