CONSTANTS
    scheduled = scheduled
    ondemand = ondemand
    fetch_s = fetch_s
    fetch_o = fetch_o
    btc = btc
    eth = eth
    Workers = {fetch_s, fetch_o}
    Batches = {scheduled, ondemand}
    BatchOf <- OnePoolEach
    Symbols = {btc, eth}
    Period = 2
    FETCH_TIMEOUT = 1
    FETCH_RETRY_MAX = 2
    Cost = 2
    Rate = 1
    Capacity = 6
    ScanBudget = 1
    MaxClock = 3
    None = None
SPECIFICATION Spec
SYMMETRY PoolSymmetry
INVARIANT OnlyClosedCandles
CHECK_DEADLOCK FALSE
