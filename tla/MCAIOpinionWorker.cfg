CONSTANTS
    first = first
    second = second
    third = third
    btc = btc
    eth = eth
    ai_worker = ai_worker
    Workers = {ai_worker}
    Batches = {first, second, third}
    Records <- TwoOneOne
    Opinions = {"LONG"}
    AI_WORKER_MAX_PENDING = 1
    MaxDay = 1
    None = None
SPECIFICATION FairSpec
INVARIANTS TypeOK QueueHeld StatusSettles SnapshotHonest OneNoticeADay
PROPERTIES EveryBatchRuns
CHECK_DEADLOCK FALSE
