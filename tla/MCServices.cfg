SPECIFICATION SumSpec
CONSTANTS
    \* TelegramDelivery
    Messages = {"alert"}
    NChats = 2
    \* NewsEngine
    official = official
    rival = rival
    other = other
    denial = denial
    Articles = {official, rival, other, denial}
    Claims <- NewsClaims
    Domain <- NewsDomain
    Official = {"sec.gov"}
    Social = {"reddit.com"}
    Denials = {denial}
    Anchors = {1}
    Listing <- TwoFeeds
    Stamps <- AtOnceOrSpread
    THROTTLE_COOLDOWN = 2
    TIMEOUT_COOLDOWN = 1
    EVENT_WINDOW = 1
    MEMORY = 2
    SIMILARITY_MIN = 35
    ANCHOR_MERGE_FLOOR = 10
    NewsMaxTime = 2
    NewsMaxCrashes = 1
    \* ProviderLadder
    Setups = 3
    Gateways <- TwoProvidersOneGateway
    AI_WORKERS = 2
    AI_RETRY_MAX = 2
    Budgets = {0, 1}
    MaxMidnights = 1
    \* LiquidationStream
    btc = btc
    eth = eth
    Coins = {btc, eth}
    None = None
    Windows = {1, 2}
    LIQ_STALE_SECONDS = 1
    Delay = 1
    Skew = 1
    LiqMaxTime = 3
    LiqMaxEvents = 3
    \* SignalsLog
    Writers = {"service", "once"}
    LogMaxRows = 2
    LogMaxStarts = 3
    \* ReplyReading
    Objects <- ReplyObjects
    Asides <- ReplyAsides
    Noises <- ReplyNoises
    Unclosed <- ReplyUnclosed
    Tails <- ReplyTails
    \* Replay
    Shapes <- ReplayShapes
    Decide <- FollowsHtf
    HtfBars = 2
    COOLDOWN = 2
    HORIZON = 4
    ALERT_QUALITY_MIN = 60
    MaxBars = 6
INVARIANTS
    ServicesTypeOK
    NewsKeptStraight
    LadderSound
    SummaryHonest
    LogKept
    ReadAsMeant
PROPERTY
    DeliveryKept
    ReplayFair
CHECK_DEADLOCK FALSE
