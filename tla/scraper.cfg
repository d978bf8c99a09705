SPECIFICATION FairScraperSpec
CONSTANTS
    User = User
    NoUser = NoUser
    Never = Never
    Configs <- MCConfigs
    Interval = 2
    Lifetime = 4
    ServerInterval = 2
    ServerBurst = 2
    MaxTime = 4
INVARIANTS
    ScraperTypeOK
    Accounting
    HonestStats
    RateHonoured
    NeverRefused
PROPERTIES
    StopsWhenAsked
