SPECIFICATION FairSpec
CONSTANTS
    Callers <- Slots
    MaxKeyset = 2
    KeysetTtl = 1
    Latency = 1
    Absent = Absent
    Askers <- Slots
    Currencies = {"usd", "eur"}
    RateTtl = 1
    FetchTimeout = 1
    NoRate = NoRate
    MaxCommands = 2
    LateLines = TRUE
    Rows = {1, 2, 3, 4, 5}
    Payments = {2, 3, 5}
    Limit = 1
    MaxOffset = 3
    Mixes <- Pairs
INVARIANTS TypeOK RefusedForCause RateIsRecent FallbackIsNewest LinesPair OneAtATime NothingSkipped
PROPERTIES HandedIsUsable HandedIsRecent DrainedFirst CliViewAdvances AskAnswered SessionEnds
CHECK_DEADLOCK FALSE
