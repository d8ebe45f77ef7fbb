\* Three hook runs on two workers; the groups of a hook share no series.
CONSTANTS
    Worker <- TwoWorkers
    HooksOf <- TwoHooks
    AllowFailure <- OnlyB
    Output <- Files
    MaxRuns = 3
    Nil = Nil
    Nobody = Nobody
SPECIFICATION Spec
INVARIANTS TypeOK AddsCounted NoStaleSeries GroupIsLastBatch ScrapeSucceeds
CHECK_DEADLOCK FALSE
