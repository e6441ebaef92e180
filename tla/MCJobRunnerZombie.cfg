SPECIFICATION RunnerSpec
CONSTANTS
    good = good
    bad = bad
    hung = hung
    lost = lost
    odd = odd
    Jobs = {good}
    Tokens = {t1, t2}
    NoToken = NoToken
    Keys = {}
    NoKey = NoKey
    KeyOf <- MCKeyOf
    Percents <- MCPercents
    LeaseTicks = 1
    MaxRetries = 1
    Workers = {w1}
    NoJob = NoJob
    OutFiles = {f1}
    NoFile = NoFile
    Unhandled <- MCUnhandled
    NoInput <- MCNoInput
    Fate <- MCAnyFate
    BudgetTicks = 1
    PollTicks = 1
    Prompt = FALSE
    RunTicks = 5
INVARIANTS
    CompletedOutputsIntact
CHECK_DEADLOCK FALSE
