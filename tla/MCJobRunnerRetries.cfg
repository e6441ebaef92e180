SPECIFICATION RunnerSpec
CONSTANTS
    good = good
    bad = bad
    hung = hung
    lost = lost
    odd = odd
    Jobs = {good, lost}
    Tokens = {t1, t2}
    NoToken = NoToken
    Keys = {}
    NoKey = NoKey
    KeyOf <- MCKeyOf
    Percents <- MCPercents
    LeaseTicks = 2
    MaxRetries = 3
    Workers = {w1}
    NoJob = NoJob
    OutFiles = {f1}
    NoFile = NoFile
    Unhandled <- MCUnhandled
    NoInput <- MCNoInput
    Fate <- MCFate
    BudgetTicks = 2
    PollTicks = 1
    Prompt = FALSE
    RunTicks = 2
INVARIANTS
    AtMostMaxRetries
CHECK_DEADLOCK FALSE
