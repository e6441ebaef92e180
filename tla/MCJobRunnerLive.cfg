SPECIFICATION FairRunnerSpec
CONSTANTS
    good = good
    bad = bad
    hung = hung
    lost = lost
    odd = odd
    Jobs = {good, lost, odd}
    Tokens = {t1, t2, t3}
    NoToken = NoToken
    Keys = {}
    NoKey = NoKey
    KeyOf <- MCKeyOf
    Percents <- MCPercents
    LeaseTicks = 4
    MaxRetries = 0
    Workers = {w1}
    NoJob = NoJob
    OutFiles = {f1}
    NoFile = NoFile
    Unhandled <- MCUnhandled
    NoInput <- MCNoInput
    Fate <- MCFate
    BudgetTicks = 4
    PollTicks = 1
    Prompt = TRUE
    RunTicks = 1
PROPERTIES
    HealthyJobsFinish
    OrphansAreRetried
CHECK_DEADLOCK FALSE
