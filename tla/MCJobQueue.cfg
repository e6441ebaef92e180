SPECIFICATION Spec
CONSTANTS
    first = first
    twin = twin
    k1 = k1
    Jobs = {first, twin, j3, j4}
    Tokens = {t1, t2, t3}
    NoToken = NoToken
    Keys = {k1}
    NoKey = NoKey
    KeyOf <- MCKeyOf
    Percents <- MCPercents
    LeaseTicks = 1
    MaxRetries = 1
SYMMETRY MCSymmetry
INVARIANTS
    QueueIsSound
PROPERTIES
    EndStatesAreFinal
    OnlyTheHolderWrites
CHECK_DEADLOCK FALSE
