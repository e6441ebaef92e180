SPECIFICATION FairSpec
CONSTANTS
    h1 = h1
    h2 = h2
    h3 = h3
    alice = alice
    bob = bob
    Hooks = {h1, h3}
    Owners = {alice, bob}
    OwnerOf <- MCOwnerOf
    MaxAttempts = 3
    FailLimit = 2
    LogCap = 3
    MaxEvents = 2
INVARIANTS
    StoreIsSound
    RetriesFollowFailures
PROPERTIES
    FailingIsEarned
    DeliveriesEnd
CHECK_DEADLOCK FALSE
