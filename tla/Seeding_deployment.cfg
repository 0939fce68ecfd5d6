\* Two API processes that may be started with different signing keys, one SP,
\* and a seeder that is run three times.
SPECIFICATION Spec
CONSTANTS
    Procs = {p1, p2}
    SigningKeys = {key1, key2}
    HostedKey = configured
    None = None
    SPs = {airline}
    MaxBoots = 3
    MaxAgents = 3
    MaxRuns = 3
    MaxFlushes = 2
INVARIANTS
    ServesWithRegisteredKey
    ReseedingReuses
    SeededIsUsable
PROPERTIES
    SeederEnds
CHECK_DEADLOCK FALSE
