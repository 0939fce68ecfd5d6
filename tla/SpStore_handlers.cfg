SPECIFICATION FairSpec
CONSTANTS
    a1 = a1
    a2 = a2
    r1 = r1
    Boot = Boot
    Accepts = {a1, a2}
    Revokes = {r1}
    Indices = {1, 2}
    Ports = {"ts", "py"}
    MaxCrashes = 1
INVARIANTS TypeOK LedgerIsFinalized BitsAreRevocations AckedGrantsInLedger KeptUnlessForgotten QuietFileIsLedger
PROPERTIES ServesAgain
CHECK_DEADLOCK FALSE
