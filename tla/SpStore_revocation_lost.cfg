SPECIFICATION Spec
CONSTANTS
    a1 = a1
    a2 = a2
    r1 = r1
    Boot = Boot
    Accepts = {a1, a2}
    Revokes = {r1}
    Indices = {1, 2}
    Ports = {"ts"}
    MaxCrashes = 0
INVARIANTS AnswersAreKept
CHECK_DEADLOCK FALSE
