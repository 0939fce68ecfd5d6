\* Two requests, on any paths, with two presentations of which one lacks the
\* scope; presentations live for one tick and credentials for two.
SPECIFICATION VerifiersSpec
CONSTANTS
    VPs = {v1, v2}
    Scoped = {v1}
    Requests = {r1, r2}
    Absent = Absent
    VpLife = 1
    VcLife = 2
    TokenLife = 1
    MaxTime = 3
    MaxKeys = 2
INVARIANTS
    GrantsAreCurrent
CHECK_DEADLOCK FALSE
