SPECIFICATION Spec
CONSTANTS
    agent = agent
    seeder = seeder
    a1 = a1
    a2 = a2
    s1 = s1
    concierge = concierge
    search = search
    d1 = d1
    base = base
    child = child
    None = None
    Down = Down
    Ids = {concierge, search}
    Dids = {d1}
    Links = {base, child}
    Procs = {agent, seeder}
    Writers = {a1, a2, s1}
    ProcOf <- ProcOf_
    Lockers = {agent}
    Racing = FALSE
    MaxFailures = 2
INVARIANTS TypeOK AnsweredAreKept AnsweredAreKnown
PROPERTY ImplementsRegistry
SYMMETRY Symmetry
CHECK_DEADLOCK FALSE
