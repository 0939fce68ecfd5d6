SPECIFICATION Spec
CONSTANTS
    planner = planner
    research = research
    read = read
    book = book
    h1 = h1
    h2 = h2
    None = None
    Ids = {planner, research}
    Source = planner
    Target = research
    Scopes = {read, book}
    Wants <- Wants_
    Tokens <- Tokens_
    Bodies <- Bodies_
    MaxOverlaps = 2
    Handlers = {h1, h2}
    MaxCreds = 4
INVARIANTS ShownBoundsAuthority DemoStartsUnprivileged LabelNamesDelegator
SYMMETRY Symmetry
