SPECIFICATION Spec
CONSTANTS
    planner = planner
    research = research
    read = read
    book = book
    h1 = h1
    h2 = h2
    None = None
    Ids = {planner, research}
    Source = planner
    Target = research
    Scopes = {read, book}
    Wants <- Wants_
    Tokens <- Tokens_
    Bodies <- Bodies_
    MaxOverlaps = 1
    Handlers = {h1}
    MaxCreds = 3
INVARIANT ReadyToDelegate
