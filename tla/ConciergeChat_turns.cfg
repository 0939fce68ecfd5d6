\* Two requests to /chat, each of up to two provider calls, under a persona with
\* a root credential and one with a credential delegated from it.
SPECIFICATION Spec
CONSTANTS
    t1 = t1
    t2 = t2
    c1 = c1
    concierge = concierge
    research = research
    search = search
    book = book
    planner_vc = planner_vc
    delegated_vc = delegated_vc
    None = None
    Turns = {t1, t2}
    Conversations = {c1}
    Rounds = 2
    MaxRevoked = 1
    Personas <- MCPersonas
    Tools <- MCTools
    Creds <- MCCreds
    Needs <- MCNeeds
    Chain <- MCChain
    ScopesOf <- MCScopesOf
    PresentedBy <- MCPresentedBy
    Calls <- MCCalls
INVARIANTS
    ResultsFollowCalls
    AnsweredIsRemembered
    ResultsTellRuns
PROPERTIES
    RunsAreAuthorized
    TurnsEnd
CHECK_DEADLOCK FALSE
