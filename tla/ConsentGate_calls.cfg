SPECIFICATION FairSpec
CONSTANTS
    airline = airline
    hotel = hotel
    ada = ada
    eve = eve
    terms = terms
    book = book
    modify = modify
    stay = stay
    c1 = c1
    Open = Open
    SPs = {airline, hotel}
    Users = {ada, eve}
    User = ada
    Scopes = {terms, book, stay}
    Terms = terms
    Ceiling = {book}
    Calls = {c1}
    Tools <- Tools_
    Service <- Service_
    RequiredScope <- RequiredScope_
    MaxGrants = 2
INVARIANTS TypeOK RunImpliesConsent RevokedIsFinal RunsAtMostOnce StandingGrantReused
PROPERTIES ImplementsPolicy CallsEnd
CHECK_DEADLOCK FALSE
