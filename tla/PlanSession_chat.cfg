SPECIFICATION FairSpec
CONSTANTS
    TVM = TVM
    DEL = DEL
    HA733 = HA733
    HA734 = HA734
    HSDEL1 = HSDEL1
    q1 = q1
    q2 = q2
    t1 = t1
    t2 = t2
    None = None
    Cities = {TVM, DEL}
    Home = TVM
    Away = {DEL}
    Tokens = {t1, t2}
    Requests = {q1, q2}
    FlightIds = {HA733, HA734}
    HotelIds = {HSDEL1}
    CityOf <- CityOf_
    Results <- Results_
    Typed <- Typed_
    HasModel = TRUE
    Limit = 4
    MaxTurns = 3
    MaxOverlaps = 1
INVARIANTS HistoryAlternates AnswerMovesOn OneBookingPerSearch
PROPERTIES ImplementsTranscript QuestionsEnd
CHECK_DEADLOCK FALSE
