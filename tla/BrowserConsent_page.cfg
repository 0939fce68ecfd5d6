SPECIFICATION FairSpec
CONSTANTS
    airline = airline
    hotel = hotel
    f1 = f1
    f2 = f2
    h1 = h1
    None = None
    SPs = {airline, hotel}
    Calls = {f1, f2, h1}
    SpOf <- SpOf_
    MaxPages = 2
INVARIANTS BookedAtMostOnce DeclinedStaysUnbooked RetryFollowsConsent
PROPERTY AcceptedIsRetried
CHECK_DEADLOCK FALSE
