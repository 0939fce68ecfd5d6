------------------------- MODULE PlanSession_proofs -------------------------
(***************************************************************************)
(* Proofs about PlanSession, for any cities, options, tokens, messages     *)
(* typed, search results and bounds, and whatever the model answers.       *)
(***************************************************************************)
EXTENDS PlanSession, SequenceTheorems, FiniteSetTheorems, TLAPS

(***************************************************************************)
(* The conversation engine: what it asks is on the list of the leg, and    *)
(* not known yet; a suggested answer fills the field it was suggested for. *)
(***************************************************************************)
Questions(track) ==
    CASE track = "flight" -> {"destination", "origin", "departureDate", "travelers", "airlinePreference"}
      [] track = "hotel" -> {"destination", "hotelBudget"}
      [] track = "return" -> {"destination", "origin", "returnDate"}

LEMMA LeastIsMember ==
  ASSUME NEW S, S \subseteq 1 .. 5, S # {}
  PROVE  Min(S) \in S
<1>1. \E x \in S : \A y \in S : x =< y
  <2>1. CASE 1 \in S
    BY <2>1
  <2>2. CASE 1 \notin S /\ 2 \in S
    BY <2>2
  <2>3. CASE 1 \notin S /\ 2 \notin S /\ 3 \in S
    BY <2>3
  <2>4. CASE 1 \notin S /\ 2 \notin S /\ 3 \notin S /\ 4 \in S
    BY <2>4
  <2>5. CASE 1 \notin S /\ 2 \notin S /\ 3 \notin S /\ 4 \notin S
    <3>1. PICK x \in S : TRUE
      OBVIOUS
    <3>2. \A y \in S : y = 5
      BY <2>5
    <3>. QED BY <3>1, <3>2
  <2>. QED BY <2>1, <2>2, <2>3, <2>4, <2>5
<1>. QED
  BY <1>1 DEF Min

LEMMA FirstMissingIsMissing ==
  ASSUME NEW p, NEW fields \in Seq(Fields), Len(fields) <= 5, FirstMissing(p, fields) # None
  PROVE  \E i \in DOMAIN fields :
            FirstMissing(p, fields) = fields[i] /\ ~Filled(p, fields[i])
<1>. DEFINE missing == {i \in DOMAIN fields : ~Filled(p, fields[i])}
<1>1. missing \subseteq 1 .. 5 /\ missing # {} /\ FirstMissing(p, fields) = fields[Min(missing)]
  BY DEF FirstMissing
<1>2. Min(missing) \in missing
  BY <1>1, LeastIsMember
<1>. QED
  BY <1>1, <1>2

\* nextFlightQuestion, nextHotelQuestion, nextReturnQuestion.
LEMMA QuestionIsOpen ==
  ASSUME NEW p, NEW track \in Tracks, NextQuestion(p, track) # None
  PROVE  /\ NextQuestion(p, track) \in Questions(track)
         /\ ~Filled(p, NextQuestion(p, track))
<1>1. CASE track = "flight"
  <2>. DEFINE fields == <<"destination", "origin", "departureDate", "travelers", "airlinePreference">>
  <2>1. fields \in Seq(Fields) /\ Len(fields) <= 5 /\ \A i \in DOMAIN fields : fields[i] \in Questions(track)
    BY <1>1 DEF Fields, Details, Questions
  <2>2. NextQuestion(p, track) = FirstMissing(p, fields)
    BY <1>1 DEF NextQuestion, NextFlightQuestion
  <2>. HIDE DEF fields
  <2>. QED BY <2>1, <2>2, FirstMissingIsMissing
<1>2. CASE track = "hotel"
  <2>. DEFINE fields == <<"destination", "hotelBudget">>
  <2>1. fields \in Seq(Fields) /\ Len(fields) <= 5 /\ \A i \in DOMAIN fields : fields[i] \in Questions(track)
    BY <1>2 DEF Fields, Details, Questions
  <2>2. NextQuestion(p, track) = FirstMissing(p, fields)
    BY <1>2 DEF NextQuestion, NextHotelQuestion
  <2>. HIDE DEF fields
  <2>. QED BY <2>1, <2>2, FirstMissingIsMissing
<1>3. CASE track = "return"
  <2>. DEFINE fields == <<"destination", "origin", "returnDate">>
  <2>1. fields \in Seq(Fields) /\ Len(fields) <= 5 /\ \A i \in DOMAIN fields : fields[i] \in Questions(track)
    BY <1>3 DEF Fields, Details, Questions
  <2>2. NextQuestion(p, track) = FirstMissing(p, fields)
    BY <1>3 DEF NextQuestion, NextReturnQuestion
  <2>. HIDE DEF fields
  <2>. QED BY <2>1, <2>2, FirstMissingIsMissing
<1>. QED
  BY <1>1, <1>2, <1>3 DEF Tracks

LEMMA QuestionsAreFields ==
  ASSUME NEW track \in Tracks
  PROVE  Questions(track) \subseteq Fields
BY DEF Questions, Fields, Details, Tracks

\* extractSlots keeps a profile a profile.
LEMMA SlotsAreProfile ==
  ASSUME NEW m \in Message(Options), NEW p \in Profile, NEW forReturn \in BOOLEAN
  PROVE  ExtractSlots(m, p, forReturn) \in Profile
<1>1. /\ m.from \in Cities \cup {None} /\ m.to \in Cities \cup {None}
      /\ m.lone \in Cities \cup {None}
      /\ m.gives \subseteq {"date", "travelers", "airlinePreference", "hotelBudget"}
  BY DEF Message
<1>2. p.origin \in Cities \cup {None} /\ p.destination \in Cities \cup {None} /\ p.has \subseteq Details
  BY DEF Profile
<1>3. To(m) \in Cities \cup {None} /\ Lone(m) \in Cities \cup {None}
  BY <1>1 DEF To, Lone
<1>4. DateField(forReturn) \in Details
  BY DEF DateField, Details
<1>5. m.gives \ {"date"} \subseteq Details
  BY <1>1 DEF Details
<1>. QED
  BY <1>1, <1>2, <1>3, <1>4, <1>5 DEF ExtractSlots, Profile, FirstOf

LEMMA BlankIsMessage == Blank \in Message(Options)
BY CitiesAssumption, PlanAssumption DEF Blank, Message

LEMMA SuggestionsAreMessages ==
  ASSUME NEW f \in Fields, NEW m \in Suggestions(f)
  PROVE  m \in Message(Options)
<1>1. CASE f = "destination"
  BY <1>1, CitiesAssumption DEF Suggestions, CityNamed, Blank, Message
<1>2. CASE f = "origin"
  BY <1>2, CitiesAssumption DEF Suggestions, CityNamed, Blank, Message
<1>3. CASE f \in {"departureDate", "returnDate"}
  BY <1>3, BlankIsMessage DEF Suggestions, Message
<1>4. CASE f = "travelers"
  BY <1>4, BlankIsMessage DEF Suggestions, Message
<1>5. CASE f = "airlinePreference"
  <2>1. PICK s \in {{}, {"flight"}} :
          m = [Blank EXCEPT !.gives = {"airlinePreference"}, !.mentions = s]
    BY <1>5 DEF Suggestions
  <2>. QED BY <2>1, BlankIsMessage DEF Message
<1>6. CASE f = "hotelBudget"
  BY <1>6, BlankIsMessage DEF Suggestions, Message
<1>. QED
  BY <1>1, <1>2, <1>3, <1>4, <1>5, <1>6 DEF Fields, Details

LEMMA SuggestionFills ==
  ASSUME NEW p \in Profile, NEW track \in Tracks, NEW f \in Questions(track), NEW m \in Suggestions(f),
         ExtractSlots(m, p, track = "return").destination # Home
  PROVE  Filled(ExtractSlots(m, p, track = "return"), f)
<1>1. CASE f = "destination"
  <2>1. PICK c \in Away : m = CityNamed(c)
    BY <1>1 DEF Suggestions
  <2>2. m.from = None /\ m.to = None /\ m.lone = c /\ c # None
    BY <2>1, CitiesAssumption DEF CityNamed, Blank
  <2>3. To(m) = None /\ Lone(m) = c
    BY <2>2 DEF To, Lone
  <2>. QED BY <1>1, <2>2, <2>3 DEF ExtractSlots, AnswersOrigin, FirstOf, Filled
<1>2. CASE f = "origin"
  <2>1. m = CityNamed(Home) /\ Home # None
    BY <1>2, CitiesAssumption DEF Suggestions
  <2>2. m.from = None /\ m.to = None /\ m.lone = Home
    BY <2>1 DEF CityNamed, Blank
  <2>3. To(m) = None /\ Lone(m) = Home
    BY <2>1, <2>2 DEF To, Lone
  <2>. QED BY <1>2, <2>1, <2>2, <2>3 DEF ExtractSlots, AnswersOrigin, FirstOf, Filled
<1>3. CASE f \in {"departureDate", "returnDate"}
  <2>1. "date" \in m.gives
    BY <1>3 DEF Suggestions, Blank
  <2>2. f = DateField(track = "return")
    BY <1>3 DEF Questions, DateField, Tracks
  <2>. QED BY <1>3, <2>1, <2>2 DEF ExtractSlots, Filled
<1>4. CASE f \in {"travelers", "airlinePreference", "hotelBudget"}
  <2>1. f \in m.gives
    BY <1>4 DEF Suggestions, Blank
  <2>. QED BY <1>4, <2>1 DEF ExtractSlots, Filled
<1>. QED
  BY <1>1, <1>2, <1>3, <1>4, QuestionsAreFields DEF Fields, Details

\* A suggested answer is about no other leg.
LEMMA SuggestionStaysOnTrack ==
  ASSUME NEW track \in Tracks, NEW f \in Fields, NEW m \in Suggestions(f)
  PROVE  ResolveTrack(m, TRUE, track) = track
<1>1. m.mentions \subseteq {"flight"}
  BY DEF Suggestions, CityNamed, Blank, Fields, Details
<1>. QED
  BY <1>1 DEF ResolveTrack

(***************************************************************************)
(* Histories of whole exchanges.                                           *)
(***************************************************************************)
Whole(s) ==
    /\ Len(s) % 2 = 0 /\ Len(s) <= Limit
    /\ \A i \in DOMAIN s : s[i].role = IF i % 2 = 1 THEN "user" ELSE "assistant"

LEMMA NothingIsWhole == Whole(<<>>)
BY PlanAssumption DEF Whole

LEMMA EvenDifference ==
  ASSUME NEW n \in Nat, NEW l \in Nat, n % 2 = 0, l % 2 = 0, n > l
  PROVE  (n - l) % 2 = 0
OBVIOUS

LEMMA SameParity ==
  ASSUME NEW i \in Nat, NEW j \in Nat, j % 2 = 0
  PROVE  (i + j) % 2 = i % 2
OBVIOUS

\* recordTurn appends an exchange and retains an even number of entries.
LEMMA LatestIsWhole ==
  ASSUME NEW s \in Seq(Entry), Whole(s), NEW u \in Sayings, NEW a \in Answers
  PROVE  /\ Latest(s \o <<u, a>>) \in Seq(Entry)
         /\ Whole(Latest(s \o <<u, a>>))
<1>. DEFINE e == s \o <<u, a>>
<1>. DEFINE k == IF Len(e) > Limit THEN Len(e) - Limit + 1 ELSE 1
<1>0. u \in Entry /\ a \in Entry /\ u.role = "user" /\ a.role = "assistant"
  BY DEF Entry, Sayings, Answers
<1>1. <<u, a>> \in Seq(Entry) /\ Len(<<u, a>>) = 2
  BY <1>0
<1>2. /\ e \in Seq(Entry) /\ Len(e) = Len(s) + 2 /\ Len(e) \in Nat
      /\ \A i \in 1 .. Len(e) : e[i] = IF i <= Len(s) THEN s[i] ELSE <<u, a>>[i - Len(s)]
  BY <1>1, ConcatProperties, LenProperties
<1>3. ASSUME NEW i \in 1 .. Len(e)
      PROVE  e[i].role = IF i % 2 = 1 THEN "user" ELSE "assistant"
  <2>1. /\ Len(s) \in Nat /\ Len(s) % 2 = 0 /\ DOMAIN s = 1 .. Len(s)
        /\ \A j \in 1 .. Len(s) : s[j].role = IF j % 2 = 1 THEN "user" ELSE "assistant"
    BY LenProperties DEF Whole
  <2>2. i \in Nat /\ 1 <= i /\ i <= Len(s) + 2
    BY <1>2, <2>1
  <2>3. e[i] = IF i <= Len(s) THEN s[i] ELSE <<u, a>>[i - Len(s)]
    BY <1>2
  <2>. HIDE DEF e
  <2>4. CASE i <= Len(s)
    BY <2>1, <2>2, <2>3, <2>4
  <2>5. CASE i = Len(s) + 1
    <3>1. i % 2 = 1 /\ i - Len(s) = 1 /\ ~(i <= Len(s))
      BY <2>1, <2>5
    <3>2. e[i] = u
      BY <2>3, <3>1
    <3>. QED BY <3>1, <3>2, <1>0
  <2>6. CASE i = Len(s) + 2
    <3>1. i % 2 = 0 /\ i - Len(s) = 2 /\ ~(i <= Len(s))
      BY <2>1, <2>6
    <3>2. e[i] = a
      BY <2>3, <3>1
    <3>. QED BY <3>1, <3>2, <1>0
  <2>7. i <= Len(s) \/ i = Len(s) + 1 \/ i = Len(s) + 2
    BY <2>1, <2>2
  <2>. QED BY <2>4, <2>5, <2>6, <2>7
<1>. HIDE DEF e
<1>4. /\ k \in Nat /\ k >= 1 /\ k <= Len(e) + 1 /\ (k - 1) % 2 = 0
      /\ Len(e) - k + 1 <= Limit /\ (Len(e) - k + 1) % 2 = 0 /\ Len(e) - k + 1 >= 0
  <2>1. Len(e) \in Nat /\ Len(e) % 2 = 0
    BY <1>2, LenProperties DEF Whole
  <2>2. Limit \in Nat /\ Limit % 2 = 0
    BY PlanAssumption
  <2>3. CASE Len(e) > Limit
    <3>1. k = Len(e) - Limit + 1
      BY <2>3 DEF k
    <3>2. (Len(e) - Limit) % 2 = 0
      BY <2>1, <2>2, <2>3, EvenDifference
    <3>3. k - 1 = Len(e) - Limit /\ Len(e) - k + 1 = Limit
      BY <2>1, <2>2, <3>1
    <3>. QED BY <2>1, <2>2, <2>3, <3>1, <3>2, <3>3
  <2>4. CASE ~(Len(e) > Limit)
    <3>1. k = 1 /\ k - 1 = 0 /\ Len(e) - k + 1 = Len(e)
      BY <2>1, <2>4 DEF k
    <3>. QED BY <2>1, <2>2, <2>4, <3>1
  <2>. QED BY <2>3, <2>4
<1>. HIDE DEF k
<1>5. /\ SubSeq(e, k, Len(e)) \in Seq(Entry)
      /\ Len(SubSeq(e, k, Len(e))) = Len(e) - k + 1
      /\ \A i \in 1 .. Len(e) - k + 1 : SubSeq(e, k, Len(e))[i] = e[k + i - 1]
  <2>1. Len(e) \in Nat /\ \A i \in k .. Len(e) : e[i] \in Entry
    BY <1>2, <1>4, ElementOfSeq
  <2>2. k <= Len(e) + 1 /\ k \in Int /\ Len(e) \in Int
    BY <1>4, <2>1
  <2>3. /\ Len(SubSeq(e, k, Len(e))) = IF k <= Len(e) THEN Len(e) - k + 1 ELSE 0
        /\ SubSeq(e, k, Len(e)) \in Seq(Entry)
        /\ \A i \in 1 .. Len(e) - k + 1 : SubSeq(e, k, Len(e))[i] = e[k + i - 1]
    BY <1>2, <1>4, <2>1, <2>2, SubSeqProperties
  <2>. QED BY <2>1, <2>2, <2>3
<1>6. Latest(e) = SubSeq(e, k, Len(e))
  BY DEF Latest, k
<1>. DEFINE l == SubSeq(e, k, Len(e))
<1>7. ASSUME NEW i \in DOMAIN l
      PROVE  l[i].role = IF i % 2 = 1 THEN "user" ELSE "assistant"
  <2>1. i \in 1 .. Len(e) - k + 1
    BY <1>5, LenProperties
  <2>2. k + i - 1 \in 1 .. Len(e) /\ (k + i - 1) % 2 = i % 2
    <3>1. i \in Nat /\ k - 1 \in Nat /\ k + i - 1 = i + (k - 1) /\ k + i - 1 \in 1 .. Len(e)
      BY <1>2, <1>4, <2>1
    <3>2. (i + (k - 1)) % 2 = i % 2
      BY <1>4, <3>1, SameParity
    <3>. QED BY <3>1, <3>2
  <2>. QED BY <1>3, <1>5, <2>1, <2>2
<1>8. Whole(l)
  BY <1>4, <1>5, <1>7 DEF Whole
<1>. QED
  BY <1>5, <1>6, <1>8 DEF e

(***************************************************************************)
(* The requests: what holds of each one whatever happens around it.        *)
(***************************************************************************)
Asks(track, field) == track \in Tracks /\ field \in Questions(track)

\* Does this reply book only what this context offers?
Bookable(reply, context) ==
    reply.id # None =>
        IF reply.id \in FlightIds
        THEN reply.tool = "book_flight" /\ context.flights # <<>>
        ELSE reply.tool = "book_hotel" /\ context.hotels # <<>>

\* What it asks belongs to the leg; the suggestion it answers, too; what it
\* books was on offer when it was sent; what it will write is whole.
Sound(r) ==
    /\ r.at \in {"sent", "planning"} => r.reply = Said
    /\ r.at \in {"phrasing", "planning"} => Whole(r.read)
    /\ r.reply.kind = "ask" => Asks(r.reply.track, r.reply.field) /\ r.reply.field # None
    /\ r.answers # None =>
        r.answering /\ Asks(r.track, r.answers) /\ r.msg \in Suggestions(r.answers)
    /\ Bookable(r.reply, r.context)

RequestsSound == \A q \in Requests : req[q] # Idle => Sound(req[q])

\* What the handlers do not change of a request.
SameRequest(x, r) ==
    /\ x.token = r.token /\ x.msg = r.msg /\ x.answering = r.answering
    /\ x.answers = r.answers /\ x.track = r.track /\ x.context = r.context

LEMMA BusyRequest ==
  ASSUME TypeOK, NEW q \in Requests, req[q] # Idle
  PROVE  req[q] \in InProgress
BY DEF TypeOK

LEMMA AtSomeStep ==
  ASSUME TypeOK, NEW q \in Requests, req[q].at # "idle"
  PROVE  req[q] # Idle /\ req[q] \in InProgress
BY BusyRequest DEF Idle

LEMMA InProgressIsBusy ==
  ASSUME NEW x \in InProgress
  PROVE  x # Idle
BY DEF InProgress, Idle

LEMMA RequestGoes ==
  ASSUME TypeOK, RequestsSound, NEW q \in Requests, NEW x \in InProgress, Sound(x),
         req' = [req EXCEPT ![q] = x]
  PROVE  /\ req' \in [Requests -> InProgress \cup {Idle}] /\ RequestsSound'
         /\ req'[q] = x /\ \A p \in Requests \ {q} : req'[p] = req[p]
BY DEF TypeOK, RequestsSound, Sound

LEMMA RequestEnds ==
  ASSUME TypeOK, RequestsSound, NEW q \in Requests, Done(q)
  PROVE  /\ req' \in [Requests -> InProgress \cup {Idle}] /\ RequestsSound'
         /\ req'[q] = Idle /\ \A p \in Requests \ {q} : req'[p] = req[p]
BY DEF TypeOK, RequestsSound, Sound, Done

LEMMA RepliesAre ==
  /\ Said \in Reply /\ Said.kind = "message" /\ Said.id = None
  /\ Failure \in Reply /\ Failure.kind = "error" /\ Failure.id = None
  /\ \A t \in Tools, id \in Options \cup {None} :
        Tool(t, id) \in Reply /\ Tool(t, id).kind = "tool" /\ Tool(t, id).tool = t /\ Tool(t, id).id = id
BY DEF Said, Failure, Tool, Reply

LEMMA AnswersSoundly ==
  ASSUME TypeOK, RequestsSound, NEW q \in Requests, req[q] # Idle,
         NEW answer \in Reply, Answer(q, answer), Bookable(answer, req[q].context),
         answer.kind = "ask" => Asks(answer.track, answer.field) /\ answer.field # None
  PROVE  \E x \in InProgress :
            /\ Sound(x) /\ SameRequest(x, req[q])
            /\ x.at = "replied" /\ x.reply = answer
            /\ req' = [req EXCEPT ![q] = x]
<1>. DEFINE x == [req[q] EXCEPT !.at = "replied", !.read = <<>>, !.reply = answer]
<1>1. req[q] \in InProgress /\ Sound(req[q])
  BY BusyRequest DEF RequestsSound
<1>2. x \in InProgress
  <2>1. <<>> \in Seq(Entry)
    OBVIOUS
  <2>. QED BY <1>1, <2>1 DEF InProgress
<1>3. x.at = "replied" /\ x.reply = answer /\ SameRequest(x, req[q])
  BY <1>1 DEF InProgress, SameRequest
<1>4. req' = [req EXCEPT ![q] = x]
  BY DEF Answer
<1>. HIDE DEF x
<1>5. Sound(x)
  BY <1>1, <1>3 DEF Sound, SameRequest, Bookable
<1>. QED
  BY <1>2, <1>3, <1>4, <1>5

\* A request that awaits the model.
Awaiting(r, at, read, answer) == [r EXCEPT !.at = at, !.read = read, !.reply = answer]

LEMMA AwaitsSoundly ==
  ASSUME NEW r \in InProgress, Sound(r), NEW read \in Seq(Entry), Whole(read),
         NEW answer \in Reply, answer.id = None,
         answer.kind = "ask" => Asks(answer.track, answer.field) /\ answer.field # None,
         NEW at, at = "phrasing" \/ (at = "planning" /\ answer = Said),
         NEW x, x = Awaiting(r, at, read, answer)
  PROVE  /\ x \in InProgress /\ Sound(x) /\ SameRequest(x, r)
         /\ x.at = at /\ x.read = read /\ x.reply = answer
<1>1. x \in InProgress
  BY DEF Awaiting, InProgress
<1>2. x.at = at /\ x.read = read /\ x.reply = answer /\ SameRequest(x, r)
  BY DEF Awaiting, InProgress, SameRequest
<1>3. Sound(x)
  BY <1>2 DEF Sound, SameRequest, Bookable
<1>. QED
  BY <1>1, <1>2, <1>3

(***************************************************************************)
(* What the planners plan.                                                 *)
(***************************************************************************)
LEMMA ChosenIsOffered ==
  ASSUME NEW m \in Message(Options), NEW context \in Offered, Chosen(m, context) # None
  PROVE  /\ Chosen(m, context) \in Options
         /\ Chosen(m, context) \in FlightIds => context.flights # <<>>
         /\ Chosen(m, context) \notin FlightIds => context.hotels # <<>>
<1>1. /\ context.flights \in Seq(FlightIds) /\ context.hotels \in Seq(HotelIds)
      /\ FlightIds \cap HotelIds = {} /\ Options = FlightIds \cup HotelIds
  BY PlanAssumption DEF Offered, Options
<1>2. /\ \A x : InSeq(x, context.flights) => x \in FlightIds /\ context.flights # <<>>
      /\ \A x : InSeq(x, context.hotels) => x \in HotelIds /\ context.hotels # <<>>
  BY <1>1 DEF InSeq
<1>3. /\ context.hotels # <<>> => Head(context.hotels) \in HotelIds
      /\ context.flights # <<>> => Head(context.flights) \in FlightIds
  BY <1>1, HeadTailProperties
<1>. DEFINE hotelOnly == "hotel" \in m.words /\ "flight" \notin m.words
            flightOnly == "flight" \in m.words /\ "hotel" \notin m.words
            c == Chosen(m, context)
<1>4. \/ c = m.names /\ InSeq(m.names, context.flights)
      \/ c = m.names /\ InSeq(m.names, context.hotels)
      \/ c = Head(context.hotels) /\ context.hotels # <<>>
      \/ c = Head(context.flights) /\ context.flights # <<>>
  BY DEF Chosen
<1>. HIDE DEF c
<1>. QED
  <2>1. c \in Options /\ (c \in FlightIds => context.flights # <<>>)
                      /\ (c \notin FlightIds => context.hotels # <<>>)
    BY <1>1, <1>2, <1>3, <1>4
  <2>. QED BY <2>1 DEF c

LEMMA BookingIs ==
  ASSUME NEW id \in Options
  PROVE  /\ Booking(id) \in Reply /\ Booking(id).kind = "tool" /\ Booking(id).id = id
         /\ Booking(id).tool = IF id \in FlightIds THEN "book_flight" ELSE "book_hotel"
BY RepliesAre DEF Booking, Tools

LEMMA PlansAreBookable ==
  ASSUME TypeOK, NEW q \in Requests, req[q] \in InProgress,
         NEW answer \in {ScriptedPlan(req[q])} \cup ModelPlans(req[q])
  PROVE  answer \in Reply /\ answer.kind # "ask" /\ Bookable(answer, req[q].context)
<1>. DEFINE r == req[q]
<1>1. r.msg \in Message(Options) /\ r.context \in Offered
  BY DEF InProgress
<1>2. \A t \in {"search_flights", "search_hotels", "modify_booking"} :
        LET a == Tool(t, None) IN a \in Reply /\ a.kind # "ask" /\ Bookable(a, r.context)
  BY RepliesAre DEF Tools, Bookable
<1>3. Said \in Reply /\ Said.kind # "ask" /\ Bookable(Said, r.context)
  BY RepliesAre DEF Bookable
<1>4. CASE answer = ScriptedPlan(r)
  <2>1. CASE answer = Booking(Chosen(r.msg, r.context)) /\ Chosen(r.msg, r.context) # None
    <3>1. /\ Chosen(r.msg, r.context) \in Options
          /\ Chosen(r.msg, r.context) \in FlightIds => r.context.flights # <<>>
          /\ Chosen(r.msg, r.context) \notin FlightIds => r.context.hotels # <<>>
      BY <1>1, <2>1, ChosenIsOffered
    <3>2. /\ answer \in Reply /\ answer.kind = "tool" /\ answer.id = Chosen(r.msg, r.context)
          /\ answer.tool = IF answer.id \in FlightIds THEN "book_flight" ELSE "book_hotel"
      BY <2>1, <3>1, BookingIs
    <3>. QED BY <3>1, <3>2 DEF Bookable
  <2>2. CASE \/ answer = Tool("search_flights", None)
             \/ answer = Tool("search_hotels", None) \/ answer = Said
    BY <1>2, <1>3, <2>2
  <2>. QED BY <1>4, <2>1, <2>2 DEF ScriptedPlan
<1>5. CASE answer \in ModelPlans(r)
  <2>1. CASE answer = Said \/ answer \in {Tool(t, None) : t \in {"search_flights", "search_hotels", "modify_booking"}}
    BY <1>2, <1>3, <2>1
  <2>2. ASSUME NEW id \in Options, answer = Booking(id), Valid(answer, r.context)
        PROVE  answer \in Reply /\ answer.kind # "ask" /\ Bookable(answer, r.context)
    <3>1. answer.tool = "book_flight" => r.context.flights # <<>>
      BY <1>1, <2>2 DEF Valid, InSeq, Offered
    <3>2. answer.tool = "book_hotel" => r.context.hotels # <<>>
      BY <1>1, <2>2 DEF Valid, InSeq, Offered
    <3>. HIDE DEF r
    <3>. QED BY <2>2, <3>1, <3>2, BookingIs DEF Bookable
  <2>. QED BY <1>5, <2>1, <2>2 DEF ModelPlans
<1>. QED
  BY <1>4, <1>5

HistoriesWhole == \A t \in Tokens : history[t] # None => Whole(history[t])

\* The question that an answer would be taken for belongs to the page's leg.
QuestionOfTrack == page.awaiting => page.asked \in Questions(page.track)

IInv == TypeOK /\ RequestsSound /\ HistoriesWhole /\ QuestionOfTrack

(***************************************************************************)
(* What each operation does to its request.                                *)
(***************************************************************************)
LEMMA PageFacts ==
  ASSUME TypeOK
  PROVE  /\ page \in Page
         /\ page.token \in Tokens \cup {None} /\ page.awaiting \in BOOLEAN
         /\ page.asked \in Fields \cup {None} /\ page.track \in Tracks
         /\ page.offered \in Offered /\ page.suggested \subseteq Fields
         /\ page.shown \subseteq Options /\ page.sendable \in BOOLEAN
BY DEF TypeOK, Page

LEMMA SendEffect ==
  ASSUME IInv, NEW q \in Requests, NEW m \in Message(Options), NEW answering \in BOOLEAN,
         NEW answers \in Fields \cup {None}, Send(q, m, answering, answers),
         answers # None =>
            answering /\ Asks(page.track, answers) /\ m \in Suggestions(answers)
  PROVE  \E x \in InProgress :
            /\ Sound(x) /\ x.at = "sent" /\ x.token = page.token /\ x.context = page.offered
            /\ x.reply = Said
            /\ req' = [req EXCEPT ![q] = x]
<1>. DEFINE x == [at |-> "sent", token |-> page.token, msg |-> m,
                  answering |-> answering \/ page.awaiting, answers |-> answers,
                  track |-> page.track, context |-> page.offered, read |-> <<>>, reply |-> Said]
<1>1. page.token \in Tokens /\ page.awaiting \in BOOLEAN /\ page.track \in Tracks /\ page.offered \in Offered
  BY PageFacts DEF IInv, Send
<1>2. x \in InProgress
  <2>1. <<>> \in Seq(Entry)
    OBVIOUS
  <2>2. (answering \/ page.awaiting) \in BOOLEAN
    OBVIOUS
  <2>. QED BY <1>1, <2>1, <2>2, RepliesAre DEF InProgress
<1>3. /\ x.at = "sent" /\ x.token = page.token /\ x.context = page.offered /\ x.reply = Said
      /\ x.answers = answers /\ x.track = page.track /\ x.msg = m /\ (answering => x.answering)
  OBVIOUS
<1>4. req' = [req EXCEPT ![q] = x]
  BY DEF Send
<1>. HIDE DEF x
<1>5. Sound(x)
  BY <1>3, RepliesAre DEF Sound, Bookable
<1>. QED
  BY <1>2, <1>3, <1>4, <1>5

LEMMA UserSendsEffect ==
  ASSUME IInv, NEW q \in Requests, UserSends(q)
  PROVE  /\ page.token # None /\ req[q] = Idle /\ CountOverlap
         /\ turns' \in 0 .. MaxTurns
         /\ page' = [page EXCEPT !.sendable = FALSE]
         /\ UNCHANGED <<server, orders, found>>
         /\ \E x \in InProgress :
                /\ Sound(x) /\ x.at = "sent" /\ x.token = page.token /\ x.context = page.offered
                /\ x.reply = Said
                /\ req' = [req EXCEPT ![q] = x]
<1>0. ASSUME NEW m, NEW answering, NEW answers, Send(q, m, answering, answers)
      PROVE  /\ page.token # None /\ req[q] = Idle /\ CountOverlap
             /\ turns' \in 0 .. MaxTurns
             /\ page' = [page EXCEPT !.sendable = FALSE]
             /\ UNCHANGED <<server, orders, found>>
  BY <1>0, PlanAssumption DEF Send, IInv, TypeOK
<1>1. ASSUME NEW m \in Typed, Send(q, m, FALSE, None)
      PROVE  m \in Message(Options)
  BY <1>1, PlanAssumption
<1>2. ASSUME NEW m \in Starters
      PROVE  m \in Message(Options)
  <2>1. CASE m = [Blank EXCEPT !.mentions = {"trip"}]
    BY <2>1, BlankIsMessage DEF Message
  <2>2. CASE m = [Blank EXCEPT !.mentions = {"hotel"}, !.words = {"hotel"}]
    BY <2>2, BlankIsMessage DEF Message
  <2>3. CASE m = [Blank EXCEPT !.mentions = {"return", "flight"}, !.words = {"confirm", "return", "flight"}]
    BY <2>3, BlankIsMessage DEF Message
  <2>. QED BY <2>1, <2>2, <2>3 DEF Starters
<1>3. ASSUME NEW id \in page.shown
      PROVE  Selection(id) \in Message(Options)
  <2>1. id \in Options
    BY PageFacts DEF IInv
  <2>2. CASE id \in FlightIds
    BY <2>1, <2>2, BlankIsMessage DEF Selection, Message
  <2>3. CASE id \notin FlightIds
    <3>1. CityOf[id] \in Cities
      BY <2>1, <2>3, PlanAssumption DEF Options
    <3>. QED BY <2>1, <2>3, <3>1, BlankIsMessage DEF Selection, Message
  <2>. QED BY <2>2, <2>3
<1>4. CASE Type(q)
  <2>1. PICK m \in Typed : Send(q, m, FALSE, None)
    BY <1>4 DEF Type
  <2>. QED BY <2>1, <1>0, <1>1, SendEffect
<1>5. CASE ClickStarter(q)
  <2>1. PICK m \in Starters : Send(q, m, FALSE, None)
    BY <1>5 DEF ClickStarter
  <2>. QED BY <2>1, <1>0, <1>2, SendEffect
<1>6. CASE ClickSelect(q)
  <2>1. PICK id \in page.shown : Send(q, Selection(id), FALSE, None)
    BY <1>6 DEF ClickSelect
  <2>. QED BY <2>1, <1>0, <1>3, SendEffect
<1>7. CASE ClickAnswer(q)
  <2>. DEFINE answers(f) == IF page.awaiting /\ f = page.asked THEN f ELSE None
  <2>1. PICK f \in page.suggested : \E m \in Suggestions(f) : Send(q, m, TRUE, answers(f))
    BY <1>7 DEF ClickAnswer
  <2>2. PICK m \in Suggestions(f) : Send(q, m, TRUE, answers(f))
    BY <2>1
  <2>3. f \in Fields
    BY PageFacts DEF IInv
  <2>4. m \in Message(Options)
    BY <2>3, SuggestionsAreMessages
  <2>5. answers(f) \in Fields \cup {None}
    BY <2>3
  <2>6. answers(f) # None => Asks(page.track, answers(f)) /\ m \in Suggestions(answers(f))
    BY PageFacts DEF IInv, QuestionOfTrack, Asks
  <2>. HIDE DEF answers
  <2>. QED BY <2>2, <2>4, <2>5, <2>6, <1>0, SendEffect
<1>. QED
  BY <1>4, <1>5, <1>6, <1>7 DEF UserSends

LEMMA ReadIsWhole ==
  ASSUME IInv, NEW t \in Tokens
  PROVE  Read(t) \in Seq(Entry) /\ Whole(Read(t))
<1>1. history[t] \in Seq(Entry) \cup {None} /\ (history[t] # None => Whole(history[t]))
  BY DEF IInv, TypeOK, HistoriesWhole
<1>2. <<>> \in Seq(Entry)
  OBVIOUS
<1>. QED
  BY <1>1, <1>2, NothingIsWhole DEF Read

\* What was read, and one exchange more, becomes the history.
WritesExchange(t, read) ==
    \E u \in Sayings, a \in Answers :
        history' = [history EXCEPT ![t] = Latest(read \o <<u, a>>)]

LEMMA RecordTurnEffect ==
  ASSUME IInv, NEW r \in InProgress, NEW read \in Seq(Entry), Whole(read), RecordTurn(r, read)
  PROVE  /\ history' \in [Tokens -> Seq(Entry) \cup {None}] /\ HistoriesWhole'
         /\ history'[r.token] \in Seq(Entry) /\ r.token \in Tokens
         /\ \A t \in Tokens \ {r.token} : history'[t] = history[t]
         /\ WritesExchange(r.token, read)
<1>. DEFINE u == [role |-> "user", words |-> r.msg.words]
            a == [role |-> "assistant", words |-> {}]
            l == Latest(read \o <<u, a>>)
<1>1. u \in Sayings /\ a \in Answers /\ r.token \in Tokens
  <2>1. r.msg.words \in SUBSET {"confirm", "return", "hotel", "flight", "place"} /\ r.token \in Tokens
    BY DEF InProgress, Message
  <2>. QED BY <2>1 DEF Sayings, Answers
<1>2. history' = [history EXCEPT ![r.token] = l]
  BY DEF RecordTurn
<1>. HIDE DEF u, a
<1>3. l \in Seq(Entry) /\ Whole(l)
  BY <1>1, LatestIsWhole
<1>. HIDE DEF l
<1>4. history' \in [Tokens -> Seq(Entry) \cup {None}]
  BY <1>1, <1>2, <1>3 DEF IInv, TypeOK
<1>5. /\ history'[r.token] = l
      /\ \A t \in Tokens \ {r.token} : history'[t] = history[t]
  BY <1>1, <1>2 DEF IInv, TypeOK
<1>6. HistoriesWhole'
  <2>1. ASSUME NEW t \in Tokens, history'[t] # None
        PROVE  Whole(history'[t])
    BY <1>3, <1>5, <2>1 DEF IInv, HistoriesWhole
  <2>. QED BY <2>1 DEF HistoriesWhole, Whole
<1>7. WritesExchange(r.token, read)
  BY <1>1, <1>2 DEF WritesExchange, l
<1>. QED
  BY <1>1, <1>3, <1>4, <1>5, <1>6, <1>7

LEMMA UnauthorizedEffect ==
  ASSUME IInv, NEW q \in Requests, Unauthorized(q)
  PROVE  \E x \in InProgress :
            /\ Sound(x) /\ SameRequest(x, req[q]) /\ x.at = "replied" /\ x.reply = Failure
            /\ req' = [req EXCEPT ![q] = x]
<1>1. req[q] # Idle
  BY AtSomeStep DEF IInv, Unauthorized
<1>. QED
  BY <1>1, AnswersSoundly, RepliesAre DEF IInv, Unauthorized, Bookable

\* What the engine asks is not known yet, so that it is not what the message
\* just answered.
LEMMA AsksAnother ==
  ASSUME NEW r \in InProgress, Sound(r), NEW p \in Profile,
         NEW track, track = ResolveTrack(r.msg, r.answering, r.track),
         NEW next, next = ExtractSlots(r.msg, p, track = "return"), next.destination # Home,
         NEW field, field = NextQuestion(next, track), field # None
  PROVE  field # r.answers
<1>. SUFFICES ASSUME field = r.answers PROVE FALSE
  OBVIOUS
<1>1. r.answering /\ r.track \in Tracks /\ field \in Questions(r.track) /\ r.msg \in Suggestions(field)
  BY DEF Sound, Asks
<1>2. field \in Fields /\ r.answering = TRUE
  BY <1>1, QuestionsAreFields DEF InProgress
<1>3. track = r.track
  BY <1>1, <1>2, SuggestionStaysOnTrack
<1>4. next = ExtractSlots(r.msg, p, r.track = "return") /\ field = NextQuestion(next, r.track)
  BY <1>3
<1>5. Filled(next, field)
  <2>. DEFINE known == ExtractSlots(r.msg, p, r.track = "return")
  <2>1. known.destination # Home /\ r.track \in Tracks /\ field \in Questions(r.track)
        /\ r.msg \in Suggestions(field)
    BY <1>1, <1>4
  <2>2. Filled(known, field)
    BY <2>1, SuggestionFills
  <2>. QED BY <1>4, <2>2
<1>6. ~Filled(next, field)
  BY <1>1, <1>4, QuestionIsOpen
<1>. QED
  BY <1>5, <1>6

\* Up to its first await, a request takes in what the message reveals; then it
\* has recorded its exchange, or it awaits the model with the history it read.
LEMMA GatherEffect ==
  ASSUME IInv, NEW q \in Requests, Gather(q)
  PROVE  /\ req[q] \in InProgress /\ req[q].at = "sent" /\ req[q].token \in Live
         /\ UNCHANGED <<sessions, page, ghosts>>
         /\ \E p \in Profile, x \in InProgress :
            /\ profiles' = [profiles EXCEPT ![req[q].token] = p]
            /\ req' = [req EXCEPT ![q] = x]
            /\ Sound(x) /\ SameRequest(x, req[q])
            /\ x.reply.kind = "ask" /\ p.destination # Home => x.reply.field # x.answers
            /\ \/ /\ x.at \in {"phrasing", "planning"} /\ x.read = Read(req[q].token)
                  /\ UNCHANGED history
               \/ x.at = "replied" /\ RecordTurn(req[q], Read(req[q].token))
<1>. DEFINE r == req[q]
            track == ResolveTrack(r.msg, r.answering, r.track)
            p == ExtractSlots(r.msg, profiles[r.token], track = "return")
            field == NextQuestion(p, track)
            answer == [Said EXCEPT !.kind = "ask", !.track = track, !.field = field]
            found_ == [Tool(IF track = "hotel" THEN "search_hotels" ELSE "search_flights", None)
                         EXCEPT !.track = track]
<1>1. /\ r # Idle /\ r \in InProgress /\ r.at = "sent" /\ r.token \in Live
      /\ UNCHANGED <<sessions, page, ghosts>>
  BY AtSomeStep DEF IInv, Gather
<1>2. /\ r.token \in Tokens /\ r.msg \in Message(Options) /\ r.answering \in BOOLEAN /\ r.track \in Tracks
      /\ Sound(r)
  BY <1>1 DEF InProgress, IInv, RequestsSound
<1>3. track \in Tracks
  BY <1>2 DEF ResolveTrack, Tracks
<1>4. profiles[r.token] \in Profile /\ p \in Profile
  <2>1. profiles[r.token] \in Profile
    BY <1>2 DEF IInv, TypeOK
  <2>. HIDE DEF r, track
  <2>. QED BY <1>2, <2>1, SlotsAreProfile
<1>5. profiles' = [profiles EXCEPT ![r.token] = p]
  BY DEF Gather
<1>6. IF ~SearchIntent(r, track) THEN AwaitPlan(q)
      ELSE IF field # None THEN Ask(q, track, field) ELSE Search(q, track)
  BY DEF Gather
<1>7. Read(r.token) \in Seq(Entry) /\ Whole(Read(r.token))
  BY <1>2, ReadIsWhole
<1>8. r.reply = Said
  BY <1>1, <1>2 DEF Sound
<1>9. field # None => field \in Questions(track) /\ (p.destination # Home => field # r.answers)
  <2>. HIDE DEF r
  <2>. SUFFICES ASSUME field # None
                PROVE  field \in Questions(track) /\ (p.destination # Home => field # r.answers)
    OBVIOUS
  <2>1. field \in Questions(track)
    BY <1>3, QuestionIsOpen
  <2>2. p.destination # Home => field # r.answers
    BY <1>1, <1>2, <1>4, AsksAnother
  <2>. QED BY <2>1, <2>2
<1>10. field # None => /\ answer \in Reply /\ answer.id = None /\ answer.kind = "ask"
                       /\ answer.track = track /\ answer.field = field
                       /\ Asks(track, field) /\ Bookable(answer, r.context)
  <2>1. field # None => field \in Fields
    BY <1>3, <1>9, QuestionsAreFields
  <2>. HIDE DEF track, field
  <2>. QED BY <1>3, <1>9, <2>1 DEF Said, Reply, Asks, Bookable
<1>11. found_ \in Reply /\ found_.kind = "tool" /\ found_.id = None /\ Bookable(found_, r.context)
  <2>. HIDE DEF track
  <2>. QED BY <1>3 DEF Tool, Said, Reply, Tools, Bookable
<1>. HIDE DEF track, p, field, answer, found_
<1>12. CASE AwaitPlan(q)
  <2>1. req' = [req EXCEPT ![q] = [req[q] EXCEPT !.at = "planning", !.read = Read(r.token), !.reply = Said]]
    <3>1. [req[q] EXCEPT !.at = "planning", !.read = Read(r.token)]
            = [req[q] EXCEPT !.at = "planning", !.read = Read(r.token), !.reply = Said]
      BY <1>1, <1>8 DEF InProgress
    <3>. QED BY <1>12, <3>1 DEF AwaitPlan
  <2>2. UNCHANGED history
    BY <1>12 DEF AwaitPlan
  <2>3. \E x \in InProgress :
            /\ Sound(x) /\ SameRequest(x, req[q])
            /\ x.at = "planning" /\ x.read = Read(r.token) /\ x.reply = Said
            /\ req' = [req EXCEPT ![q] = x]
    <3>. DEFINE read == Read(r.token)
            x == Awaiting(r, "planning", read, Said)
    <3>1. read \in Seq(Entry) /\ Whole(read) /\ Said.kind # "ask" /\ Said \in Reply /\ Said.id = None
      BY <1>7, RepliesAre
    <3>2. req' = [req EXCEPT ![q] = x]
      BY <2>1 DEF Awaiting
    <3>. HIDE DEF read, r
    <3>4. x = Awaiting(r, "planning", read, Said)
      OBVIOUS
    <3>. HIDE DEF x
    <3>3. /\ x \in InProgress /\ Sound(x) /\ SameRequest(x, r)
         /\ x.at = "planning" /\ x.read = read /\ x.reply = Said
      BY <1>1, <1>2, <3>1, <3>4, AwaitsSoundly
    <3>. QED BY <3>2, <3>3 DEF read, r
  <2>. QED BY <1>1, <1>4, <1>5, <2>2, <2>3, RepliesAre
<1>13. CASE field # None /\ Ask(q, track, field)
  <2>1. CASE RecordTurn(req[q], Read(req[q].token)) /\ Answer(q, answer)
    <3>1. \E x \in InProgress :
            /\ Sound(x) /\ SameRequest(x, req[q])
            /\ x.at = "replied" /\ x.reply = answer
            /\ req' = [req EXCEPT ![q] = x]
      BY <1>1, <1>10, <1>13, <2>1, AnswersSoundly DEF IInv
    <3>2. p.destination # Home => answer.field # r.answers
      BY <1>9, <1>10, <1>13
    <3>. QED BY <1>1, <1>4, <1>5, <2>1, <3>1, <3>2 DEF SameRequest
  <2>2. CASE /\ req' = [req EXCEPT ![q].at = "phrasing", ![q].read = Read(req[q].token), ![q].reply = answer]
             /\ UNCHANGED history
    <3>0. req' = [req EXCEPT ![q] = [req[q] EXCEPT !.at = "phrasing", !.read = Read(r.token), !.reply = answer]]
      BY <2>2
    <3>1. \E x \in InProgress :
            /\ Sound(x) /\ SameRequest(x, req[q])
            /\ x.at = "phrasing" /\ x.read = Read(r.token) /\ x.reply = answer
            /\ req' = [req EXCEPT ![q] = x]
      <4>. DEFINE read == Read(r.token)
              x == Awaiting(r, "phrasing", read, answer)
      <4>1. /\ read \in Seq(Entry) /\ Whole(read)
           /\ answer \in Reply /\ answer.id = None /\ Asks(answer.track, answer.field) /\ answer.field # None
        BY <1>7, <1>10, <1>13
      <4>2. req' = [req EXCEPT ![q] = x]
        BY <3>0 DEF Awaiting
      <4>. HIDE DEF read, r
      <4>4. x = Awaiting(r, "phrasing", read, answer)
        OBVIOUS
      <4>. HIDE DEF x
      <4>3. /\ x \in InProgress /\ Sound(x) /\ SameRequest(x, r)
           /\ x.at = "phrasing" /\ x.read = read /\ x.reply = answer
        BY <1>1, <1>2, <4>1, <4>4, AwaitsSoundly
      <4>. QED BY <4>2, <4>3 DEF read, r
    <3>2. p.destination # Home => answer.field # r.answers
      BY <1>9, <1>10, <1>13
    <3>. QED BY <1>1, <1>4, <1>5, <2>2, <3>1, <3>2 DEF SameRequest
  <2>. QED BY <1>13, <2>1, <2>2 DEF Ask, answer
<1>14. CASE Search(q, track)
  <2>1. RecordTurn(req[q], Read(req[q].token)) /\ Answer(q, found_)
    BY <1>14 DEF Search, found_
  <2>2. \E x \in InProgress :
            /\ Sound(x) /\ SameRequest(x, req[q])
            /\ x.at = "replied" /\ x.reply = found_
            /\ req' = [req EXCEPT ![q] = x]
    BY <1>1, <1>11, <2>1, AnswersSoundly DEF IInv
  <2>. QED BY <1>1, <1>4, <1>5, <1>11, <2>1, <2>2
<1>. QED
  BY <1>6, <1>12, <1>13, <1>14

\* The model has answered, or the timer fired: what was asked is still asked.
LEMMA PhrasedEffect ==
  ASSUME IInv, NEW q \in Requests, Phrased(q)
  PROVE  /\ req[q] \in InProgress /\ req[q].at = "phrasing"
         /\ req[q].read \in Seq(Entry) /\ Whole(req[q].read)
         /\ RecordTurn(req[q], req[q].read)
         /\ UNCHANGED <<sessions, profiles, page, ghosts>>
         /\ \E x \in InProgress :
            /\ Sound(x) /\ SameRequest(x, req[q]) /\ x.at = "replied" /\ x.reply = req[q].reply
            /\ req' = [req EXCEPT ![q] = x]
<1>1. /\ req[q] # Idle /\ req[q] \in InProgress /\ req[q].at = "phrasing"
      /\ RecordTurn(req[q], req[q].read) /\ UNCHANGED <<sessions, profiles, page, ghosts>>
  BY AtSomeStep DEF IInv, Phrased
<1>2. Sound(req[q])
  BY <1>1 DEF IInv, RequestsSound
<1>3. /\ req[q].read \in Seq(Entry) /\ Whole(req[q].read) /\ req[q].reply \in Reply
      /\ Bookable(req[q].reply, req[q].context)
      /\ req[q].reply.kind = "ask" =>
            Asks(req[q].reply.track, req[q].reply.field) /\ req[q].reply.field # None
  BY <1>1, <1>2 DEF InProgress, Sound
<1>4. TypeOK /\ RequestsSound /\ Answer(q, req[q].reply)
  BY DEF IInv, Phrased
<1>. QED
  BY <1>1, <1>3, <1>4, AnswersSoundly

LEMMA PlannedEffect ==
  ASSUME IInv, NEW q \in Requests, Planned(q)
  PROVE  /\ req[q] \in InProgress /\ req[q].at = "planning"
         /\ req[q].read \in Seq(Entry) /\ Whole(req[q].read)
         /\ RecordTurn(req[q], req[q].read)
         /\ UNCHANGED <<sessions, profiles, page, ghosts>>
         /\ \E x \in InProgress :
            /\ Sound(x) /\ SameRequest(x, req[q]) /\ x.at = "replied" /\ x.reply.kind # "ask"
            /\ req' = [req EXCEPT ![q] = x]
<1>1. /\ req[q] # Idle /\ req[q] \in InProgress /\ req[q].at = "planning"
      /\ RecordTurn(req[q], req[q].read) /\ UNCHANGED <<sessions, profiles, page, ghosts>>
  BY AtSomeStep DEF IInv, Planned
<1>2. req[q].read \in Seq(Entry) /\ Whole(req[q].read)
  BY <1>1 DEF InProgress, Sound, IInv, RequestsSound
<1>3. PICK answer \in {ScriptedPlan(req[q])} \cup ModelPlans(req[q]) : Answer(q, answer)
  BY DEF Planned
<1>4. answer \in Reply /\ answer.kind # "ask" /\ Bookable(answer, req[q].context)
  BY <1>1, PlansAreBookable DEF IInv
<1>5. TypeOK /\ RequestsSound
  BY DEF IInv
<1>. QED
  BY <1>1, <1>2, <1>3, <1>4, <1>5, AnswersSoundly

\* The page has its answer; it searches, or is done with the message.
LEMMA SearchingEffect ==
  ASSUME IInv, NEW q \in Requests, req[q].at = "replied",
         req' = [req EXCEPT ![q].at = "searching"]
  PROVE  \E x \in InProgress :
            /\ Sound(x) /\ SameRequest(x, req[q]) /\ x.at = "searching" /\ x.reply = req[q].reply
            /\ req' = [req EXCEPT ![q] = x]
<1>. DEFINE x == [req[q] EXCEPT !.at = "searching"]
<1>1. req[q] # Idle /\ req[q] \in InProgress /\ Sound(req[q])
  BY AtSomeStep DEF IInv, RequestsSound
<1>2. x \in InProgress
  BY <1>1 DEF InProgress
<1>3. x.at = "searching" /\ x.reply = req[q].reply /\ SameRequest(x, req[q])
  BY <1>1 DEF InProgress, SameRequest
<1>4. req' = [req EXCEPT ![q] = x]
  OBVIOUS
<1>. HIDE DEF x
<1>5. Sound(x)
  BY <1>1, <1>3 DEF Sound, SameRequest
<1>. QED
  BY <1>2, <1>3, <1>4, <1>5

LEMMA ReceivesFacts ==
  ASSUME IInv, NEW q \in Requests, NEW kind, Receives(q, kind)
  PROVE  /\ req[q] # Idle /\ req[q] \in InProgress /\ Sound(req[q])
         /\ req[q].at = "replied" /\ req[q].token = page.token
         /\ req[q].reply \in Reply /\ req[q].reply.kind = kind
         /\ req[q].context \in Offered
<1>1. req[q] # Idle /\ req[q] \in InProgress /\ Sound(req[q])
  BY AtSomeStep DEF IInv, RequestsSound, Receives
<1>. QED
  BY <1>1 DEF Receives, InProgress

(***************************************************************************)
(* Types, whole histories, and the page's question.                        *)
(***************************************************************************)
\* The bookkeeping that most steps leave alone.
Rest == <<sessions, page, ghosts>>

LEMMA ServedKeepsIInv ==
  ASSUME IInv, UNCHANGED Rest,
         req' \in [Requests -> InProgress \cup {Idle}], RequestsSound',
         profiles' \in [Tokens -> Profile],
         history' \in [Tokens -> Seq(Entry) \cup {None}], HistoriesWhole'
  PROVE  IInv'
BY DEF IInv, TypeOK, Rest, ghosts, QuestionOfTrack

LEMMA ReceivedKeepsIInv ==
  ASSUME IInv, UNCHANGED server, UNCHANGED <<turns, overlaps>>,
         req' \in [Requests -> InProgress \cup {Idle}], RequestsSound',
         page' \in Page, QuestionOfTrack',
         orders' \in Seq([id : Options, told : BOOLEAN]),
         found' \in [{"flights", "hotels"} -> Nat]
  PROVE  IInv'
<1>1. TypeOK'
  BY DEF IInv, TypeOK, server
<1>2. HistoriesWhole'
  BY DEF IInv, HistoriesWhole, Whole, server
<1>. QED
  BY <1>1, <1>2 DEF IInv

LEMMA CountOverlapType ==
  ASSUME TypeOK, CountOverlap
  PROVE  overlaps' \in 0 .. MaxOverlaps
BY PlanAssumption DEF TypeOK, CountOverlap

LEMMA NewPageType ==
  ASSUME NEW t \in Tokens \cup {None}
  PROVE  NewPage(t) \in Page /\ NewPage(t).token = t /\ NewPage(t).awaiting = FALSE
         /\ NewPage(t).offered = Nothing
<1>1. Nothing \in Offered
  <2>1. <<>> \in Seq(FlightIds) /\ <<>> \in Seq(HotelIds)
    OBVIOUS
  <2>. QED BY <2>1 DEF Nothing, Offered
<1>. QED
  BY <1>1 DEF NewPage, Page, Tracks

LEMMA InitIInv == Init => IInv
<1>. SUFFICES ASSUME Init PROVE IInv
  OBVIOUS
<1>1. Unknown \in Profile /\ <<>> \in Seq([id : Options, told : BOOLEAN])
  BY DEF Unknown, Profile
<1>2. page \in Page /\ page.awaiting = FALSE
  BY NewPageType DEF Init
<1>3. 0 \in 0 .. MaxTurns /\ 0 \in 0 .. MaxOverlaps
  BY PlanAssumption
<1>4. [flights |-> 0, hotels |-> 0] \in [{"flights", "hotels"} -> Nat]
  OBVIOUS
<1>5. TypeOK
  BY <1>1, <1>2, <1>3, <1>4 DEF Init, TypeOK
<1>. QED
  BY <1>2, <1>5 DEF IInv, Init, RequestsSound, HistoriesWhole, QuestionOfTrack

LEMMA LoginKeepsIInv ==
  ASSUME IInv, NEW t \in Tokens, Login(t)
  PROVE  IInv'
<1>1. page' \in Page /\ page'.awaiting = FALSE
  BY NewPageType DEF Login
<1>2. history' \in [Tokens -> Seq(Entry) \cup {None}]
  <2>1. <<>> \in Seq(Entry)
    OBVIOUS
  <2>. QED BY <2>1 DEF IInv, TypeOK, Login
<1>3. TypeOK'
  BY <1>1, <1>2 DEF IInv, TypeOK, Login, ghosts
<1>4. HistoriesWhole'
  <2>1. ASSUME NEW s \in Tokens, history'[s] # None
        PROVE  Whole(history'[s])
    BY <2>1, NothingIsWhole DEF IInv, TypeOK, HistoriesWhole, Login
  <2>. QED BY <2>1 DEF HistoriesWhole, Whole
<1>5. RequestsSound'
  BY DEF IInv, RequestsSound, Sound, Login
<1>. QED
  BY <1>1, <1>3, <1>4, <1>5 DEF IInv, QuestionOfTrack

LEMMA LogoutKeepsIInv ==
  ASSUME IInv, NEW t \in Tokens, Logout(t)
  PROVE  IInv'
<1>1. history' \in [Tokens -> Seq(Entry) \cup {None}]
  BY DEF IInv, TypeOK, Logout
<1>2. TypeOK'
  BY <1>1, CountOverlapType DEF IInv, TypeOK, Logout
<1>3. HistoriesWhole'
  <2>1. ASSUME NEW s \in Tokens, history'[s] # None
        PROVE  Whole(history'[s])
    BY <2>1 DEF IInv, TypeOK, HistoriesWhole, Logout
  <2>. QED BY <2>1 DEF HistoriesWhole, Whole
<1>4. RequestsSound'
  BY DEF IInv, RequestsSound, Sound, Logout
<1>. QED
  BY <1>2, <1>3, <1>4 DEF IInv, QuestionOfTrack, Logout

LEMMA UserSendsKeepsIInv ==
  ASSUME IInv, NEW q \in Requests, UserSends(q)
  PROVE  IInv'
<1>1. /\ CountOverlap /\ turns' \in 0 .. MaxTurns
      /\ page' = [page EXCEPT !.sendable = FALSE]
      /\ UNCHANGED <<server, orders, found>>
  BY UserSendsEffect
<1>2. PICK x \in InProgress : Sound(x) /\ req' = [req EXCEPT ![q] = x]
  BY UserSendsEffect
<1>3. req' \in [Requests -> InProgress \cup {Idle}] /\ RequestsSound'
  BY <1>2, RequestGoes DEF IInv
<1>4. page' \in Page /\ page'.awaiting = page.awaiting /\ page'.asked = page.asked /\ page'.track = page.track
  BY <1>1, PageFacts DEF IInv, Page
<1>5. TypeOK'
  BY <1>1, <1>3, <1>4, CountOverlapType DEF IInv, TypeOK, server
<1>6. HistoriesWhole'
  BY <1>1 DEF IInv, HistoriesWhole, Whole, server
<1>. QED
  BY <1>3, <1>4, <1>5, <1>6 DEF IInv, QuestionOfTrack

LEMMA UnauthorizedKeepsIInv ==
  ASSUME IInv, NEW q \in Requests, Unauthorized(q)
  PROVE  IInv'
<1>1. PICK x \in InProgress : Sound(x) /\ req' = [req EXCEPT ![q] = x]
  BY UnauthorizedEffect
<1>2. req' \in [Requests -> InProgress \cup {Idle}] /\ RequestsSound'
  BY <1>1, RequestGoes DEF IInv
<1>3. UNCHANGED Rest /\ UNCHANGED <<profiles, history>>
  BY DEF Unauthorized, Rest, server
<1>4. HistoriesWhole'
  BY <1>3 DEF IInv, HistoriesWhole, Whole
<1>5. profiles' \in [Tokens -> Profile] /\ history' \in [Tokens -> Seq(Entry) \cup {None}]
  BY <1>3 DEF IInv, TypeOK
<1>. QED
  BY <1>2, <1>3, <1>4, <1>5, ServedKeepsIInv

LEMMA GatherKeepsIInv ==
  ASSUME IInv, NEW q \in Requests, Gather(q)
  PROVE  IInv'
<1>1. PICK p \in Profile, x \in InProgress :
            /\ profiles' = [profiles EXCEPT ![req[q].token] = p]
            /\ req' = [req EXCEPT ![q] = x]
            /\ Sound(x)
            /\ \/ UNCHANGED history
               \/ RecordTurn(req[q], Read(req[q].token))
  BY GatherEffect
<1>2. req[q] \in InProgress /\ req[q].token \in Tokens /\ UNCHANGED Rest
  BY GatherEffect DEF InProgress, Rest
<1>3. req' \in [Requests -> InProgress \cup {Idle}] /\ RequestsSound'
  BY <1>1, RequestGoes DEF IInv
<1>4. profiles' \in [Tokens -> Profile]
  BY <1>1, <1>2 DEF IInv, TypeOK
<1>5. history' \in [Tokens -> Seq(Entry) \cup {None}] /\ HistoriesWhole'
  <2>1. CASE UNCHANGED history
    BY <2>1 DEF IInv, TypeOK, HistoriesWhole, Whole
  <2>2. CASE RecordTurn(req[q], Read(req[q].token))
    <3>1. Read(req[q].token) \in Seq(Entry) /\ Whole(Read(req[q].token))
      BY <1>2, ReadIsWhole
    <3>. QED BY <1>2, <2>2, <3>1, RecordTurnEffect
  <2>. QED BY <1>1, <2>1, <2>2
<1>. QED
  BY <1>2, <1>3, <1>4, <1>5, ServedKeepsIInv

LEMMA AnsweredKeepsIInv ==
  ASSUME IInv, NEW q \in Requests, Phrased(q) \/ Planned(q)
  PROVE  IInv'
<1>1. /\ req[q] \in InProgress /\ req[q].read \in Seq(Entry) /\ Whole(req[q].read)
      /\ RecordTurn(req[q], req[q].read) /\ UNCHANGED Rest /\ UNCHANGED profiles
  BY PhrasedEffect, PlannedEffect DEF Rest
<1>2. PICK x \in InProgress : Sound(x) /\ req' = [req EXCEPT ![q] = x]
  BY PhrasedEffect, PlannedEffect
<1>3. req' \in [Requests -> InProgress \cup {Idle}] /\ RequestsSound'
  BY <1>2, RequestGoes DEF IInv
<1>4. history' \in [Tokens -> Seq(Entry) \cup {None}] /\ HistoriesWhole'
  BY <1>1, RecordTurnEffect
<1>5. profiles' \in [Tokens -> Profile]
  BY <1>1 DEF IInv, TypeOK
<1>. QED
  BY <1>1, <1>3, <1>4, <1>5, ServedKeepsIInv

LEMMA ReceiveQuestionKeepsIInv ==
  ASSUME IInv, NEW q \in Requests, ReceiveQuestion(q)
  PROVE  IInv'
<1>. DEFINE a == req[q].reply
<1>1. Receives(q, "ask") /\ Done(q) /\ UNCHANGED <<server, ghosts>>
  BY DEF ReceiveQuestion
<1>2. a.track \in Tracks /\ a.field \in Questions(a.track) /\ a.field \in Fields
  BY <1>1, ReceivesFacts, QuestionsAreFields DEF Sound, Asks
<1>3. page' = [page EXCEPT !.awaiting = TRUE, !.asked = a.field, !.track = a.track,
                           !.suggested = @ \cup {a.field}, !.sendable = TRUE]
  BY DEF ReceiveQuestion
<1>. HIDE DEF a
<1>4. page' \in Page /\ page'.asked = a.field /\ page'.track = a.track
  BY <1>2, <1>3, PageFacts DEF IInv, Page
<1>5. QuestionOfTrack'
  BY <1>2, <1>4 DEF QuestionOfTrack, Questions
<1>6. req' \in [Requests -> InProgress \cup {Idle}] /\ RequestsSound'
  BY <1>1, RequestEnds DEF IInv
<1>. QED
  BY <1>1, <1>4, <1>5, <1>6, ReceivedKeepsIInv DEF ghosts, IInv, TypeOK

\* The page shows no question any more.
LEMMA PageMovesOn ==
  ASSUME IInv, NEW awaiting \in BOOLEAN, NEW track \in Tracks, NEW offered \in Offered,
         NEW shown \in SUBSET Options, NEW sendable \in BOOLEAN,
         awaiting => page.awaiting /\ track = page.track,
         page' = [page EXCEPT !.awaiting = awaiting, !.track = track, !.offered = offered,
                              !.shown = shown, !.sendable = sendable]
  PROVE  page' \in Page /\ QuestionOfTrack'
<1>1. /\ page' \in Page /\ page'.awaiting = awaiting /\ page'.track = track
      /\ page'.asked = page.asked
  BY PageFacts DEF IInv, Page
<1>. QED
  BY <1>1 DEF IInv, QuestionOfTrack, Questions

LEMMA WithdrawnIs ==
  ASSUME NEW offered \in Offered, NEW tool
  PROVE  /\ Withdrawn(offered, tool) \in Offered
         /\ Withdrawn(offered, tool).flights = IF tool = "book_flight" THEN <<>> ELSE offered.flights
         /\ Withdrawn(offered, tool).hotels = IF tool = "book_hotel" THEN <<>> ELSE offered.hotels
<1>1. <<>> \in Seq(FlightIds) /\ <<>> \in Seq(HotelIds)
  OBVIOUS
<1>. QED
  BY <1>1 DEF Withdrawn, Offered

LEMMA ReceiveToolEffect ==
  ASSUME IInv, NEW q \in Requests, ReceiveTool(q)
  PROVE  /\ Receives(q, "tool")
         /\ UNCHANGED <<server, turns, found, overlaps>>
         /\ page' \in Page /\ QuestionOfTrack'
         /\ page'.token = page.token
         /\ page'.offered = Withdrawn(page.offered, req[q].reply.tool)
         /\ orders' \in Seq([id : Options, told : BOOLEAN])
         /\ \/ req[q].reply.id = None /\ orders' = orders
            \/ /\ req[q].reply.id \in Options
               /\ \E told \in BOOLEAN : orders' = Append(orders, [id |-> req[q].reply.id, told |-> told])
         /\ \/ Done(q)
            \/ \E x \in InProgress :
                /\ Sound(x) /\ SameRequest(x, req[q]) /\ x.at = "searching" /\ x.reply = req[q].reply
                /\ req' = [req EXCEPT ![q] = x]
<1>. DEFINE r == req[q]
            a == r.reply
            searches == a.tool \in {"search_flights", "search_hotels"}
            track == IF a.tool = "search_hotels" THEN "hotel" ELSE FirstOf(a.track, page.track)
            offered == Withdrawn(page.offered, a.tool)
<1>1. Receives(q, "tool") /\ UNCHANGED <<server, turns, found, overlaps>>
  BY DEF ReceiveTool
<1>2. /\ r \in InProgress /\ a \in Reply /\ r.at = "replied" /\ r.token = page.token
      /\ a.id \in Options \cup {None} /\ a.track \in Tracks \cup {None}
      /\ r.msg \in Message(Options)
  BY <1>1, ReceivesFacts DEF Reply, InProgress
<1>3. track \in Tracks
  BY <1>2, PageFacts DEF IInv, FirstOf, Tracks
<1>4. offered \in Offered
  BY PageFacts, WithdrawnIs DEF IInv
<1>5. page' = [page EXCEPT !.awaiting = FALSE, !.track = track, !.offered = offered, !.sendable = ~searches]
  BY DEF ReceiveTool
<1>6. IF searches THEN req' = [req EXCEPT ![q].at = "searching"] ELSE Done(q)
  BY DEF ReceiveTool
<1>7. orders' = IF a.id # None THEN Append(orders, [id |-> a.id, told |-> ToldToBook(r, a.id)]) ELSE orders
  BY DEF ReceiveTool
<1>8. ToldToBook(r, a.id) \in BOOLEAN
  <2>1. CASE r.msg.names # None
    <3>1. ToldToBook(r, a.id) = (r.msg.names = a.id)
      BY <2>1 DEF ToldToBook
    <3>. QED BY <3>1
  <2>2. CASE r.msg.names = None
    <3>1. ToldToBook(r, a.id) = ("confirm" \in r.msg.words)
      BY <2>2 DEF ToldToBook
    <3>. QED BY <3>1
  <2>. QED BY <2>1, <2>2
<1>9. searches \in BOOLEAN
  OBVIOUS
<1>. HIDE DEF r, a, searches, track, offered
<1>10. page' \in Page /\ page'.awaiting = FALSE /\ page'.token = page.token /\ page'.offered = offered
  BY <1>3, <1>4, <1>5, <1>9, PageFacts DEF IInv, Page
<1>11. QuestionOfTrack'
  BY <1>10 DEF QuestionOfTrack
<1>12. orders \in Seq([id : Options, told : BOOLEAN])
  BY DEF IInv, TypeOK
<1>13. CASE a.id = None
  BY <1>1, <1>6, <1>2, <1>7, <1>10, <1>11, <1>12, <1>13, SearchingEffect DEF a, r, offered
<1>14. CASE a.id # None
  <2>1. a.id \in Options
    BY <1>2, <1>14
  <2>. DEFINE o == [id |-> a.id, told |-> ToldToBook(r, a.id)]
  <2>2. o \in [id : Options, told : BOOLEAN]
    BY <1>8, <2>1
  <2>3. orders' = Append(orders, o)
    BY <1>7, <1>14
  <2>4. orders' \in Seq([id : Options, told : BOOLEAN])
    BY <1>12, <2>2, <2>3, AppendProperties
  <2>5. \E told \in BOOLEAN : orders' = Append(orders, [id |-> a.id, told |-> told])
    BY <1>8, <2>3
  <2>. QED BY <1>1, <1>2, <1>6, <1>10, <1>11, <2>1, <2>4, <2>5, SearchingEffect DEF a, r, offered
<1>. QED
  BY <1>13, <1>14

LEMMA ReceiveToolKeepsIInv ==
  ASSUME IInv, NEW q \in Requests, ReceiveTool(q)
  PROVE  IInv'
<1>1. /\ UNCHANGED <<server, turns, found, overlaps>> /\ page' \in Page /\ QuestionOfTrack'
      /\ orders' \in Seq([id : Options, told : BOOLEAN])
      /\ Done(q) \/ \E x \in InProgress : Sound(x) /\ req' = [req EXCEPT ![q] = x]
  BY ReceiveToolEffect
<1>2. req' \in [Requests -> InProgress \cup {Idle}] /\ RequestsSound'
  BY <1>1, RequestGoes, RequestEnds DEF IInv
<1>. QED
  BY <1>1, <1>2, ReceivedKeepsIInv DEF IInv, TypeOK

LEMMA ShowEffect ==
  ASSUME IInv, NEW q \in Requests, Show(q)
  PROVE  /\ Done(q) /\ UNCHANGED <<server, turns, orders, overlaps>>
         /\ req[q].at = "searching" /\ req[q].token = page.token
         /\ page' \in Page /\ QuestionOfTrack' /\ page'.token = page.token
         /\ found' \in [{"flights", "hotels"} -> Nat]
         /\ \/ /\ found'.flights = found.flights + 1 /\ found'.hotels = found.hotels
               /\ page'.offered.hotels = page.offered.hotels
            \/ /\ found'.hotels = found.hotels + 1 /\ found'.flights = found.flights
               /\ page'.offered.flights = page.offered.flights
<1>. DEFINE kind == IF req[q].reply.tool = "search_hotels" THEN "hotels" ELSE "flights"
<1>1. PICK ids \in Results[kind] :
            /\ page' = [page EXCEPT !.offered[kind] = ids, !.sendable = TRUE,
                                    !.shown = @ \cup {ids[i] : i \in DOMAIN ids}]
            /\ found' = [found EXCEPT ![kind] = @ + 1]
  BY DEF Show
<1>2. /\ Done(q) /\ UNCHANGED <<server, turns, orders, overlaps>>
      /\ req[q].at = "searching" /\ req[q].token = page.token
  BY DEF Show
<1>3. /\ found \in [{"flights", "hotels"} -> Nat] /\ page.offered \in Offered
      /\ page.offered.flights \in Seq(FlightIds) /\ page.offered.hotels \in Seq(HotelIds)
  BY PageFacts DEF IInv, TypeOK, Offered
<1>. DEFINE offered == [page.offered EXCEPT ![kind] = ids]
            shown == page.shown \cup {ids[i] : i \in DOMAIN ids}
<1>4. kind \in {"flights", "hotels"}
  OBVIOUS
<1>5. CASE kind = "flights"
  <2>1. ids \in Seq(FlightIds)
    BY <1>5, PlanAssumption
  <2>2. shown \subseteq Options
    BY <2>1, PageFacts DEF IInv, Options
  <2>3. offered \in Offered /\ offered.hotels = page.offered.hotels
    BY <1>3, <1>5, <2>1 DEF Offered
  <2>4. /\ found' \in [{"flights", "hotels"} -> Nat]
        /\ found'.flights = found.flights + 1 /\ found'.hotels = found.hotels
    BY <1>1, <1>3, <1>5
  <2>5. page' = [page EXCEPT !.awaiting = page.awaiting, !.track = page.track, !.offered = offered,
                             !.shown = shown, !.sendable = TRUE]
    BY <1>1, <1>3, PageFacts DEF IInv, Page
  <2>. HIDE DEF kind, offered, shown
  <2>6. page' \in Page /\ QuestionOfTrack'
    BY <2>2, <2>3, <2>5, PageFacts, PageMovesOn DEF IInv
  <2>7. page'.token = page.token /\ page'.offered = offered
    BY <2>5, PageFacts DEF IInv, Page
  <2>. QED BY <1>2, <2>3, <2>4, <2>6, <2>7
<1>6. CASE kind = "hotels"
  <2>1. ids \in Seq(HotelIds)
    BY <1>6, PlanAssumption
  <2>2. shown \subseteq Options
    BY <2>1, PageFacts DEF IInv, Options
  <2>3. offered \in Offered /\ offered.flights = page.offered.flights
    BY <1>3, <1>6, <2>1 DEF Offered
  <2>4. /\ found' \in [{"flights", "hotels"} -> Nat]
        /\ found'.hotels = found.hotels + 1 /\ found'.flights = found.flights
    BY <1>1, <1>3, <1>6
  <2>5. page' = [page EXCEPT !.awaiting = page.awaiting, !.track = page.track, !.offered = offered,
                             !.shown = shown, !.sendable = TRUE]
    BY <1>1, <1>3, PageFacts DEF IInv, Page
  <2>. HIDE DEF kind, offered, shown
  <2>6. page' \in Page /\ QuestionOfTrack'
    BY <2>2, <2>3, <2>5, PageFacts, PageMovesOn DEF IInv
  <2>7. page'.token = page.token /\ page'.offered = offered
    BY <2>5, PageFacts DEF IInv, Page
  <2>. QED BY <1>2, <2>3, <2>4, <2>6, <2>7
<1>. QED
  BY <1>4, <1>5, <1>6

LEMMA ShowKeepsIInv ==
  ASSUME IInv, NEW q \in Requests, Show(q)
  PROVE  IInv'
<1>1. /\ UNCHANGED <<server, turns, orders, overlaps>> /\ page' \in Page /\ QuestionOfTrack'
      /\ found' \in [{"flights", "hotels"} -> Nat] /\ Done(q)
  BY ShowEffect
<1>2. req' \in [Requests -> InProgress \cup {Idle}] /\ RequestsSound'
  BY <1>1, RequestEnds DEF IInv
<1>. QED
  BY <1>1, <1>2, ReceivedKeepsIInv DEF IInv, TypeOK

\* The page's other steps end the message; of the page only the send button
\* and the open question change.
LEMMA QuietEffect ==
  ASSUME IInv, NEW q \in Requests,
         Discard(q) \/ ReceiveError(q) \/ ReceiveMessage(q) \/ ShowNothing(q)
  PROVE  /\ Done(q) /\ UNCHANGED <<server, ghosts>>
         /\ page' \in Page /\ QuestionOfTrack'
         /\ page'.token = page.token /\ page'.offered = page.offered
<1>1. Done(q) /\ UNCHANGED <<server, ghosts>>
  BY DEF Discard, ReceiveError, ReceiveMessage, ShowNothing
<1>2. \/ page' = page
      \/ page' = [page EXCEPT !.sendable = TRUE]
      \/ page' = [page EXCEPT !.awaiting = FALSE, !.sendable = TRUE]
  BY DEF Discard, ReceiveError, ReceiveMessage, ShowNothing
<1>3. /\ page' \in Page /\ page'.token = page.token /\ page'.offered = page.offered
      /\ page'.asked = page.asked /\ page'.track = page.track
      /\ page'.awaiting = page.awaiting \/ page'.awaiting = FALSE
  BY <1>2, PageFacts DEF IInv, Page
<1>4. QuestionOfTrack'
  BY <1>3 DEF IInv, QuestionOfTrack, Questions
<1>. QED
  BY <1>1, <1>3, <1>4

LEMMA QuietKeepsIInv ==
  ASSUME IInv, NEW q \in Requests,
         Discard(q) \/ ReceiveError(q) \/ ReceiveMessage(q) \/ ShowNothing(q)
  PROVE  IInv'
<1>1. /\ UNCHANGED <<server, ghosts>> /\ page' \in Page /\ QuestionOfTrack' /\ Done(q)
  BY QuietEffect
<1>2. req' \in [Requests -> InProgress \cup {Idle}] /\ RequestsSound'
  BY <1>1, RequestEnds DEF IInv
<1>. QED
  BY <1>1, <1>2, ReceivedKeepsIInv DEF IInv, TypeOK, ghosts

LEMMA NextIInv == IInv /\ [Next]_vars => IInv'
<1>. SUFFICES ASSUME IInv, [Next]_vars PROVE IInv'
  OBVIOUS
<1>1. CASE UNCHANGED vars
  <2>1. UNCHANGED <<server, page, req, ghosts>>
    BY <1>1 DEF vars
  <2>2. req' \in [Requests -> InProgress \cup {Idle}] /\ RequestsSound'
    BY <2>1 DEF IInv, TypeOK, RequestsSound, Sound
  <2>3. page' \in Page /\ QuestionOfTrack'
    BY <2>1 DEF IInv, TypeOK, QuestionOfTrack
  <2>. QED BY <2>1, <2>2, <2>3, ReceivedKeepsIInv DEF IInv, TypeOK, ghosts
<1>2. ASSUME NEW t \in Tokens, Login(t) \/ Logout(t)
      PROVE  IInv'
  BY <1>2, LoginKeepsIInv, LogoutKeepsIInv
<1>3. ASSUME NEW q \in Requests,
             UserSends(q) \/ Serve(q) \/ Phrased(q) \/ PhraseTimesOut(q) \/ Planned(q) \/ Receive(q)
      PROVE  IInv'
  BY <1>3, UserSendsKeepsIInv, UnauthorizedKeepsIInv, GatherKeepsIInv, AnsweredKeepsIInv,
     ReceiveQuestionKeepsIInv, ReceiveToolKeepsIInv, ShowKeepsIInv, QuietKeepsIInv
     DEF Serve, PhraseTimesOut, Receive
<1>. QED
  BY <1>1, <1>2, <1>3 DEF Next

LEMMA Invariance == Spec => []IInv
BY InitIInv, NextIInv, PTL DEF Spec

(***************************************************************************)
(* One page: its session is the only live one, and every message in flight *)
(* is one of a session that has begun.                                     *)
(***************************************************************************)
OnePage ==
    /\ Live \subseteq {page.token}
    /\ \A t \in Live : history[t] # None
    /\ page.token # None => sessions[page.token] # "new"
    /\ \A q \in Requests : req[q] # Idle => sessions[req[q].token] # "new"

LEMMA InitOnePage == Init => OnePage
BY DEF Init, OnePage, Live, NewPage

\* A step that neither begins nor ends a session, with one message in flight.
LEMMA SameSessions ==
  ASSUME IInv, OnePage, NEW q \in Requests,
         UNCHANGED sessions, page'.token = page.token,
         \A t \in Live : history'[t] # None,
         \/ Done(q)
         \/ \E x \in InProgress : /\ sessions[x.token] # "new"
                                  /\ req' = [req EXCEPT ![q] = x]
  PROVE  OnePage'
<1>1. \A p \in Requests : req'[p] # Idle => sessions[req'[p].token] # "new"
  BY DEF IInv, TypeOK, OnePage, Done
<1>. QED
  BY <1>1 DEF OnePage, Live

\* What recordTurn leaves of the histories of live sessions.
LEMMA RecordKeepsLive ==
  ASSUME IInv, OnePage, NEW r \in InProgress, NEW read \in Seq(Entry), Whole(read), RecordTurn(r, read)
  PROVE  \A t \in Live : history'[t] # None
<1>1. history'[r.token] \in Seq(Entry) /\ \A t \in Tokens \ {r.token} : history'[t] = history[t]
  BY RecordTurnEffect
<1>. QED
  BY <1>1, NoHistory DEF OnePage, Live

LEMMA NextOnePage == IInv /\ OnePage /\ [Next]_vars => OnePage'
<1>. SUFFICES ASSUME IInv, OnePage, [Next]_vars PROVE OnePage'
  OBVIOUS
<1>1. CASE UNCHANGED vars
  BY <1>1 DEF vars, server, OnePage, Live
<1>2. ASSUME NEW t \in Tokens, Login(t)
      PROVE  OnePage'
  <2>1. /\ sessions' = [sessions EXCEPT ![t] = "live"] /\ sessions[t] = "new"
        /\ history'[t] = <<>> /\ page'.token = t /\ req' = req
    BY <1>2, NewPageType DEF IInv, TypeOK, Login
  <2>2. Live = {}
    BY <1>2 DEF OnePage, Login
  <2>3. sessions'[t] = "live" /\ \A s \in Tokens \ {t} : sessions'[s] = sessions[s]
    BY <2>1 DEF IInv, TypeOK
  <2>4. Live' = {t}
    BY <2>2, <2>3 DEF Live
  <2>5. <<>> # None
    <3>1. <<>> \in Seq(Entry)
      OBVIOUS
    <3>. QED BY <3>1, NoHistory
  <2>6. ASSUME NEW q \in Requests, req[q] # Idle
        PROVE  sessions'[req[q].token] # "new"
    <3>1. req[q].token \in Tokens
      BY <2>6, BusyRequest DEF IInv, InProgress
    <3>. QED BY <2>3, <2>6, <3>1 DEF OnePage
  <2>. QED BY <2>1, <2>3, <2>4, <2>5, <2>6 DEF OnePage
<1>3. ASSUME NEW t \in Tokens, Logout(t)
      PROVE  OnePage'
  <2>1. /\ sessions'[t] = "over" /\ \A s \in Tokens \ {t} : sessions'[s] = sessions[s]
        /\ \A s \in Tokens \ {t} : history'[s] = history[s]
        /\ page' = page /\ req' = req
    BY <1>3 DEF IInv, TypeOK, Logout
  <2>2. Live' = Live \ {t}
    BY <2>1 DEF Live
  <2>3. ASSUME NEW q \in Requests, req[q] # Idle
        PROVE  sessions'[req[q].token] # "new"
    <3>1. req[q].token \in Tokens
      BY <2>3, BusyRequest DEF IInv, InProgress
    <3>. QED BY <2>1, <2>3, <3>1 DEF OnePage
  <2>4. page.token # None => sessions'[page.token] # "new"
    BY <2>1, PageFacts DEF OnePage, IInv
  <2>5. \A s \in Live' : history'[s] # None
    BY <2>1, <2>2 DEF OnePage, Live
  <2>. QED BY <2>1, <2>2, <2>3, <2>4, <2>5 DEF OnePage
<1>4. ASSUME NEW q \in Requests, UserSends(q)
      PROVE  OnePage'
  <2>1. page.token # None /\ page' = [page EXCEPT !.sendable = FALSE] /\ UNCHANGED <<sessions, history>>
    BY <1>4, UserSendsEffect DEF server
  <2>2. PICK x \in InProgress : x.token = page.token /\ req' = [req EXCEPT ![q] = x]
    BY <1>4, UserSendsEffect
  <2>3. page'.token = page.token
    BY <2>1, PageFacts DEF IInv, Page
  <2>4. sessions[x.token] # "new"
    BY <2>1, <2>2 DEF OnePage
  <2>. QED BY <2>1, <2>2, <2>3, <2>4, SameSessions DEF OnePage
<1>5. ASSUME NEW q \in Requests, Unauthorized(q)
      PROVE  OnePage'
  <2>1. PICK x \in InProgress : x.token = req[q].token /\ req' = [req EXCEPT ![q] = x]
    BY <1>5, UnauthorizedEffect DEF SameRequest
  <2>2. UNCHANGED <<sessions, history, page>> /\ req[q] # Idle
    BY <1>5, AtSomeStep DEF Unauthorized, server, IInv
  <2>3. sessions[x.token] # "new"
    BY <2>1, <2>2 DEF OnePage
  <2>. QED BY <2>1, <2>2, <2>3, SameSessions DEF OnePage
<1>6. ASSUME NEW q \in Requests, Gather(q)
      PROVE  OnePage'
  <2>1. PICK x \in InProgress :
            /\ x.token = req[q].token /\ req' = [req EXCEPT ![q] = x]
            /\ UNCHANGED history \/ RecordTurn(req[q], Read(req[q].token))
    BY <1>6, GatherEffect DEF SameRequest
  <2>2. UNCHANGED <<sessions, page>> /\ req[q] \in InProgress /\ req[q].token \in Live
    BY <1>6, GatherEffect
  <2>3. sessions[x.token] # "new"
    BY <2>1, <2>2 DEF Live
  <2>4. \A t \in Live : history'[t] # None
    <3>1. Read(req[q].token) \in Seq(Entry) /\ Whole(Read(req[q].token))
      BY <2>2, ReadIsWhole DEF Live
    <3>. QED BY <2>1, <2>2, <3>1, RecordKeepsLive DEF OnePage
  <2>. QED BY <2>1, <2>2, <2>3, <2>4, SameSessions
<1>7. ASSUME NEW q \in Requests, Phrased(q) \/ Planned(q)
      PROVE  OnePage'
  <2>1. PICK x \in InProgress : x.token = req[q].token /\ req' = [req EXCEPT ![q] = x]
    BY <1>7, PhrasedEffect, PlannedEffect DEF SameRequest
  <2>2. /\ UNCHANGED <<sessions, page>> /\ req[q] \in InProgress /\ req[q].read \in Seq(Entry)
        /\ Whole(req[q].read) /\ RecordTurn(req[q], req[q].read)
    BY <1>7, PhrasedEffect, PlannedEffect
  <2>3. sessions[x.token] # "new"
    BY <2>1, <2>2, InProgressIsBusy DEF OnePage
  <2>. QED BY <2>1, <2>2, <2>3, RecordKeepsLive, SameSessions
<1>8. ASSUME NEW q \in Requests, Receive(q)
      PROVE  OnePage'
  <2>1. UNCHANGED <<sessions, history>>
    BY <1>8 DEF Receive, Discard, ReceiveError, ReceiveMessage, ReceiveQuestion, ReceiveTool,
        Show, ShowNothing, server
  <2>2. page'.token = page.token
    <3>1. CASE ReceiveQuestion(q)
      BY <3>1, PageFacts DEF ReceiveQuestion, IInv, Page
    <3>. QED BY <1>8, <3>1, ReceiveToolEffect, ShowEffect, QuietEffect DEF Receive
  <2>3. \/ Done(q)
        \/ req[q] # Idle /\ \E x \in InProgress : x.token = req[q].token /\ req' = [req EXCEPT ![q] = x]
    <3>1. CASE ReceiveTool(q)
      BY <3>1, ReceiveToolEffect, ReceivesFacts DEF SameRequest
    <3>. QED BY <1>8, <3>1 DEF Receive, Discard, ReceiveError, ReceiveMessage, ReceiveQuestion,
        Show, ShowNothing
  <2>. QED BY <2>1, <2>2, <2>3, SameSessions DEF OnePage
<1>. QED
  BY <1>1, <1>2, <1>3, <1>4, <1>5, <1>6, <1>7, <1>8 DEF Next, Serve, PhraseTimesOut

(***************************************************************************)
(* Bookings are counted one at a time.                                     *)
(***************************************************************************)
LEMMA OrderedIsCount ==
  ASSUME TypeOK, NEW ids
  PROVE  Ordered(ids) \in Nat
<1>. DEFINE S == {i \in DOMAIN orders : orders[i].id \in ids}
<1>1. orders \in Seq([id : Options, told : BOOLEAN])
  BY DEF TypeOK
<1>2. IsFiniteSet(1 .. Len(orders)) /\ S \subseteq 1 .. Len(orders)
  <2>1. Len(orders) \in Nat /\ DOMAIN orders = 1 .. Len(orders)
    BY <1>1, LenProperties
  <2>. QED BY <2>1, FS_Interval
<1>3. IsFiniteSet(S)
  BY <1>2, FS_Subset
<1>. QED
  BY <1>3, FS_CardinalityType DEF Ordered

LEMMA OrderedAppend ==
  ASSUME TypeOK, NEW ids, NEW o \in [id : Options, told : BOOLEAN], orders' = Append(orders, o)
  PROVE  Ordered(ids)' = IF o.id \in ids THEN Ordered(ids) + 1 ELSE Ordered(ids)
<1>. DEFINE S == {i \in DOMAIN orders : orders[i].id \in ids}
            n == Len(orders) + 1
            T == {i \in DOMAIN orders' : orders'[i].id \in ids}
<1>1. orders \in Seq([id : Options, told : BOOLEAN])
  BY DEF TypeOK
<1>2. IsFiniteSet(1 .. Len(orders)) /\ S \subseteq 1 .. Len(orders) /\ Len(orders) \in Nat
  <2>1. Len(orders) \in Nat /\ DOMAIN orders = 1 .. Len(orders)
    BY <1>1, LenProperties
  <2>. QED BY <2>1, FS_Interval
<1>3. IsFiniteSet(S) /\ n \notin S
  BY <1>2, FS_Subset
<1>4. /\ Len(orders') = n /\ DOMAIN orders' = 1 .. n /\ orders'[n] = o
      /\ \A i \in 1 .. Len(orders) : orders'[i] = orders[i]
      /\ DOMAIN orders = 1 .. Len(orders)
  BY <1>1, AppendProperties, LenProperties
<1>5. T = IF o.id \in ids THEN S \cup {n} ELSE S
  BY <1>2, <1>4
<1>6. Ordered(ids) = Cardinality(S) /\ Ordered(ids)' = Cardinality(T)
  BY DEF Ordered
<1>. HIDE DEF S, T, n
<1>. QED
  BY <1>3, <1>5, <1>6, FS_AddElement

(***************************************************************************)
(* One message at a time.                                                  *)
(***************************************************************************)
Alone == \A p, q \in Requests : req[p] # Idle /\ req[q] # Idle => p = q

\* What awaits the model has read the whole history of a live session.
ReadsLatest(r) ==
    r.at \in {"phrasing", "planning"} => r.token \in Live /\ r.read = history[r.token]

\* What is on offer has not changed since the page sent it.
ActsOnOffered(r) ==
    r.at \in {"sent", "phrasing", "planning", "replied"} /\ r.token = page.token
        => r.context = page.offered

AsksAnew(r) ==
    (r.at \in {"phrasing", "replied"} /\ r.reply.kind = "ask" /\ profiles[r.token].destination # Home)
        => r.reply.field # r.answers

InStep(r) == ReadsLatest(r) /\ ActsOnOffered(r) /\ AsksAnew(r)

AllInStep == \A q \in Requests : req[q] # Idle => InStep(req[q])

\* What is still on offer is one booking to come.
ToCome(s) == IF s = <<>> THEN 0 ELSE 1

Balanced ==
    /\ Ordered(FlightIds) + ToCome(page.offered.flights) <= found.flights
    /\ Ordered(HotelIds) + ToCome(page.offered.hotels) <= found.hotels

Undisturbed == OneAtATime => Alone /\ AllInStep /\ Balanced

LEMMA InitUndisturbed == Init => Undisturbed
<1>. SUFFICES ASSUME Init PROVE Undisturbed
  OBVIOUS
<1>1. Alone /\ AllInStep
  BY DEF Init, Alone, AllInStep
<1>2. Ordered(FlightIds) = 0 /\ Ordered(HotelIds) = 0
  <2>1. {i \in DOMAIN orders : orders[i].id \in FlightIds} = {}
        /\ {i \in DOMAIN orders : orders[i].id \in HotelIds} = {}
    BY DEF Init
  <2>. QED BY <2>1, FS_EmptySet DEF Ordered
<1>3. found.flights = 0 /\ found.hotels = 0 /\ page.offered = Nothing
  BY DEF Init, NewPage
<1>. QED
  BY <1>1, <1>2, <1>3 DEF Undisturbed, Balanced, ToCome, Nothing

\* An overlap is never forgotten, and what overlaps is counted.
LEMMA StillAlone ==
  ASSUME IInv, [Next]_vars, OneAtATime'
  PROVE  /\ OneAtATime
         /\ \A t \in Tokens : Logout(t) => ~Busy
         /\ \A q \in Requests : UserSends(q) => ~Busy
<1>1. overlaps \in Nat /\ overlaps' = 0
  BY PlanAssumption DEF IInv, TypeOK, OneAtATime
<1>2. CountOverlap => ~Busy /\ overlaps = 0
  BY <1>1 DEF CountOverlap
<1>3. ASSUME NEW t \in Tokens, Logout(t)
      PROVE  ~Busy /\ overlaps = 0
  BY <1>2, <1>3 DEF Logout
<1>4. ASSUME NEW q \in Requests, UserSends(q)
      PROVE  ~Busy /\ overlaps = 0
  BY <1>2, <1>4, UserSendsEffect
<1>5. ASSUME NEW t \in Tokens, Login(t)
      PROVE  overlaps' = overlaps
  BY <1>5 DEF Login, ghosts
<1>6. ASSUME NEW q \in Requests, Serve(q) \/ Phrased(q) \/ PhraseTimesOut(q) \/ Planned(q) \/ Receive(q)
      PROVE  overlaps' = overlaps
  BY <1>6 DEF Serve, Unauthorized, Gather, Phrased, PhraseTimesOut, Planned, Receive, Discard,
     ReceiveError, ReceiveMessage, ReceiveQuestion, ReceiveTool, Show, ShowNothing, ghosts
<1>7. ASSUME UNCHANGED vars
      PROVE  overlaps' = overlaps
  BY <1>7 DEF vars, ghosts
<1>8. overlaps = 0
  BY <1>1, <1>3, <1>4, <1>5, <1>6, <1>7 DEF Next
<1>. QED
  BY <1>3, <1>4, <1>8 DEF OneAtATime

\* The only message in flight takes a step ...
LEMMA OnlyOneGoes ==
  ASSUME IInv, NEW q \in Requests, \A p \in Requests \ {q} : req[p] = Idle,
         NEW x \in InProgress, req' = [req EXCEPT ![q] = x], InStep(x)'
  PROVE  Alone' /\ AllInStep'
<1>1. req'[q] = x /\ \A p \in Requests \ {q} : req'[p] = Idle
  BY DEF IInv, TypeOK
<1>2. Alone'
  BY <1>1 DEF Alone
<1>3. ASSUME NEW p \in Requests, req'[p] # Idle
      PROVE  InStep(req[p])'
  <2>1. p = q /\ req[p]' = x
    BY <1>1, <1>3
  <2>. QED BY <2>1 DEF InStep, ReadsLatest, ActsOnOffered, AsksAnew, Live
<1>. QED
  BY <1>2, <1>3 DEF AllInStep

\* ... or ends.
LEMMA OnlyOneEnds ==
  ASSUME IInv, Alone, NEW q \in Requests, req[q] # Idle, Done(q)
  PROVE  Alone' /\ AllInStep'
<1>1. \A p \in Requests : req'[p] = Idle
  BY DEF IInv, TypeOK, Done, Alone
<1>. QED
  BY <1>1 DEF Alone, AllInStep

LEMMA SameBalance ==
  ASSUME Balanced, UNCHANGED <<orders, found>>, page'.offered = page.offered
  PROVE  Balanced'
<1>1. Ordered(FlightIds)' = Ordered(FlightIds) /\ Ordered(HotelIds)' = Ordered(HotelIds)
  BY DEF Ordered
<1>. QED
  BY <1>1 DEF Balanced, ToCome

Quiet == IInv /\ OnePage /\ Alone /\ AllInStep /\ Balanced

LEMMA OthersIdle ==
  ASSUME Quiet, NEW q \in Requests, req[q] # Idle
  PROVE  \A p \in Requests \ {q} : req[p] = Idle
BY DEF Quiet, Alone

LEMMA LoginKeepsQuiet ==
  ASSUME Quiet, NEW t \in Tokens, Login(t)
  PROVE  Alone' /\ AllInStep' /\ Balanced'
<1>1. /\ sessions[t] = "new" /\ page.token \notin Live /\ Live = {}
      /\ req' = req /\ UNCHANGED <<profiles, orders, found>>
      /\ page'.token = t /\ page'.offered = Nothing
  BY NewPageType DEF Login, ghosts, Quiet, OnePage
<1>2. ASSUME NEW q \in Requests, req[q] # Idle
      PROVE  InStep(req[q])'
  <2>1. req[q].token # t
    BY <1>1, <1>2 DEF Quiet, OnePage
  <2>2. req[q].at \notin {"phrasing", "planning"}
    BY <1>1, <1>2 DEF Quiet, AllInStep, InStep, ReadsLatest
  <2>3. AsksAnew(req[q])
    BY <1>2 DEF Quiet, AllInStep, InStep
  <2>. QED BY <1>1, <2>1, <2>2, <2>3 DEF InStep, ReadsLatest, ActsOnOffered, AsksAnew
<1>3. Alone' /\ AllInStep'
  BY <1>1, <1>2 DEF Quiet, Alone, AllInStep
<1>4. Ordered(FlightIds)' = Ordered(FlightIds) /\ Ordered(HotelIds)' = Ordered(HotelIds)
  BY <1>1 DEF Ordered
<1>5. Ordered(FlightIds) \in Nat /\ Ordered(HotelIds) \in Nat /\ found.flights \in Nat /\ found.hotels \in Nat
  BY OrderedIsCount DEF Quiet, IInv, TypeOK
<1>6. Balanced'
  BY <1>1, <1>4, <1>5 DEF Quiet, Balanced, ToCome, Nothing
<1>. QED
  BY <1>3, <1>6

LEMMA LogoutKeepsQuiet ==
  ASSUME Quiet, NEW t \in Tokens, Logout(t), ~Busy
  PROVE  Alone' /\ AllInStep' /\ Balanced'
<1>1. UNCHANGED <<page, req, orders, found>>
  BY DEF Logout
<1>2. Balanced'
  BY <1>1, SameBalance DEF Quiet
<1>. QED
  BY <1>1, <1>2 DEF Busy, Alone, AllInStep

LEMMA UserSendsKeepsQuiet ==
  ASSUME Quiet, NEW q \in Requests, UserSends(q), ~Busy
  PROVE  Alone' /\ AllInStep' /\ Balanced'
<1>1. page' = [page EXCEPT !.sendable = FALSE] /\ UNCHANGED <<server, orders, found>>
  BY UserSendsEffect DEF Quiet
<1>2. PICK x \in InProgress :
        x.at = "sent" /\ x.context = page.offered /\ req' = [req EXCEPT ![q] = x]
  BY UserSendsEffect DEF Quiet
<1>3. page'.offered = page.offered
  BY <1>1, PageFacts DEF Quiet, IInv, Page
<1>4. InStep(x)'
  BY <1>2, <1>3 DEF InStep, ReadsLatest, ActsOnOffered, AsksAnew
<1>5. Alone' /\ AllInStep'
  BY <1>2, <1>4, OnlyOneGoes DEF Quiet, Busy
<1>6. Balanced'
  BY <1>1, <1>3, SameBalance DEF Quiet
<1>. QED
  BY <1>5, <1>6

LEMMA UnauthorizedKeepsQuiet ==
  ASSUME Quiet, NEW q \in Requests, Unauthorized(q)
  PROVE  Alone' /\ AllInStep' /\ Balanced'
<1>1. UNCHANGED <<server, page, ghosts>> /\ req[q].at = "sent" /\ req[q] # Idle
  BY AtSomeStep DEF Unauthorized, Quiet, IInv
<1>2. PICK x \in InProgress :
        SameRequest(x, req[q]) /\ x.at = "replied" /\ x.reply = Failure /\ req' = [req EXCEPT ![q] = x]
  BY UnauthorizedEffect DEF Quiet
<1>3. ActsOnOffered(req[q])
  BY <1>1 DEF Quiet, AllInStep, InStep
<1>4. InStep(x)'
  BY <1>1, <1>2, <1>3, RepliesAre DEF InStep, ReadsLatest, ActsOnOffered, AsksAnew, SameRequest
<1>5. Alone' /\ AllInStep'
  BY <1>1, <1>2, <1>4, OthersIdle, OnlyOneGoes DEF Quiet
<1>6. Balanced'
  BY <1>1, SameBalance DEF Quiet, ghosts
<1>. QED
  BY <1>5, <1>6

LEMMA GatherKeepsQuiet ==
  ASSUME Quiet, NEW q \in Requests, Gather(q)
  PROVE  Alone' /\ AllInStep' /\ Balanced'
<1>1. PICK p \in Profile, x \in InProgress :
            /\ profiles' = [profiles EXCEPT ![req[q].token] = p]
            /\ req' = [req EXCEPT ![q] = x]
            /\ SameRequest(x, req[q])
            /\ x.reply.kind = "ask" /\ p.destination # Home => x.reply.field # x.answers
            /\ \/ /\ x.at \in {"phrasing", "planning"} /\ x.read = Read(req[q].token)
                  /\ UNCHANGED history
               \/ x.at = "replied"
  BY GatherEffect DEF Quiet
<1>2. /\ req[q] \in InProgress /\ req[q].at = "sent" /\ req[q].token \in Live /\ req[q] # Idle
      /\ UNCHANGED <<sessions, page, orders, found>>
  BY GatherEffect, InProgressIsBusy DEF Quiet, ghosts
<1>3. x.token = req[q].token /\ x.context = req[q].context /\ x.answers = req[q].answers
  BY <1>1 DEF SameRequest
<1>4. ReadsLatest(x)'
  BY <1>1, <1>2, <1>3 DEF ReadsLatest, Live, Read, Quiet, OnePage
<1>5. ActsOnOffered(x)'
  BY <1>2, <1>3 DEF ActsOnOffered, Quiet, AllInStep, InStep
<1>6. AsksAnew(x)'
  <2>1. profiles'[x.token] = p
    BY <1>1, <1>2, <1>3 DEF Quiet, IInv, TypeOK, Live
  <2>. QED BY <1>1, <2>1 DEF AsksAnew
<1>7. Alone' /\ AllInStep'
  <2>1. InStep(x)'
    BY <1>4, <1>5, <1>6 DEF InStep
  <2>. QED BY <1>1, <1>2, <2>1, OthersIdle, OnlyOneGoes DEF Quiet
<1>8. Balanced'
  BY <1>2, SameBalance DEF Quiet
<1>. QED
  BY <1>7, <1>8

LEMMA AnsweredKeepsQuiet ==
  ASSUME Quiet, NEW q \in Requests, Phrased(q) \/ Planned(q)
  PROVE  Alone' /\ AllInStep' /\ Balanced'
<1>1. PICK x \in InProgress :
            /\ req' = [req EXCEPT ![q] = x]
            /\ SameRequest(x, req[q]) /\ x.at = "replied"
            /\ x.reply.kind # "ask" \/ (req[q].at = "phrasing" /\ x.reply = req[q].reply)
  BY PhrasedEffect, PlannedEffect DEF Quiet
<1>2. /\ req[q] \in InProgress /\ req[q].at \in {"phrasing", "planning"} /\ req[q] # Idle
      /\ UNCHANGED <<sessions, profiles, page, orders, found>>
  BY PhrasedEffect, PlannedEffect, InProgressIsBusy DEF Quiet, ghosts
<1>3. ActsOnOffered(req[q]) /\ AsksAnew(req[q])
  BY <1>2 DEF Quiet, AllInStep, InStep
<1>4. InStep(x)'
  BY <1>1, <1>2, <1>3 DEF InStep, ReadsLatest, ActsOnOffered, AsksAnew, SameRequest
<1>5. Alone' /\ AllInStep'
  BY <1>1, <1>2, <1>4, OthersIdle, OnlyOneGoes DEF Quiet
<1>6. Balanced'
  BY <1>2, SameBalance DEF Quiet
<1>. QED
  BY <1>5, <1>6

LEMMA ReceiveQuestionKeepsQuiet ==
  ASSUME Quiet, NEW q \in Requests, ReceiveQuestion(q)
  PROVE  Alone' /\ AllInStep' /\ Balanced'
<1>1. Done(q) /\ UNCHANGED <<orders, found>> /\ req[q] # Idle
  BY ReceivesFacts DEF ReceiveQuestion, ghosts, Quiet
<1>2. page'.offered = page.offered
  BY PageFacts DEF ReceiveQuestion, Quiet, IInv, Page
<1>. QED
  BY <1>1, <1>2, OnlyOneEnds, SameBalance DEF Quiet

LEMMA QuietStepKeepsQuiet ==
  ASSUME Quiet, NEW q \in Requests,
         Discard(q) \/ ReceiveError(q) \/ ReceiveMessage(q) \/ ShowNothing(q)
  PROVE  Alone' /\ AllInStep' /\ Balanced'
<1>1. Done(q) /\ UNCHANGED <<orders, found>> /\ page'.offered = page.offered
  BY QuietEffect DEF Quiet, ghosts
<1>2. req[q] # Idle
  BY AtSomeStep DEF Discard, ReceiveError, ReceiveMessage, ShowNothing, Receives, Quiet, IInv
<1>. QED
  BY <1>1, <1>2, OnlyOneEnds, SameBalance DEF Quiet

LEMMA ShowKeepsQuiet ==
  ASSUME Quiet, NEW q \in Requests, Show(q)
  PROVE  Alone' /\ AllInStep' /\ Balanced'
<1>1. /\ Done(q) /\ UNCHANGED orders /\ req[q] # Idle
      /\ \/ /\ found'.flights = found.flights + 1 /\ found'.hotels = found.hotels
            /\ page'.offered.hotels = page.offered.hotels
         \/ /\ found'.hotels = found.hotels + 1 /\ found'.flights = found.flights
            /\ page'.offered.flights = page.offered.flights
  BY ShowEffect, AtSomeStep DEF Quiet, IInv
<1>2. Ordered(FlightIds)' = Ordered(FlightIds) /\ Ordered(HotelIds)' = Ordered(HotelIds)
  BY <1>1 DEF Ordered
<1>3. Ordered(FlightIds) \in Nat /\ Ordered(HotelIds) \in Nat /\ found.flights \in Nat /\ found.hotels \in Nat
  BY OrderedIsCount DEF Quiet, IInv, TypeOK
<1>4. Balanced'
  BY <1>1, <1>2, <1>3 DEF Quiet, Balanced, ToCome
<1>. QED
  BY <1>1, <1>4, OnlyOneEnds DEF Quiet

\* A booking withdraws what it books, which was on offer until now.
LEMMA ReceiveToolKeepsQuiet ==
  ASSUME Quiet, NEW q \in Requests, ReceiveTool(q)
  PROVE  Alone' /\ AllInStep' /\ Balanced'
<1>. DEFINE a == req[q].reply
<1>1. /\ UNCHANGED found
      /\ page'.offered = Withdrawn(page.offered, a.tool)
      /\ \/ a.id = None /\ orders' = orders
         \/ /\ a.id \in Options
            /\ \E told \in BOOLEAN : orders' = Append(orders, [id |-> a.id, told |-> told])
  BY ReceiveToolEffect DEF Quiet
<1>2. /\ req[q] # Idle /\ Sound(req[q]) /\ req[q].at = "replied" /\ req[q].token = page.token
      /\ req[q].context \in Offered
  BY ReceiveToolEffect, ReceivesFacts DEF Quiet
<1>3. req[q].context = page.offered
  BY <1>2 DEF Quiet, AllInStep, InStep, ActsOnOffered
<1>4. Alone' /\ AllInStep'
  <2>1. CASE Done(q)
    BY <1>2, <2>1, OnlyOneEnds DEF Quiet
  <2>2. ASSUME NEW x \in InProgress, x.at = "searching", req' = [req EXCEPT ![q] = x]
        PROVE  Alone' /\ AllInStep'
    <3>1. InStep(x)'
      BY <2>2 DEF InStep, ReadsLatest, ActsOnOffered, AsksAnew
    <3>. QED BY <1>2, <2>2, <3>1, OthersIdle, OnlyOneGoes DEF Quiet
  <2>. QED BY <2>1, <2>2, ReceiveToolEffect DEF Quiet
<1>5. /\ page'.offered.flights = IF a.tool = "book_flight" THEN <<>> ELSE page.offered.flights
      /\ page'.offered.hotels = IF a.tool = "book_hotel" THEN <<>> ELSE page.offered.hotels
  BY <1>1, <1>2, <1>3, WithdrawnIs
<1>6. Ordered(FlightIds) \in Nat /\ Ordered(HotelIds) \in Nat /\ found.flights \in Nat /\ found.hotels \in Nat
  BY OrderedIsCount DEF Quiet, IInv, TypeOK
<1>7. a.id # None => IF a.id \in FlightIds
                     THEN a.tool = "book_flight" /\ page.offered.flights # <<>>
                     ELSE a.tool = "book_hotel" /\ page.offered.hotels # <<>>
  BY <1>2, <1>3 DEF Sound, Bookable
<1>. HIDE DEF a
<1>8. Balanced'
  <2>1. CASE a.id = None /\ orders' = orders
    <3>1. Ordered(FlightIds)' = Ordered(FlightIds) /\ Ordered(HotelIds)' = Ordered(HotelIds)
      BY <2>1 DEF Ordered
    <3>. QED BY <1>1, <1>5, <1>6, <3>1 DEF Quiet, Balanced, ToCome
  <2>2. ASSUME a.id \in Options, NEW told \in BOOLEAN, orders' = Append(orders, [id |-> a.id, told |-> told])
        PROVE  Balanced'
    <3>. DEFINE o == [id |-> a.id, told |-> told]
    <3>1. o \in [id : Options, told : BOOLEAN] /\ o.id = a.id /\ orders' = Append(orders, o)
      BY <2>2
    <3>2. a.id # None /\ (a.id \in FlightIds => a.id \notin HotelIds)
          /\ (a.id \notin FlightIds => a.id \in HotelIds)
      BY <2>2, PlanAssumption DEF Options
    <3>. HIDE DEF o
    <3>3. /\ Ordered(FlightIds)' = IF o.id \in FlightIds THEN Ordered(FlightIds) + 1 ELSE Ordered(FlightIds)
          /\ Ordered(HotelIds)' = IF o.id \in HotelIds THEN Ordered(HotelIds) + 1 ELSE Ordered(HotelIds)
      BY <3>1, OrderedAppend DEF Quiet, IInv
    <3>4. CASE a.id \in FlightIds
      BY <1>1, <1>5, <1>6, <1>7, <3>1, <3>2, <3>3, <3>4 DEF Quiet, Balanced, ToCome
    <3>5. CASE a.id \notin FlightIds
      BY <1>1, <1>5, <1>6, <1>7, <3>1, <3>2, <3>3, <3>5 DEF Quiet, Balanced, ToCome
    <3>. QED BY <3>4, <3>5
  <2>. QED BY <1>1, <2>1, <2>2
<1>. QED
  BY <1>4, <1>8

LEMMA NextUndisturbed ==
  IInv /\ OnePage /\ Undisturbed /\ [Next]_vars => Undisturbed'
<1>. SUFFICES ASSUME IInv, OnePage, Undisturbed, [Next]_vars, OneAtATime'
              PROVE  Alone' /\ AllInStep' /\ Balanced'
  BY DEF Undisturbed
<1>1. Quiet
  BY StillAlone DEF Quiet, Undisturbed
<1>2. CASE UNCHANGED vars
  <2>1. UNCHANGED <<req, page, orders, found, sessions, history, profiles>>
    BY <1>2 DEF vars, server, ghosts
  <2>2. Alone' /\ AllInStep'
    BY <1>1, <2>1 DEF Quiet, Alone, AllInStep, InStep, ReadsLatest, ActsOnOffered, AsksAnew, Live
  <2>. QED BY <1>1, <2>1, <2>2, SameBalance DEF Quiet
<1>3. ASSUME NEW t \in Tokens, Login(t) \/ Logout(t)
      PROVE  Alone' /\ AllInStep' /\ Balanced'
  BY <1>1, <1>3, StillAlone, LoginKeepsQuiet, LogoutKeepsQuiet
<1>4. ASSUME NEW q \in Requests,
             UserSends(q) \/ Serve(q) \/ Phrased(q) \/ PhraseTimesOut(q) \/ Planned(q) \/ Receive(q)
      PROVE  Alone' /\ AllInStep' /\ Balanced'
  BY <1>1, <1>4, StillAlone, UserSendsKeepsQuiet, UnauthorizedKeepsQuiet, GatherKeepsQuiet,
     AnsweredKeepsQuiet, ReceiveQuestionKeepsQuiet, QuietStepKeepsQuiet, ShowKeepsQuiet,
     ReceiveToolKeepsQuiet DEF Serve, PhraseTimesOut, Receive
<1>. QED
  BY <1>2, <1>3, <1>4 DEF Next

LEMMA ChatInvariance == Spec => [](IInv /\ OnePage /\ Undisturbed)
BY InitIInv, NextIInv, InitOnePage, NextOnePage, InitUndisturbed, NextUndisturbed, PTL DEF Spec

(***************************************************************************)
(* The types, and that however messages overlap, and whenever the session  *)
(* ends, what /api/plan stores and what a provider gets to see as history  *)
(* is whole exchanges (recordTurn of agent/server.ts).                     *)
(***************************************************************************)
THEOREM ChatTypes == Spec => []TypeOK
BY Invariance, PTL DEF IInv

THEOREM HistoryIsWhole == Spec => []HistoryAlternates
<1>1. IInv => HistoryAlternates
  BY DEF IInv, HistoriesWhole, Whole, HistoryAlternates
<1>. QED
  BY <1>1, Invariance, PTL

(***************************************************************************)
(* One message at a time, a suggested answer is not asked for again, on    *)
(* any leg of the trip (extractSlots and resolveTrack of conversation.ts   *)
(* with the page's activeTrack).                                           *)
(***************************************************************************)
THEOREM AnswersMoveOn == Spec => []AnswerMovesOn
<1>1. IInv /\ Undisturbed => AnswerMovesOn
  BY DEF Undisturbed, AllInStep, InStep, AsksAnew, AnswerMovesOn
<1>. QED
  BY <1>1, ChatInvariance, PTL

(***************************************************************************)
(* One message at a time and whatever the model plans, no search leads to  *)
(* two bookings (validatePlannedToolCall of gemini.ts with the page's      *)
(* lastFlights and lastHotels).                                            *)
(***************************************************************************)
THEOREM SearchesAreBookedOnce == Spec => []OneBookingPerSearch
<1>1. IInv /\ Undisturbed => OneBookingPerSearch
  <2>. SUFFICES ASSUME IInv, Undisturbed, OneAtATime
                PROVE  /\ Ordered(FlightIds) <= found.flights
                       /\ Ordered(HotelIds) <= found.hotels
    BY DEF OneBookingPerSearch
  <2>1. Ordered(FlightIds) \in Nat /\ Ordered(HotelIds) \in Nat /\ found.flights \in Nat /\ found.hotels \in Nat
    BY OrderedIsCount DEF IInv, TypeOK
  <2>. QED BY <2>1 DEF Undisturbed, Balanced, ToCome
<1>. QED
  BY <1>1, ChatInvariance, PTL

(***************************************************************************)
(* The refinement: one message at a time, each step of the chat is a       *)
(* login, a logout or one exchange of PlanTranscript, or changes no        *)
(* transcript.                                                             *)
(***************************************************************************)
LEMMA InitTranscript == Init => Transcript!Init
BY DEF Init, Live, Transcript!Init

LEMMA RecordsExchange ==
  ASSUME IInv, NEW r \in InProgress, NEW read \in Seq(Entry), Whole(read),
         RecordTurn(r, read), r.token \in Live, read = history[r.token], UNCHANGED sessions
  PROVE  Transcript!Next
<1>1. PICK u \in Sayings, a \in Answers :
        history' = [history EXCEPT ![r.token] = Latest(read \o <<u, a>>)]
  <2>1. WritesExchange(r.token, read)
    BY RecordTurnEffect
  <2>. QED BY <2>1 DEF WritesExchange
<1>2. history' = [history EXCEPT ![r.token] = Transcript!Latest(history[r.token] \o <<u, a>>)]
  BY <1>1 DEF Latest, Transcript!Latest
<1>3. Transcript!Exchange(r.token, u, a)
  BY <1>2 DEF Transcript!Exchange, Live
<1>. QED
  BY <1>3 DEF Transcript!Next, Live

LEMMA NextTranscript ==
  IInv /\ OnePage /\ Undisturbed /\ [Next]_vars => (OneAtATime' => [Transcript!Next]_<<Live, history>>)
<1>. SUFFICES ASSUME IInv, OnePage, Undisturbed, [Next]_vars, OneAtATime'
              PROVE  Transcript!Next \/ UNCHANGED <<Live, history>>
  OBVIOUS
<1>1. Quiet
  BY StillAlone DEF Quiet, Undisturbed
<1>2. CASE UNCHANGED vars
  BY <1>2 DEF vars, server, Live
<1>3. ASSUME NEW t \in Tokens, Login(t)
      PROVE  Transcript!Next
  <2>1. t \notin Live
    BY <1>3 DEF Login, Live
  <2>2. Live' = Live \cup {t}
    BY <1>3 DEF Login, Live, IInv, TypeOK
  <2>3. history' = [history EXCEPT ![t] = <<>>]
    BY <1>3 DEF Login
  <2>. QED BY <2>1, <2>2, <2>3 DEF Transcript!Next, Transcript!Login
<1>4. ASSUME NEW t \in Tokens, Logout(t)
      PROVE  Transcript!Next
  <2>1. Live' = Live \ {t}
    BY <1>4 DEF Logout, Live, IInv, TypeOK
  <2>2. history' = [history EXCEPT ![t] = None]
    BY <1>4 DEF Logout
  <2>. QED BY <2>1, <2>2 DEF Transcript!Next, Transcript!Logout
<1>5. ASSUME NEW q \in Requests, Gather(q)
      PROVE  Transcript!Next \/ UNCHANGED <<Live, history>>
  <2>1. /\ req[q] \in InProgress /\ req[q].token \in Live /\ req[q].token \in Tokens /\ UNCHANGED sessions
        /\ UNCHANGED history \/ RecordTurn(req[q], Read(req[q].token))
    BY <1>5, GatherEffect DEF Live
  <2>2. Read(req[q].token) = history[req[q].token]
    BY <2>1 DEF Read, OnePage
  <2>3. Read(req[q].token) \in Seq(Entry) /\ Whole(Read(req[q].token))
    BY <2>1, ReadIsWhole
  <2>4. CASE UNCHANGED history
    BY <2>1, <2>4 DEF Live
  <2>5. CASE RecordTurn(req[q], Read(req[q].token))
    BY <2>1, <2>2, <2>3, <2>5, RecordsExchange
  <2>. QED BY <2>1, <2>4, <2>5
<1>6. ASSUME NEW q \in Requests, Phrased(q) \/ Planned(q)
      PROVE  Transcript!Next
  <2>1. /\ req[q] \in InProgress /\ req[q].at \in {"phrasing", "planning"}
        /\ req[q].read \in Seq(Entry) /\ Whole(req[q].read)
        /\ RecordTurn(req[q], req[q].read) /\ UNCHANGED sessions
    BY <1>6, PhrasedEffect, PlannedEffect
  <2>2. req[q].token \in Live /\ req[q].read = history[req[q].token]
    BY <1>1, <2>1, InProgressIsBusy DEF Quiet, AllInStep, InStep, ReadsLatest
  <2>. QED BY <2>1, <2>2, RecordsExchange
<1>7. ASSUME NEW q \in Requests, UserSends(q) \/ Unauthorized(q) \/ Receive(q)
      PROVE  UNCHANGED <<Live, history>>
  <2>1. CASE UserSends(q)
    BY <2>1, UserSendsEffect DEF server, Live
  <2>2. CASE Unauthorized(q) \/ Receive(q)
    BY <2>2 DEF Unauthorized, Receive, Discard, ReceiveError, ReceiveMessage, ReceiveQuestion,
       ReceiveTool, Show, ShowNothing, server, Live
  <2>. QED BY <1>7, <2>1, <2>2
<1>. QED
  BY <1>2, <1>3, <1>4, <1>5, <1>6, <1>7 DEF Next, Serve, PhraseTimesOut

THEOREM ChatIsTranscript == Spec => ImplementsTranscript
<1>1. [](IInv /\ OnePage /\ Undisturbed) /\ [][Next]_vars
        => [][OneAtATime' => [Transcript!Next]_<<Live, history>>]_vars
  BY NextTranscript, PTL
<1>. QED
  BY <1>1, InitTranscript, ChatInvariance, PTL DEF Spec, ImplementsTranscript
=============================================================================
