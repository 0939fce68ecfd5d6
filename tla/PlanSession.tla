----------------------------- MODULE PlanSession -----------------------------
(***************************************************************************)
(* The travel planner's chat: the page (e2e-consent-demo, agent/web.ts),   *)
(* the sessions and POST /api/plan (agent/server.ts), and the planners     *)
(* (agent/gemini.ts).  /api/plan reads the session's history, may await    *)
(* the model, and then writes what it read plus one exchange; the page's   *)
(* buttons send further messages in the meantime.                          *)
(*                                                                         *)
(* The model is external: it answers what it likes, late or never.         *)
(***************************************************************************)
EXTENDS TripConversation, Integers

CONSTANTS
    Tokens,         \* session tokens
    Requests,       \* messages in flight at one time
    FlightIds, HotelIds,
    CityOf,         \* the city that a hotel's id names
    Results,        \* what the searches may find: sequences of ids
    Typed,          \* what the user may type
    HasModel,       \* is a model provider configured?
    Limit,          \* entries of history retained
    MaxTurns,       \* bound on the messages sent
    MaxOverlaps     \* bound on what happens while a message is in flight

Options == FlightIds \cup HotelIds

ASSUME PlanAssumption ==
    /\ None \notin Tokens \cup Options
    /\ FlightIds \cap HotelIds = {}
    /\ CityOf \in [HotelIds -> Cities]
    /\ Results \in [{"flights", "hotels"} -> SUBSET (Seq(FlightIds) \cup Seq(HotelIds))]
    /\ Results["flights"] \subseteq Seq(FlightIds)
    /\ Results["hotels"] \subseteq Seq(HotelIds)
    /\ Typed \subseteq Message(Options)
    /\ HasModel \in BOOLEAN
    /\ Limit \in Nat /\ Limit % 2 = 0
    /\ MaxTurns \in Nat /\ MaxOverlaps \in Nat

VARIABLES
    sessions,    \* each token: new, live or over
    history,     \* conversationHistory
    profiles,    \* tripProfiles
    page,        \* the page's state
    req,         \* each message in flight
    turns,       \* messages sent
    orders,      \* bookings the page has set out to make
    found,       \* searches it has shown
    overlaps     \* messages sent, and sessions ended, while one was in flight

server == <<sessions, history, profiles>>
ghosts == <<turns, orders, found, overlaps>>
vars   == <<server, page, req, ghosts>>

\* Of the history only the user's keywords matter.
Sayings == [role : {"user"}, words : SUBSET {"confirm", "return", "hotel", "flight", "place"}]
Answers == [role : {"assistant"}, words : {{}}]
Entry   == Sayings \cup Answers

ASSUME NoHistory == None \notin Seq(Entry)

Offered == [flights : Seq(FlightIds), hotels : Seq(HotelIds)]
Nothing == [flights |-> <<>>, hotels |-> <<>>]

Tools == {"search_flights", "search_hotels", "book_flight", "book_hotel", "modify_booking"}

Reply ==
    [kind : {"ask", "message", "tool", "error"}, track : Tracks \cup {None},
     field : Fields \cup {None}, tool : Tools \cup {None}, id : Options \cup {None}]

Said    == [kind |-> "message", track |-> None, field |-> None, tool |-> None, id |-> None]
Failure == [Said EXCEPT !.kind = "error"]
Tool(t, id) == [Said EXCEPT !.kind = "tool", !.tool = t, !.id = id]

Idle == [at |-> "idle"]

InProgress ==
    [at : {"sent", "phrasing", "planning", "replied", "searching"},
     token : Tokens,
     msg : Message(Options),
     answering : BOOLEAN,
     answers : Fields \cup {None},  \* the question it was suggested for, if the latest
     track : Tracks,
     context : Offered,
     read : Seq(Entry),             \* the history it has read
     reply : Reply]

Page ==
    [token : Tokens \cup {None},
     awaiting : BOOLEAN,            \* awaitingAnswer
     asked : Fields \cup {None},    \* the latest question
     track : Tracks,
     offered : Offered,             \* lastFlight and lastHotel are the first ones
     suggested : SUBSET Fields,     \* the questions whose suggestions are in the log
     shown : SUBSET Options,        \* the options whose Select buttons are
     sendable : BOOLEAN]

NewPage(t) ==
    [token |-> t, awaiting |-> FALSE, asked |-> None, track |-> "flight",
     offered |-> Nothing, suggested |-> {}, shown |-> {}, sendable |-> TRUE]

TypeOK ==
    /\ sessions \in [Tokens -> {"new", "live", "over"}]
    /\ history \in [Tokens -> Seq(Entry) \cup {None}]
    /\ profiles \in [Tokens -> Profile]
    /\ page \in Page
    /\ req \in [Requests -> InProgress \cup {Idle}]
    /\ turns \in 0 .. MaxTurns
    /\ orders \in Seq([id : Options, told : BOOLEAN])
    /\ found \in [{"flights", "hotels"} -> Nat]
    /\ overlaps \in 0 .. MaxOverlaps

Init ==
    /\ sessions = [t \in Tokens |-> "new"]
    /\ history = [t \in Tokens |-> None]
    /\ profiles = [t \in Tokens |-> Unknown]
    /\ page = NewPage(None)
    /\ req = [q \in Requests |-> Idle]
    /\ turns = 0
    /\ orders = <<>>
    /\ found = [flights |-> 0, hotels |-> 0]
    /\ overlaps = 0

Live == {t \in Tokens : sessions[t] = "live"}
Busy == \E q \in Requests : req[q] # Idle

CountOverlap ==
    /\ Busy => overlaps < MaxOverlaps
    /\ overlaps' = IF Busy THEN overlaps + 1 ELSE overlaps

OneAtATime == overlaps = 0
-----------------------------------------------------------------------------
(***************************************************************************)
(* Sessions.                                                               *)
(***************************************************************************)
Login(t) ==
    /\ page.token \notin Live
    /\ sessions[t] = "new"
    /\ sessions' = [sessions EXCEPT ![t] = "live"]
    /\ history' = [history EXCEPT ![t] = <<>>]
    /\ page' = NewPage(t)
    /\ UNCHANGED <<profiles, req, ghosts>>

\* Mutant: the history stays.
Logout_Keeps(t) ==
    /\ t \in Live
    /\ sessions' = [sessions EXCEPT ![t] = "over"]
    /\ CountOverlap
    /\ UNCHANGED <<history, profiles, page, req, turns, orders, found>>

\* The trip profile stays.
Logout(t) ==
    /\ t \in Live
    /\ sessions' = [sessions EXCEPT ![t] = "over"]
    /\ history' = [history EXCEPT ![t] = None]
    /\ CountOverlap
    /\ UNCHANGED <<profiles, page, req, turns, orders, found>>
-----------------------------------------------------------------------------
(***************************************************************************)
(* The page sends a message.                                               *)
(***************************************************************************)
Send(q, m, answering, answers) ==
    /\ page.token # None
    /\ req[q] = Idle
    /\ turns < MaxTurns
    /\ turns' = turns + 1
    /\ CountOverlap
    /\ req' = [req EXCEPT ![q] =
                [at |-> "sent", token |-> page.token, msg |-> m,
                 answering |-> answering \/ page.awaiting, answers |-> answers,
                 track |-> page.track, context |-> page.offered, read |-> <<>>, reply |-> Said]]
    /\ page' = [page EXCEPT !.sendable = FALSE]
    /\ UNCHANGED <<server, orders, found>>

\* The send button is off while a message is in flight.
Type(q) ==
    /\ page.sendable
    /\ \E m \in Typed : Send(q, m, FALSE, None)

\* Suggestions of earlier questions stay in the log.
ClickAnswer(q) ==
    \E f \in page.suggested : \E m \in Suggestions(f) :
        Send(q, m, TRUE, IF page.awaiting /\ f = page.asked THEN f ELSE None)

\* "I want to plan a trip", "Find me a hotel", "Book my return flight".
Starters ==
    {[Blank EXCEPT !.mentions = {"trip"}],
     [Blank EXCEPT !.mentions = {"hotel"}, !.words = {"hotel"}],
     [Blank EXCEPT !.mentions = {"return", "flight"}, !.words = {"confirm", "return", "flight"}]}

ClickStarter(q) == \E m \in Starters : Send(q, m, FALSE, None)

\* "Yes, book flight HA733"; the id of a hotel names its city.
Selection(id) ==
    IF id \in FlightIds
    THEN [Blank EXCEPT !.names = id, !.mentions = {"flight"}, !.words = {"confirm", "flight"}]
    ELSE [Blank EXCEPT !.names = id, !.mentions = {"hotel"}, !.words = {"confirm", "hotel"},
                       !.lone = CityOf[id]]

\* So do the Select buttons of earlier results.
ClickSelect(q) == \E id \in page.shown : Send(q, Selection(id), FALSE, None)
-----------------------------------------------------------------------------
(***************************************************************************)
(* POST /api/plan.                                                         *)
(***************************************************************************)
Read(t) == IF history[t] = None THEN <<>> ELSE history[t]

\* Mutant: one entry more is retained.
Latest_OffByOne(s) == SubSeq(s, IF Len(s) > Limit + 1 THEN Len(s) - Limit ELSE 1, Len(s))

Latest(s) == SubSeq(s, IF Len(s) > Limit THEN Len(s) - Limit + 1 ELSE 1, Len(s))

\* recordTurn: what was read plus this exchange, whatever was written since
\* and whether or not the session still exists.
RecordTurn(r, read) ==
    history' = [history EXCEPT ![r.token] =
        Latest(read \o <<[role |-> "user", words |-> r.msg.words],
                         [role |-> "assistant", words |-> {}]>>)]

Answer(q, answer) ==
    req' = [req EXCEPT ![q].at = "replied", ![q].read = <<>>, ![q].reply = answer]

\* 401.
Unauthorized(q) ==
    /\ req[q].at = "sent"
    /\ req[q].token \notin Live
    /\ Answer(q, Failure)
    /\ UNCHANGED <<server, page, ghosts>>

Confirming(m) == m.names # None

SearchIntent(r, track) ==
    /\ ~Confirming(r.msg)
    /\ \/ track \in {"hotel", "return"}
       \/ r.msg.mentions \cap {"flight", "trip"} # {}
       \/ r.answering

\* The engine asks, in its own words (or cached ones) or in those of the model.
Ask(q, track, field) ==
    LET answer == [Said EXCEPT !.kind = "ask", !.track = track, !.field = field]
    IN \/ /\ RecordTurn(req[q], Read(req[q].token))
          /\ Answer(q, answer)
       \/ /\ HasModel
          /\ req' = [req EXCEPT ![q].at = "phrasing", ![q].read = Read(req[q].token),
                                ![q].reply = answer]
          /\ UNCHANGED history

Search(q, track) ==
    /\ RecordTurn(req[q], Read(req[q].token))
    /\ Answer(q, [Tool(IF track = "hotel" THEN "search_hotels" ELSE "search_flights", None)
                    EXCEPT !.track = track])

AwaitPlan(q) ==
    /\ req' = [req EXCEPT ![q].at = "planning", ![q].read = Read(req[q].token)]
    /\ UNCHANGED history

\* Up to the first await.
Gather(q) ==
    /\ req[q].at = "sent"
    /\ req[q].token \in Live
    /\ LET r     == req[q]
           track == ResolveTrack(r.msg, r.answering, r.track)
           p     == ExtractSlots(r.msg, profiles[r.token], track = "return")
           field == NextQuestion(p, track)
       IN /\ profiles' = [profiles EXCEPT ![r.token] = p]
          /\ IF ~SearchIntent(r, track) THEN AwaitPlan(q)
             ELSE IF field # None THEN Ask(q, track, field)
             ELSE Search(q, track)
    /\ UNCHANGED <<sessions, page, ghosts>>

\* phraseQuestion resolves, to the model's words or, where they are not
\* acceptable or the provider fails, to the engine's own.
Phrased(q) ==
    /\ req[q].at = "phrasing"
    /\ RecordTurn(req[q], req[q].read)
    /\ Answer(q, req[q].reply)
    /\ UNCHANGED <<sessions, profiles, page, ghosts>>

\* Mutant: the timer is not armed.
PhraseTimesOut_Unarmed(q) == FALSE /\ Phrased(q)

\* The timer ends the race; what the provider says later is dropped.
PhraseTimesOut(q) == Phrased(q)

(***************************************************************************)
(* The planners.                                                           *)
(***************************************************************************)
InSeq(x, s) == \E i \in DOMAIN s : s[i] = x

\* validatePlannedToolCall: only what is offered may be booked.
Valid(reply, context) ==
    /\ reply.tool = "book_flight" => InSeq(reply.id, context.flights)
    /\ reply.tool = "book_hotel" => InSeq(reply.id, context.hotels)

\* What the scripted planner books once "yes", "book" or "option 1" was said:
\* an offered option that the message names, else the first hotel, else the
\* first flight.
Chosen(m, context) ==
    LET hotelOnly  == "hotel" \in m.words /\ "flight" \notin m.words
        flightOnly == "flight" \in m.words /\ "hotel" \notin m.words
    IN IF InSeq(m.names, context.flights) /\ ~hotelOnly THEN m.names
       ELSE IF InSeq(m.names, context.hotels) /\ ~flightOnly THEN m.names
       ELSE IF context.hotels # <<>> THEN Head(context.hotels)
       ELSE IF context.flights # <<>> THEN Head(context.flights)
       ELSE None

Booking(id) == Tool(IF id \in FlightIds THEN "book_flight" ELSE "book_hotel", id)

\* The keywords of all that the user has said, in the history too.
WordsSaid(r) ==
    r.msg.words \cup UNION {r.read[i].words : i \in DOMAIN r.read}

ScriptedPlan(r) ==
    LET words == WordsSaid(r)
    IN IF "confirm" \in words /\ Chosen(r.msg, r.context) # None
       THEN Booking(Chosen(r.msg, r.context))
       ELSE IF "return" \in words THEN Tool("search_flights", None)
       ELSE IF "hotel" \in words THEN Tool("search_hotels", None)
       ELSE IF words \cap {"flight", "place"} # {} THEN Tool("search_flights", None)
       ELSE Said

\* Any text, or any call that is not refused; a refusal is answered in words.
ModelPlans(r) ==
    {Said} \cup {c \in {Tool(t, None) : t \in {"search_flights", "search_hotels", "modify_booking"}}
                        \cup {Booking(id) : id \in Options} : Valid(c, r.context)}

\* Without a model, or when it is unavailable: the scripted planner.
Planned(q) ==
    /\ req[q].at = "planning"
    /\ \E answer \in {ScriptedPlan(req[q])} \cup (IF HasModel THEN ModelPlans(req[q]) ELSE {}) :
            Answer(q, answer)
    /\ RecordTurn(req[q], req[q].read)
    /\ UNCHANGED <<sessions, profiles, page, ghosts>>
-----------------------------------------------------------------------------
(***************************************************************************)
(* The page gets its answer, unless it is gone.                            *)
(***************************************************************************)
Receives(q, kind) ==
    /\ req[q].at = "replied"
    /\ req[q].token = page.token
    /\ req[q].reply.kind = kind

Done(q) == req' = [req EXCEPT ![q] = Idle]

Discard(q) ==
    /\ req[q].at = "replied"
    /\ req[q].token # page.token
    /\ Done(q)
    /\ UNCHANGED <<server, page, ghosts>>

ReceiveError(q) ==
    /\ Receives(q, "error")
    /\ page' = [page EXCEPT !.sendable = TRUE]
    /\ Done(q)
    /\ UNCHANGED <<server, ghosts>>

ReceiveMessage(q) ==
    /\ Receives(q, "message")
    /\ page' = [page EXCEPT !.awaiting = FALSE, !.sendable = TRUE]
    /\ Done(q)
    /\ UNCHANGED <<server, ghosts>>

ReceiveQuestion(q) ==
    /\ Receives(q, "ask")
    /\ LET a == req[q].reply
       IN page' = [page EXCEPT !.awaiting = TRUE, !.asked = a.field, !.track = a.track,
                               !.suggested = @ \cup {a.field}, !.sendable = TRUE]
    /\ Done(q)
    /\ UNCHANGED <<server, ghosts>>

\* Did the message ask for this booking: by name, or by a plain yes?
ToldToBook(r, id) ==
    IF r.msg.names # None THEN r.msg.names = id ELSE "confirm" \in r.msg.words

\* Mutant: what is offered stays on offer.
Withdrawn_Nothing(offered, tool) == offered

\* What is left on offer by a booking.
Withdrawn(offered, tool) ==
    CASE tool = "book_flight" -> [offered EXCEPT !.flights = <<>>]
      [] tool = "book_hotel" -> [offered EXCEPT !.hotels = <<>>]
      [] OTHER -> offered

ReceiveTool(q) ==
    /\ Receives(q, "tool")
    /\ LET r == req[q]
           a == r.reply
           searches == a.tool \in {"search_flights", "search_hotels"}
       IN /\ page' = [page EXCEPT
                !.awaiting = FALSE,
                !.track = IF a.tool = "search_hotels" THEN "hotel" ELSE FirstOf(a.track, @),
                !.offered = Withdrawn(@, a.tool),
                !.sendable = ~searches]
          /\ IF searches THEN req' = [req EXCEPT ![q].at = "searching"] ELSE Done(q)
          /\ orders' = IF a.id # None
                       THEN Append(orders, [id |-> a.id, told |-> ToldToBook(r, a.id)])
                       ELSE orders
    /\ UNCHANGED <<server, turns, found, overlaps>>

\* The search's results replace what was on offer.
Show(q) ==
    /\ req[q].at = "searching"
    /\ req[q].token = page.token
    /\ LET kind == IF req[q].reply.tool = "search_hotels" THEN "hotels" ELSE "flights"
       IN \E ids \in Results[kind] :
            /\ page' = [page EXCEPT !.offered[kind] = ids, !.sendable = TRUE,
                                    !.shown = @ \cup {ids[i] : i \in DOMAIN ids}]
            /\ found' = [found EXCEPT ![kind] = @ + 1]
    /\ Done(q)
    /\ UNCHANGED <<server, turns, orders, overlaps>>

\* The search fails, or the page is gone.
ShowNothing(q) ==
    /\ req[q].at = "searching"
    /\ page' = IF req[q].token = page.token THEN [page EXCEPT !.sendable = TRUE] ELSE page
    /\ Done(q)
    /\ UNCHANGED <<server, ghosts>>
-----------------------------------------------------------------------------
UserSends(q) == Type(q) \/ ClickAnswer(q) \/ ClickStarter(q) \/ ClickSelect(q)

Serve(q) == Unauthorized(q) \/ Gather(q)

Receive(q) ==
    \/ Discard(q) \/ ReceiveError(q) \/ ReceiveMessage(q) \/ ReceiveQuestion(q)
    \/ ReceiveTool(q) \/ Show(q) \/ ShowNothing(q)

Next ==
    \/ \E t \in Tokens : Login(t) \/ Logout(t)
    \/ \E q \in Requests :
        UserSends(q) \/ Serve(q) \/ Phrased(q) \/ PhraseTimesOut(q) \/ Planned(q) \/ Receive(q)

Spec == Init /\ [][Next]_vars

\* The server handles what arrives and its timers fire; the model need not
\* answer.
Fairness == \A q \in Requests : WF_vars(Serve(q)) /\ WF_vars(PhraseTimesOut(q))

FairSpec == Spec /\ Fairness
-----------------------------------------------------------------------------
(***************************************************************************)
(* Properties.                                                             *)
(***************************************************************************)

\* However requests overlap, what a provider gets to see as history is whole
\* exchanges, beginning with the user.
HistoryAlternates ==
    \A t \in Tokens : history[t] # None =>
        /\ Len(history[t]) % 2 = 0 /\ Len(history[t]) <= Limit
        /\ \A i \in DOMAIN history[t] : history[t][i].role = IF i % 2 = 1 THEN "user" ELSE "assistant"

\* One message at a time, a session's history is the transcript of its latest
\* exchanges, and nothing of it is left after logout.
Transcript ==
    INSTANCE PlanTranscript WITH live <- Live, transcript <- history

ImplementsTranscript ==
    Transcript!Init /\ [][OneAtATime' => [Transcript!Next]_<<Live, history>>]_vars

\* One message at a time, tapping a suggested answer moves the conversation
\* on: the same question does not come back, on any leg of the trip.  (The
\* trip must not lead to the city that is suggested as its origin.)
AnswerMovesOn ==
    \A q \in Requests :
        (OneAtATime /\ req[q] # Idle /\ req[q].at = "replied" /\ req[q].reply.kind = "ask"
            /\ profiles[req[q].token].destination # Home)
        => req[q].reply.field # req[q].answers

Ordered(ids) == Cardinality({i \in DOMAIN orders : orders[i].id \in ids})

\* One message at a time, whatever the model plans: no search leads to two
\* bookings.
OneBookingPerSearch ==
    OneAtATime => /\ Ordered(FlightIds) <= found.flights
                  /\ Ordered(HotelIds) <= found.hotels

\* A question of the engine is answered whether or not the model answers.
QuestionsEnd ==
    \A q \in Requests : (req[q].at = "phrasing") ~> (req[q].at # "phrasing")

\* The first result is booked when the user just says yes, and a named option
\* wins over it (comments of gemini.ts).
BookedAsTold == \A i \in DOMAIN orders : orders[i].told
=============================================================================
