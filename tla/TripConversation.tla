--------------------------- MODULE TripConversation ---------------------------
(***************************************************************************)
(* The travel planner's conversation engine (e2e-consent-demo,             *)
(* agent/conversation.ts and its Python port): what a message reveals,     *)
(* what is still missing for a search, and which leg of the trip it is     *)
(* about.  Functions only; PlanSession has the state.                      *)
(*                                                                         *)
(* A message is what the engine's patterns and the scripted planner's      *)
(* keywords find in its text.                                              *)
(***************************************************************************)
EXTENDS Sequences, FiniteSetsExt

CONSTANTS
    Cities,
    Home,     \* the one departure city that is suggested
    Away,     \* the suggested destinations
    None

ASSUME CitiesAssumption ==
    /\ Home \in Cities /\ Away \subseteq Cities \ {Home}
    /\ None \notin Cities

Tracks  == {"flight", "hotel", "return"}
Details == {"departureDate", "returnDate", "travelers", "airlinePreference", "hotelBudget"}
Fields  == {"destination", "origin"} \cup Details

\* Of the details only matters whether they are known.
Profile == [origin : Cities \cup {None}, destination : Cities \cup {None}, has : SUBSET Details]

Unknown == [origin |-> None, destination |-> None, has |-> {}]

-----------------------------------------------------------------------------
\* What the patterns find: "from X" and "to Y", the first city named at all,
\* a correction, a date, travelers, an airline, a budget; the subjects that
\* mentionsHotel and its like look for; an option that is named to be booked;
\* the scripted planner's keywords.
Message(Options) ==
    [from : Cities \cup {None}, to : Cities \cup {None}, lone : Cities \cup {None},
     correcting : BOOLEAN,
     gives : SUBSET {"date", "travelers", "airlinePreference", "hotelBudget"},
     mentions : SUBSET {"hotel", "return", "flight", "trip"},
     names : Options \cup {None},
     words : SUBSET {"confirm", "return", "hotel", "flight", "place"}]

Blank ==
    [from |-> None, to |-> None, lone |-> None, correcting |-> FALSE,
     gives |-> {}, mentions |-> {}, names |-> None, words |-> {}]

CityNamed(c) ==
    [Blank EXCEPT !.lone = c, !.words = IF c \in Away THEN {"place"} ELSE {}]

\* The suggestions of a question.  Any run of four digits is read as a budget,
\* the year of a date too.
Suggestions(field) ==
    CASE field = "destination" -> {CityNamed(c) : c \in Away}
      [] field = "origin" -> {CityNamed(Home)}
      [] field \in {"departureDate", "returnDate"} ->
            {[Blank EXCEPT !.gives = {"date", "hotelBudget"}]}
      [] field = "travelers" -> {[Blank EXCEPT !.gives = {"travelers"}]}
      [] field = "airlinePreference" ->
            {[Blank EXCEPT !.gives = {"airlinePreference"}, !.mentions = m] :
                m \in {{}, {"flight"}}}
      [] field = "hotelBudget" -> {[Blank EXCEPT !.gives = {"hotelBudget"}]}

-----------------------------------------------------------------------------
\* A reply stays on the leg of the question.
ResolveTrack(m, answering, track) ==
    IF "hotel" \in m.mentions THEN "hotel"
    ELSE IF "return" \in m.mentions THEN "return"
    ELSE IF answering THEN track ELSE "flight"

\* "From X to X" is read as an origin only.
To(m) == IF m.to = m.from THEN None ELSE m.to

\* A city without a preposition.
Lone(m) == IF m.from = None /\ To(m) = None THEN m.lone ELSE None

FirstOf(a, b) == IF a # None THEN a ELSE b

\* A lone city is the origin if that is what is missing, else the destination.
AnswersOrigin(m, p) ==
    /\ ~m.correcting
    /\ p.destination \notin {None, Lone(m)}
    /\ p.origin = None

DateField(forReturn) == IF forReturn THEN "returnDate" ELSE "departureDate"

\* Mutant: the message alone says which leg its date belongs to.
ExtractSlots_ByMessage(m, p, forReturn) ==
    [origin |-> IF Lone(m) # None /\ AnswersOrigin(m, p)
                THEN Lone(m) ELSE FirstOf(m.from, p.origin),
     destination |-> IF Lone(m) # None /\ ~AnswersOrigin(m, p)
                     THEN Lone(m) ELSE FirstOf(To(m), p.destination),
     has |-> p.has \cup (m.gives \ {"date"})
                   \cup (IF "date" \in m.gives THEN {DateField("return" \in m.mentions)} ELSE {})]

\* Later mentions win.
ExtractSlots(m, p, forReturn) ==
    [origin |-> IF Lone(m) # None /\ AnswersOrigin(m, p)
                THEN Lone(m) ELSE FirstOf(m.from, p.origin),
     destination |-> IF Lone(m) # None /\ ~AnswersOrigin(m, p)
                     THEN Lone(m) ELSE FirstOf(To(m), p.destination),
     has |-> p.has \cup (m.gives \ {"date"})
                   \cup (IF "date" \in m.gives THEN {DateField(forReturn)} ELSE {})]

-----------------------------------------------------------------------------
Filled(p, field) ==
    CASE field = "destination" -> p.destination # None
      [] field = "origin" -> p.origin # None
      [] OTHER -> field \in p.has

\* The first of these fields that is not filled, None if all are.
FirstMissing(p, fields) ==
    LET missing == {i \in DOMAIN fields : ~Filled(p, fields[i])}
    IN IF missing = {} THEN None ELSE fields[Min(missing)]

NextFlightQuestion(p) ==
    FirstMissing(p, <<"destination", "origin", "departureDate", "travelers", "airlinePreference">>)

NextHotelQuestion(p) == FirstMissing(p, <<"destination", "hotelBudget">>)

NextReturnQuestion(p) == FirstMissing(p, <<"destination", "origin", "returnDate">>)

NextQuestion(p, track) ==
    CASE track = "hotel" -> NextHotelQuestion(p)
      [] track = "return" -> NextReturnQuestion(p)
      [] track = "flight" -> NextFlightQuestion(p)
=============================================================================
