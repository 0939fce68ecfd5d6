---------------------------- MODULE MCConsentGate ----------------------------
(***************************************************************************)
(* Instances of ConsentGate for TLC: two SPs, the airline with a booking   *)
(* and an open search tool, the hotel with a booking tool; an agent whose  *)
(* credential may lack one of the scopes.                                  *)
(***************************************************************************)
EXTENDS ConsentGate

CONSTANTS airline, hotel, ada, eve, terms, book, modify, stay, c1

Service_ ==
    [t \in Tools |-> IF t = "book_hotel" THEN hotel ELSE airline]

RequiredScope_ ==
    [t \in Tools |-> CASE t = "book_flight" -> book
                       [] t = "modify_booking" -> modify
                       [] t = "book_hotel" -> stay
                       [] t = "search_flights" -> Open]

Tools_  == {"book_flight", "book_hotel", "search_flights"}
Airline == {"book_flight", "modify_booking", "search_flights"}
=============================================================================
