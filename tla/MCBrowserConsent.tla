-------------------------- MODULE MCBrowserConsent --------------------------
(***************************************************************************)
(* Instances of BrowserConsent for TLC: two bookings at the airline and    *)
(* one at the hotel.                                                       *)
(***************************************************************************)
EXTENDS BrowserConsent

CONSTANTS airline, hotel, f1, f2, h1

SpOf_ == [c \in Calls |-> IF c = h1 THEN hotel ELSE airline]
=============================================================================
