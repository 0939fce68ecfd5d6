---------------------------- MODULE MCPlanSession ----------------------------
(***************************************************************************)
(* The demo's inventory, thinned out: one hotel, two flights, and what a   *)
(* user types besides clicking.                                            *)
(***************************************************************************)
EXTENDS PlanSession

CONSTANTS TVM, DEL, HA733, HA734, HSDEL1, q1, q2, t1, t2

CityOf_ == [h \in HotelIds |-> DEL]

Results_ ==
    [flights |-> {<<HA733>>, <<HA734>>}, hotels |-> {<<HSDEL1>>}]

\* "Fly from TVM to Delhi on 2026-08-15, 2 travellers, any airline."
Full ==
    [Blank EXCEPT !.from = TVM, !.to = DEL, !.mentions = {"flight"}, !.words = {"place"},
                  !.gives = {"date", "hotelBudget", "travelers", "airlinePreference"}]

\* "Fly to TVM."
ToHome == [Blank EXCEPT !.to = TVM, !.mentions = {"flight"}]

\* "yes"
Yes == [Blank EXCEPT !.words = {"confirm"}]

\* "thanks"
Thanks == Blank

Typed_ == {Full, ToHome, Yes, Thanks}
=============================================================================
