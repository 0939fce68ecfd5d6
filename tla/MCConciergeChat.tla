--------------------------- MODULE MCConciergeChat ---------------------------
EXTENDS ConciergeChat

CONSTANTS t1, t2, c1, concierge, research, search, book, planner_vc, delegated_vc

MCPersonas    == {concierge, research}
MCTools       == {search, book}
MCCreds       == {planner_vc, delegated_vc}
MCNeeds       == [k \in MCTools |-> IF k = search THEN "read:catalog" ELSE "write:orders"]
MCChain       == [c \in MCCreds |-> {planner_vc} \cup {c}]
MCScopesOf    == [c \in MCCreds |->
                    IF c = planner_vc THEN {"read:catalog", "write:orders"} ELSE {"read:catalog"}]
MCPresentedBy == [p \in MCPersonas |-> IF p = concierge THEN planner_vc ELSE delegated_vc]
MCCalls       == CallIds
=============================================================================
