-------------------------- MODULE MCDelegationDemo --------------------------
(***************************************************************************)
(* The demo's two personas with the scopes of server.ts, and a token of    *)
(* the Console that enrolls an agent with both scopes and no delegation.   *)
(***************************************************************************)
EXTENDS DelegationDemo, TLC

CONSTANTS planner, research, read, book, h1, h2

Wants_ ==
    planner  :> [scopes |-> {read, book}, depth |-> 1]
    @@ research :> [scopes |-> {}, depth |-> 0]

Tokens_ == {[scopes |-> {read, book}, depth |-> 0]}

Bodies_ ==
    {[from |-> planner, to |-> research, scopes |-> {read}],
     [from |-> planner, to |-> planner, scopes |-> {book}]}

Symmetry == Permutations({h1, h2})
=============================================================================
