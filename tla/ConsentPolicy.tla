---------------------------- MODULE ConsentPolicy ----------------------------
(***************************************************************************)
(* What the consent demo promises, apart from its mechanism: a protected   *)
(* tool runs only for a call that was authorized, and a call is authorized *)
(* only while the consent it needs is in force.  A need is whatever the    *)
(* user has to agree to: here, a scope at a service.                       *)
(***************************************************************************)
CONSTANTS Calls, Needs

VARIABLES
    consent,     \* the needs the user's consent covers now
    authorized,  \* <<call, need>> pairs that have been let through
    executed     \* <<call, need>> pairs whose tool has run

vars == <<consent, authorized, executed>>

Init == consent = {} /\ authorized = {} /\ executed = {}

\* The user agrees at a service's consent page.
Agree(S) ==
    /\ consent' = consent \cup S
    /\ UNCHANGED <<authorized, executed>>

\* The service revokes.
Withdraw(S) ==
    /\ consent' = consent \ S
    /\ UNCHANGED <<authorized, executed>>

Authorize(c, n) ==
    /\ n \in consent
    /\ authorized' = authorized \cup {<<c, n>>}
    /\ UNCHANGED <<consent, executed>>

Execute(c, n) ==
    /\ <<c, n>> \in authorized
    /\ executed' = executed \cup {<<c, n>>}
    /\ UNCHANGED <<consent, authorized>>

Next ==
    \/ \E S \in SUBSET Needs : Agree(S) \/ Withdraw(S)
    \/ \E c \in Calls, n \in Needs : Authorize(c, n) \/ Execute(c, n)

Spec == Init /\ [][Next]_vars
=============================================================================
