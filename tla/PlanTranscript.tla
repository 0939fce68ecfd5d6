---------------------------- MODULE PlanTranscript ----------------------------
(***************************************************************************)
(* What the planner's sessions promise: from login to logout a session     *)
(* has one transcript, which grows by whole exchanges and of which the     *)
(* latest entries are retained; nothing is left of it after logout.        *)
(***************************************************************************)
EXTENDS Integers, Sequences

CONSTANTS
    Tokens,
    Sayings, Answers,  \* what the user and the agent may say
    Limit, None

VARIABLES live, transcript

vars == <<live, transcript>>

Latest(s) == SubSeq(s, IF Len(s) > Limit THEN Len(s) - Limit + 1 ELSE 1, Len(s))

Init == live = {} /\ transcript = [t \in Tokens |-> None]

Login(t) ==
    /\ t \notin live
    /\ live' = live \cup {t}
    /\ transcript' = [transcript EXCEPT ![t] = <<>>]

Exchange(t, said, answer) ==
    /\ t \in live
    /\ transcript' = [transcript EXCEPT ![t] = Latest(@ \o <<said, answer>>)]
    /\ UNCHANGED live

Logout(t) ==
    /\ live' = live \ {t}
    /\ transcript' = [transcript EXCEPT ![t] = None]

Next ==
    \E t \in Tokens :
        \/ Login(t) \/ Logout(t)
        \/ \E said \in Sayings, answer \in Answers : Exchange(t, said, answer)

Spec == Init /\ [][Next]_vars
=============================================================================
