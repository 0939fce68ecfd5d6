---------------------------- MODULE ConciergeChat ----------------------------
(***************************************************************************)
(* The travel concierge's chat: the turns of ChatTurn, whose tool calls    *)
(* are the protected calls of GuardedTool.                                 *)
(***************************************************************************)
EXTENDS ChatTurn

CONSTANTS
    PresentedBy   \* the credential with which a persona's presentations are signed

ASSUME ConciergeAssumption ==
    /\ PresentedBy \in [Personas -> Creds]
    /\ Calls = CallIds

vars == <<chatVars, toolVars>>

TypeOK == ChatTypeOK /\ ToolTypeOK

Init == ChatInit /\ ToolInit
-----------------------------------------------------------------------------
Chat(A) == A /\ UNCHANGED toolVars
Tool(A) == A /\ UNCHANGED chatVars

\* The implementations of bookFlight and searchFlights.
StartTool(t) == \E tool \in Tools : CallTool(t, tool) /\ Make(ThisCall(t))

SignForTurn(t) ==
    At(t, "tool") /\ Tool(Sign(ThisCall(t), turn[t].tool, PresentedBy[turn[t].as]))

\* The request to the platform or to the server fails: callProtectedTool
\* throws, and with it the turn.
LoseTool(t) == At(t, "tool") /\ Lose(ThisCall(t)) /\ Throw(t)

\* The server's answer becomes the result, {success, detail}, either way.
GetResult(t) ==
    /\ At(t, "tool")
    /\ Receive(ThisCall(t))
    /\ ToolResult(t, job[ThisCall(t)].ok)

\* The provider's request fails: LlmError.
ProviderFails(t) == At(t, "complete") /\ Chat(Throw(t))

TurnStep(t) ==
    \/ Chat(Answer(t)) \/ ProviderFails(t) \/ Chat(UnknownTool(t)) \/ StartTool(t)
    \/ SignForTurn(t) \/ LoseTool(t) \/ GetResult(t)

Next ==
    \/ \E t \in Turns : Chat(Begin(t)) \/ TurnStep(t)
    \/ \E k \in Calls : Tool(Serve(k))
    \/ \E c \in Creds : Tool(Revoke(c))

\* Every await of a turn ends: the clients of the providers and of the server
\* have timeouts.
Spec == Init /\ [][Next]_vars /\ \A t \in Turns : WF_vars(TurnStep(t))
-----------------------------------------------------------------------------
(***************************************************************************)
(* Properties.                                                             *)
(***************************************************************************)
\* "No VP, an invalid VP, or the wrong scope, and the tool never runs", "a
\* cryptographically enforced, audited decision": a tool that runs was called
\* with a credential that was good when the call arrived, for a scope that the
\* credential has; what the platform has not recorded as verified runs only
\* under a delegated credential.
RunsAreAuthorized ==
    [][\A k \in ran' \ ran :
            /\ job[k].fresh
            /\ Needs[job[k].tool] \in ScopesOf[job[k].vp]
            /\ job[k].verified \/ Delegated(job[k].vp)]_vars

\* "the reply reflects a cryptographically enforced decision": the model is
\* told of a success exactly for the tools that ran, except in turns that fail
\* while theirs is running.
ResultsTellRuns ==
    /\ \A a \in Turns : \A i \in DOMAIN arrays[a] :
        LET m == arrays[a][i] IN m.role = "result" => (m.ok <=> m.id \in ran)
    /\ \A k \in ran : LET t == k[1] IN
        \/ \E i \in DOMAIN arrays[turn[t].hist] :
                arrays[turn[t].hist][i].role = "result" /\ arrays[turn[t].hist][i].id = k
        \/ turn[t].at \in {"tool", "failed"} /\ ThisCall(t) = k

\* "The agent could not complete that request", at the latest: a turn ends.
TurnsEnd == \A t \in Turns : Running(t) ~> ~Running(t)
=============================================================================
