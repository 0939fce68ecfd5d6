----------------------------- MODULE GuardedTool -----------------------------
(***************************************************************************)
(* A protected tool call of the travel concierge, from the agent that has  *)
(* a presentation signed (agent/tools/protectedCall.ts) to the MCP server  *)
(* that has it verified before it runs the tool (mcp-server/server.ts).    *)
(*                                                                         *)
(* The caller and the server are two processes: a caller whose request     *)
(* fails or times out learns nothing, and the server may still run the     *)
(* tool.  The server asks the platform first, which also records the       *)
(* verdict for the audit log; a presentation that the platform does not    *)
(* accept goes on to the middleware if its credential is a delegated one.  *)
(* Credentials may be revoked at any step.                                 *)
(***************************************************************************)
EXTENDS Naturals, FiniteSets

CONSTANTS
    Calls,     \* the tool calls, each made once
    Tools,
    Needs,     \* the scope that each tool requires
    Creds,     \* the platform's credentials
    Chain,     \* a credential and the ancestors that it is delegated from
    ScopesOf,  \* its privilege scopes
    MaxRevoked, \* how many credentials are revoked while the calls are made
    None

ASSUME ToolAssumption ==
    /\ Chain \in [Creds -> SUBSET Creds] /\ \A c \in Creds : c \in Chain[c]
    /\ None \notin Creds

VARIABLES
    revoked,  \* the revoked credentials
    call,     \* each call at its caller
    job,      \* each call at the server
    ran       \* the calls whose tool ran

toolVars == <<revoked, call, job, ran>>

Job ==
    [at : {"verify", "gate", "run"}, tool : Tools, vp : Creds,
     fresh    : BOOLEAN,  \* was the credential good when the call arrived?
     verified : BOOLEAN]  \* the platform's verdict, recorded as VP_VERIFIED
Done == [at : {"done"}, ok : BOOLEAN]

ASSUME NoJob == None \notin Job \cup Done

ToolTypeOK ==
    /\ revoked \subseteq Creds
    /\ call \in [Calls -> {"unmade", "sign", "sent", "closed"}]
    /\ job \in [Calls -> Job \cup Done \cup {None}]
    /\ ran \subseteq Calls

ToolInit ==
    /\ revoked = {}
    /\ call = [k \in Calls |-> "unmade"]
    /\ job = [k \in Calls |-> None]
    /\ ran = {}
-----------------------------------------------------------------------------
\* A credential is good while it and its ancestors are.
Good(c) == Chain[c] \cap revoked = {}

\* isDelegatedVP
Delegated(c) == Chain[c] # {c}

Revoke(c) ==
    /\ c \notin revoked /\ Cardinality(revoked) < MaxRevoked
    /\ revoked' = revoked \cup {c}
    /\ UNCHANGED <<call, job, ran>>

(***************************************************************************)
(* The caller.                                                             *)
(***************************************************************************)
\* callProtectedTool begins.
Make(k) ==
    /\ call[k] = "unmade"
    /\ call' = [call EXCEPT ![k] = "sign"]
    /\ UNCHANGED <<revoked, job, ran>>

\* signVP, and the request reaches the server.  A revoked credential is signed
\* for too.
Sign(k, tool, vp) ==
    /\ call[k] = "sign"
    /\ call' = [call EXCEPT ![k] = "sent"]
    /\ job' = [job EXCEPT ![k] = [at |-> "verify", tool |-> tool, vp |-> vp,
                                  fresh |-> Good(vp), verified |-> FALSE]]
    /\ UNCHANGED <<revoked, ran>>

\* The platform does not sign, the connection fails, or the client's timeout
\* passes: the call throws.
Lose(k) ==
    /\ call[k] \in {"sign", "sent"}
    /\ call' = [call EXCEPT ![k] = "closed"]
    /\ UNCHANGED <<revoked, job, ran>>

Receive(k) ==
    /\ call[k] = "sent" /\ job[k].at = "done"
    /\ call' = [call EXCEPT ![k] = "closed"]
    /\ job' = [job EXCEPT ![k] = None]
    /\ UNCHANGED <<revoked, ran>>
-----------------------------------------------------------------------------
(***************************************************************************)
(* The server: registerGuardedTool's handler.                              *)
(***************************************************************************)
JobAt(k, step) == job[k] # None /\ job[k].at = step

Step(k, step) == job' = [job EXCEPT ![k].at = step]

Finish(k, ok) == job' = [job EXCEPT ![k] = [at |-> "done", ok |-> ok]]

\* verifyWithApi: the platform accepts, and records so.
Verified(k) ==
    /\ JobAt(k, "verify")
    /\ Good(job[k].vp)
    /\ job' = [job EXCEPT ![k].at = "gate", ![k].verified = TRUE]
    /\ UNCHANGED <<revoked, call, ran>>

\* Mutant: any presentation is given a second try.
Unverified_All(k) ==
    /\ JobAt(k, "verify")
    /\ Step(k, "gate")
    /\ UNCHANGED <<revoked, call, ran>>

\* The platform rejects the presentation, or is not reached.
Unverified(k) ==
    /\ JobAt(k, "verify")
    /\ IF Delegated(job[k].vp) THEN Step(k, "gate") ELSE Finish(k, FALSE)
    /\ UNCHANGED <<revoked, call, ran>>

\* The middleware verifies the chain and its status again, and the scope.
Pass(k) ==
    /\ JobAt(k, "gate")
    /\ Good(job[k].vp) /\ Needs[job[k].tool] \in ScopesOf[job[k].vp]
    /\ Step(k, "run")
    /\ UNCHANGED <<revoked, call, ran>>

\* It refuses, or fails because it does not reach the platform.
Deny(k) ==
    /\ JobAt(k, "gate")
    /\ Finish(k, FALSE)
    /\ UNCHANGED <<revoked, call, ran>>

Run(k) ==
    /\ JobAt(k, "run")
    /\ ran' = ran \cup {k}
    /\ Finish(k, TRUE)
    /\ UNCHANGED <<revoked, call>>

Serve(k) == Verified(k) \/ Unverified(k) \/ Pass(k) \/ Deny(k) \/ Run(k)
=============================================================================
