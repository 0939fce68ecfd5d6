----------------------------- MODULE ConsentGate -----------------------------
(***************************************************************************)
(* A tool call of the travel agent at a service provider (SP), end to end: *)
(* callSpTool (e2e-consent-demo/agent/consentAwareCall.ts) looks up a      *)
(* standing grant, has the platform sign a presentation and posts it; the  *)
(* SP's gate (POST /api/mcp in sp-shared/app.ts) has the platform verify   *)
(* it, decides and runs the tool.  Meanwhile users accept at consent pages *)
(* and SPs revoke.                                                         *)
(*                                                                         *)
(* The platform (HelixID API) is external.  From the way this code uses it:*)
(* it keeps every finalized grant and goes on listing it as active after   *)
(* the SP has revoked it; it verifies a presentation against the issuing   *)
(* SP's status list and the user, and reports as effective scopes those of *)
(* the agent credential, intersected with the grant's if there is one.     *)
(***************************************************************************)
EXTENDS Naturals, Sequences

CONSTANTS
    SPs, Users, Scopes, Tools, Calls,
    User,           \* the user the agent acts for
    Service,        \* the SP each tool belongs to
    RequiredScope,  \* the scope each tool requires, or Open
    Open,
    Terms,          \* the scope every acceptance must include
    Ceiling,        \* the privilege scopes of the agent's own credential
    MaxGrants       \* bound on the grants ever issued

ASSUME GateAssumption ==
    /\ User \in Users
    /\ Service \in [Tools -> SPs]
    /\ RequiredScope \in [Tools -> Scopes \cup {Open}]
    /\ Open \notin Scopes
    /\ Terms \in Scopes
    /\ Ceiling \subseteq Scopes
    /\ MaxGrants \in Nat
    /\ Tools # {}

VARIABLES
    grants,   \* the platform's DelegationGrantCredentials for the agent
    revoked,  \* grants whose bit is set in their SP's status list
    pc,       \* where each call is
    tool,     \* the tool it is for
    held,     \* the grant in its presentation, 0 if none
    direct,   \* was it posted by a caller other than callSpTool?
    eff,      \* effectiveScopes as verified
    attempt,  \* 1, or 2 after a consent
    outcome,  \* what the caller got
    runs,     \* how often its tool has run
    seen      \* what there was when the grant was chosen: [grants, revoked]

vars == <<grants, revoked, pc, tool, held, direct, eff, attempt, outcome, runs, seen>>
callVars == <<pc, tool, held, direct, eff, attempt, outcome, runs, seen>>

Grant    == [sp : SPs, user : Users, scopes : SUBSET Scopes]
GrantIds == 1 .. Len(grants)
Steps    == {"idle", "lookup", "posted", "verified", "prompt", "done"}

Protected(c) == RequiredScope[tool[c]] # Open

\* DelegationGrantCredentials of the tool's SP for the agent's user, among
\* the first n grants.
Matching(c, n) ==
    {g \in 1 .. n : grants[g].sp = Service[tool[c]] /\ grants[g].user = User}

\* Does a grant, bounded by the agent's own authority, allow the tool?
Covers(g, c) == RequiredScope[tool[c]] \in grants[g].scopes \cap Ceiling

TypeOK ==
    /\ grants \in Seq(Grant) /\ Len(grants) <= MaxGrants
    /\ revoked \subseteq GrantIds
    /\ pc \in [Calls -> Steps]
    /\ tool \in [Calls -> Tools]
    /\ held \in [Calls -> 0 .. Len(grants)]
    /\ direct \in [Calls -> BOOLEAN]
    /\ eff \in [Calls -> SUBSET Scopes]
    /\ attempt \in [Calls -> {1, 2}]
    /\ outcome \in [Calls -> {"none", "ok", "error", "consent_required"}]
    /\ runs \in [Calls -> Nat]
    /\ seen \in [Calls -> [grants : Nat, revoked : SUBSET Nat]]

Init ==
    /\ grants = <<>>
    /\ revoked = {}
    /\ pc = [c \in Calls |-> "idle"]
    /\ tool \in [Calls -> Tools]
    /\ held = [c \in Calls |-> 0]
    /\ direct = [c \in Calls |-> FALSE]
    /\ eff = [c \in Calls |-> {}]
    /\ attempt = [c \in Calls |-> 1]
    /\ outcome = [c \in Calls |-> "none"]
    /\ runs = [c \in Calls |-> 0]
    /\ seen = [c \in Calls |-> [grants |-> 0, revoked |-> {}]]

Goto(c, step) == pc' = [pc EXCEPT ![c] = step]

\* What there is to choose from: the first n grants.
See(c, n) == seen' = [seen EXCEPT ![c] = [grants |-> n, revoked |-> revoked]]

\* The call is over.
End(c, result) ==
    /\ Goto(c, "done")
    /\ outcome' = [outcome EXCEPT ![c] = result]

-----------------------------------------------------------------------------
(***************************************************************************)
(* Users and SPs.                                                          *)
(***************************************************************************)

\* POST /api/consent/accept as the platform sees it: a selection without a
\* required scope is refused, any other becomes a grant.
Issue(sp, u, S) ==
    /\ Len(grants) < MaxGrants
    /\ Terms \in S
    /\ grants' = Append(grants, [sp |-> sp, user |-> u, scopes |-> S])

Accept(sp, u, S) == Issue(sp, u, S) /\ UNCHANGED <<revoked, callVars>>

RevokeGrant(g) ==
    /\ revoked' = revoked \cup {g}
    /\ UNCHANGED <<grants, callVars>>

-----------------------------------------------------------------------------
(***************************************************************************)
(* The caller.                                                             *)
(***************************************************************************)
BeginCall(c) ==
    /\ pc[c] = "idle"
    /\ Goto(c, "lookup")
    /\ UNCHANGED <<grants, revoked, runs, tool, held, direct, eff, attempt, outcome, seen>>

\* A caller that bypasses callSpTool posts no presentation, or one the
\* platform signed for the agent with any grant in it, or with none.
BeginDirect(c) ==
    /\ pc[c] = "idle"
    /\ Goto(c, "posted")
    /\ direct' = [direct EXCEPT ![c] = TRUE]
    /\ held' \in {[held EXCEPT ![c] = g] : g \in GrantIds \cup {0}}
    /\ See(c, Len(grants))
    /\ UNCHANGED <<grants, revoked, runs, tool, eff, attempt, outcome>>

\* Mutant: a grant of another SP for the same user will do.
Lookup_AnySp(c) ==
    /\ pc[c] = "lookup"
    /\ LET found == {g \in GrantIds : grants[g].user = User} IN
       \E g \in IF found = {} THEN {0} ELSE found : held' = [held EXCEPT ![c] = g]
    /\ See(c, Len(grants))
    /\ Goto(c, "posted")
    /\ UNCHANGED <<grants, revoked, runs, tool, direct, eff, attempt, outcome>>

\* Mutant: the credential of another record than the one found.
Lookup_OffByOne(c) ==
    /\ pc[c] = "lookup"
    /\ held' = [held EXCEPT ![c] = Len(grants) + 1]
    /\ See(c, Len(grants))
    /\ Goto(c, "posted")
    /\ UNCHANGED <<grants, revoked, runs, tool, direct, eff, attempt, outcome>>

\* findExistingGrant takes the first matching credential of the platform's
\* list, whose order nothing in the code fixes; then buildVP and the post.
Lookup(c) ==
    /\ pc[c] = "lookup"
    /\ LET found == Matching(c, Len(grants)) IN
       \E g \in IF found = {} THEN {0} ELSE found : held' = [held EXCEPT ![c] = g]
    /\ See(c, Len(grants))
    /\ Goto(c, "posted")
    /\ UNCHANGED <<grants, revoked, runs, tool, direct, eff, attempt, outcome>>

\* The platform or the SP cannot be reached, or goes down before it answers:
\* callSpTool throws.
CallFails(c) ==
    /\ pc[c] \in {"lookup", "posted", "verified"}
    /\ End(c, "error")
    /\ UNCHANGED <<grants, revoked, runs, tool, held, direct, eff, attempt, seen>>

-----------------------------------------------------------------------------
(***************************************************************************)
(* The SP's gate, in the order of its checks.                              *)
(***************************************************************************)

\* The gate's answer to the first post may make the agent ask for consent;
\* to a retry, or to another caller, it is final.
ConsentRequired(c) ==
    IF direct[c] THEN End(c, "consent_required")
    ELSE IF attempt[c] = 2 THEN End(c, "error")
    ELSE Goto(c, "prompt") /\ UNCHANGED outcome

\* The tool runs; the answer may get lost on its way to the caller, whose
\* post then fails.
Run(c) ==
    /\ runs' = [runs EXCEPT ![c] = @ + 1]
    /\ \E result \in {"ok", "error"} : End(c, result)

\* An open tool runs whatever is presented.
RunOpenTool(c) ==
    /\ pc[c] = "posted"
    /\ ~Protected(c)
    /\ Run(c)
    /\ UNCHANGED <<grants, revoked, tool, held, direct, eff, attempt, seen>>

NoPresentation(c) ==
    /\ pc[c] = "posted"
    /\ Protected(c)
    /\ direct[c] /\ held[c] = 0
    /\ ConsentRequired(c)
    /\ UNCHANGED <<grants, revoked, runs, tool, held, direct, eff, attempt, seen>>

\* Mutant: the status list is not consulted.
Verifiable_NoStatus(c) == held[c] # 0 => grants[held[c]].user = User

\* What the platform finds when it verifies the presentation.
Verifiable(c) ==
    held[c] # 0 => held[c] \notin revoked /\ grants[held[c]].user = User

\* Mutant: the agent's privilege scopes stand for the effective ones.
EffectiveScopes_Privilege(c) == Ceiling

EffectiveScopes(c) ==
    IF held[c] = 0 THEN Ceiling ELSE Ceiling \cap grants[held[c]].scopes

VerifyVP(c) ==
    /\ pc[c] = "posted"
    /\ Protected(c)
    /\ Verifiable(c)
    /\ eff' = [eff EXCEPT ![c] = EffectiveScopes(c)]
    /\ Goto(c, "verified")
    /\ UNCHANGED <<grants, revoked, runs, tool, held, direct, attempt, outcome, seen>>

\* Mutant: the agent starts over when its presentation is rejected.
RejectVP_Retried(c) ==
    /\ pc[c] = "posted"
    /\ Protected(c)
    /\ Goto(c, "lookup")
    /\ UNCHANGED <<grants, revoked, runs, tool, held, direct, eff, attempt, outcome, seen>>

\* VP_INVALID: the presentation does not verify, or the platform cannot say.
RejectVP(c) ==
    /\ pc[c] = "posted"
    /\ Protected(c)
    /\ End(c, "error")
    /\ UNCHANGED <<grants, revoked, runs, tool, held, direct, eff, attempt, seen>>

\* Mutant: any grant will do, whoever issued it.
GrantFromThisSp_AnyIssuer(c) == held[c] # 0

\* Mutant: verified scopes are enough, no grant is asked for.
GrantFromThisSp_NotAsked(c) == TRUE

\* The presentation carries a grant that this SP issued.
GrantFromThisSp(c) == held[c] # 0 /\ grants[held[c]].sp = Service[tool[c]]

\* NO_GRANT_FOR_THIS_SERVICE or INSUFFICIENT_EFFECTIVE_SCOPE.
DenyPolicy(c) ==
    /\ pc[c] = "verified"
    /\ ~GrantFromThisSp(c) \/ RequiredScope[tool[c]] \notin eff[c]
    /\ ConsentRequired(c)
    /\ UNCHANGED <<grants, revoked, runs, tool, held, direct, eff, attempt, seen>>

\* Mutant: the caller posts again when no answer comes.
RunTool_Retried(c) ==
    /\ pc[c] = "verified"
    /\ GrantFromThisSp(c)
    /\ RequiredScope[tool[c]] \in eff[c]
    /\ runs' = [runs EXCEPT ![c] = @ + 1]
    /\ \/ End(c, "ok")
       \/ Goto(c, "posted") /\ UNCHANGED outcome
    /\ UNCHANGED <<grants, revoked, tool, held, direct, eff, attempt, seen>>

RunTool(c) ==
    /\ pc[c] = "verified"
    /\ GrantFromThisSp(c)
    /\ RequiredScope[tool[c]] \in eff[c]
    /\ Run(c)
    /\ UNCHANGED <<grants, revoked, tool, held, direct, eff, attempt, seen>>

-----------------------------------------------------------------------------
(***************************************************************************)
(* onConsentRequired.                                                      *)
(***************************************************************************)

\* It resolves to null: the user declined, or the caller is /api/call, which
\* reports consent_required to the browser instead of waiting.
ConsentRefused(c) ==
    /\ pc[c] = "prompt"
    /\ End(c, "consent_required")
    /\ UNCHANGED <<grants, revoked, runs, tool, held, direct, eff, attempt, seen>>

\* It resolves to the grant the SP issued for this prompt: one retry with it.
ConsentObtained(c, S) ==
    /\ pc[c] = "prompt"
    /\ Issue(Service[tool[c]], User, S)
    /\ held' = [held EXCEPT ![c] = Len(grants) + 1]
    /\ See(c, Len(grants) + 1)
    /\ attempt' = [attempt EXCEPT ![c] = 2]
    /\ eff' = [eff EXCEPT ![c] = {}]
    /\ Goto(c, "posted")
    /\ UNCHANGED <<revoked, runs, tool, direct, outcome>>

-----------------------------------------------------------------------------
Gate(c) == RunOpenTool(c) \/ NoPresentation(c) \/ VerifyVP(c) \/ RejectVP(c)
              \/ DenyPolicy(c) \/ RunTool(c)

Prompted(c) == ConsentRefused(c) \/ \E S \in SUBSET Scopes : ConsentObtained(c, S)

Next ==
    \/ \E sp \in SPs, u \in Users, S \in SUBSET Scopes : Accept(sp, u, S)
    \/ \E g \in GrantIds : RevokeGrant(g)
    \/ \E c \in Calls : BeginCall(c) \/ BeginDirect(c) \/ Lookup(c) \/ CallFails(c)
                            \/ Gate(c) \/ Prompted(c)

Spec == Init /\ [][Next]_vars

\* Servers and agent keep processing what was begun, and the prompt is
\* answered one way or the other; nobody has to call, accept or revoke.
Fairness == \A c \in Calls : WF_vars(Lookup(c) \/ Gate(c) \/ Prompted(c))

FairSpec == Spec /\ Fairness
-----------------------------------------------------------------------------
(***************************************************************************)
(* Properties.                                                             *)
(***************************************************************************)

\* A protected tool has run only in a call that presented a grant issued by
\* that very SP for the agent's user, with the scope the tool requires, and
\* within the agent's own authority: neither the agent's ceiling alone nor
\* another SP's or another user's consent gets through (POST /api/mcp).
RunImpliesConsent ==
    \A c \in Calls : (Protected(c) /\ runs[c] > 0) =>
        /\ held[c] \in Matching(c, Len(grants))
        /\ Covers(held[c], c)

\* A grant that was revoked before the call chose it neither runs the tool nor
\* raises a consent prompt: the SP does not invite the user to re-consent
\* around a revocation.
RevokedIsFinal ==
    \A c \in Calls : (Protected(c) /\ held[c] \in seen[c].revoked) =>
        /\ pc[c] # "prompt" /\ outcome[c] # "consent_required"
        /\ runs[c] = 0

\* A call runs its tool at most once, whatever answers are lost, and a call
\* that asks for consent has not run it: the browser may post it again.
RunsAtMostOnce ==
    \A c \in Calls :
        /\ runs[c] <= 1
        /\ (pc[c] = "prompt" \/ outcome[c] = "consent_required") => runs[c] = 0

\* The user is not asked when every standing grant for this SP and user that
\* the platform held at lookup covers the tool: the grant is reused.
StandingGrantReused ==
    \A c \in Calls : pc[c] = "prompt" =>
        LET standing == Matching(c, seen[c].grants)
        IN  standing = {} \/ \E g \in standing : ~Covers(g, c)

\* Every call that was begun is answered, with at most one retry.
CallsEnd == \A c \in Calls : (pc[c] # "idle") ~> (pc[c] = "done")

(***************************************************************************)
(* The gate implements the policy: a need is a scope at an SP, consent to  *)
(* it is an unrevoked grant, and a call is authorized when the platform    *)
(* has verified such a grant, which may be revoked before the tool runs.   *)
(***************************************************************************)
Need(c) == <<Service[tool[c]], RequiredScope[tool[c]]>>

Consented ==
    {n \in SPs \X Scopes : \E g \in GrantIds \ revoked :
        grants[g].sp = n[1] /\ grants[g].user = User
            /\ n[2] \in grants[g].scopes \cap Ceiling}

Ran(c) == runs[c] > 0 /\ Protected(c)

\* eff is empty until the presentation has been verified.
LetThrough(c) ==
    Protected(c) /\ GrantFromThisSp(c) /\ RequiredScope[tool[c]] \in eff[c]

Authorized == {<<c, Need(c)>> : c \in {d \in Calls : LetThrough(d)}}
Executed   == {<<c, Need(c)>> : c \in {d \in Calls : Ran(d)}}

Policy == INSTANCE ConsentPolicy WITH
    Needs <- SPs \X Scopes,
    consent <- Consented,
    authorized <- Authorized,
    executed <- Executed

\* No protected tool runs in a call that was not authorized while the consent
\* it needs was in force.
ImplementsPolicy == Policy!Spec
=============================================================================
