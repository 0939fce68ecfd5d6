--------------------------- MODULE DelegationDemo ---------------------------
(***************************************************************************)
(* The travel concierge's agent service (agent/server.ts and its Python    *)
(* port): creating the two demo agents, delegating from one persona to     *)
(* another, revoking a persona's credential and onboarding a persona.      *)
(*                                                                         *)
(* Every request reads the persona registry once, at its start, and then   *)
(* works with what it read through several awaited calls of the platform.  *)
(* The registry itself is PersonaRegistry, the abstraction that            *)
(* PersonaStore implements: addPersona and updatePersona are atomic.       *)
(*                                                                         *)
(* An agent is named by its first credential: enrolling one creates a DID  *)
(* and its root credential together.                                       *)
(***************************************************************************)
EXTENDS Naturals, Sequences

CONSTANTS
    Ids, Source, Target,  \* personas; the two of the demo
    Scopes,
    Wants,      \* what the demo asks for the two: scopes and delegation depth
    Tokens,     \* what a bootstrap token of the Console enrolls
    Bodies,     \* what /delegate-agent is asked: from, to, scopes
    Handlers,   \* requests in progress at one time
    None,
    MaxCreds,   \* bound on the credentials ever issued
    MaxOverlaps \* bound on the requests that begin while another is in progress

Grant == [scopes : SUBSET Scopes, depth : Nat]

ASSUME DemoAssumption ==
    /\ {Source, Target} \subseteq Ids
    /\ Wants \in [{Source, Target} -> Grant]
    /\ Tokens \subseteq Grant
    /\ Bodies \subseteq [from : Ids, to : Ids, scopes : SUBSET Scopes]
    /\ MaxCreds \in Nat /\ MaxOverlaps \in Nat
    /\ None \notin Ids /\ None \notin Nat

CredIds == 1 .. MaxCreds
Dids    == CredIds

Links ==
    [active : CredIds \cup {None},  \* activeCredentialId
     from   : Ids \cup {None},      \* delegatedFromPersonaId
     label  : SUBSET Scopes,        \* delegatedScopes
     scopes : SUBSET Scopes]

ASSUME NoneAssumption == None \notin [did : Dids, link : Links]

VARIABLES
    personas,    \* the registry
    creds,       \* the platform's credentials, in the order of their issue
    revoked,     \* those revoked
    req,         \* each request in progress
    demo,        \* has /delegation-demo-agents just answered, undisturbed?
    overlaps     \* requests that began while another was in progress

vars == <<personas, creds, revoked, req, demo, overlaps>>

Registry == INSTANCE PersonaRegistry WITH registry <- personas

Credential ==
    [did    : Dids,
     by     : Dids \cup {None},  \* the delegator; None: the platform's issuer
     chain  : SUBSET CredIds,    \* it and its ancestors
     scopes : SUBSET Scopes,
     depth  : Nat,
     max    : Nat]

Idle == [at |-> "idle"]

Request ==
    [op     : {"demo", "onboard", "delegate", "revoke"},
     at     : {"look", "list", "enroll", "save", "pick", "issue", "label", "find", "revoke"},
     id     : Ids,                             \* the persona it changes
     was    : Registry!Entry \cup {None},      \* what the registry said of it
     from   : Ids \cup {None},                 \* the delegator, and what the
     by     : Dids \cup {None},                \* registry said of its DID
     scopes : SUBSET Scopes,
     depth  : Nat,
     cred   : CredIds \cup {None}]

TypeOK ==
    /\ personas \in [Ids -> Registry!Entry \cup {None}]
    /\ creds \in Seq(Credential) /\ Len(creds) <= MaxCreds
    /\ revoked \subseteq DOMAIN creds
    /\ req \in [Handlers -> Request \cup {Idle}]
    /\ demo \in {"no", "running", "ready"}
    /\ overlaps \in 0 .. MaxOverlaps

Init ==
    /\ personas = [i \in Ids |-> None]
    /\ creds = <<>>
    /\ revoked = {}
    /\ req = [h \in Handlers |-> Idle]
    /\ demo = "no"
    /\ overlaps = 0
-----------------------------------------------------------------------------
(***************************************************************************)
(* The platform.                                                           *)
(***************************************************************************)
Active(did) == {c \in DOMAIN creds : creds[c].did = did /\ c \notin revoked}

\* Delegated children inherit the revocation of their ancestors.
Verifies(c) == creds[c].chain \cap revoked = {}

Issue(c) == Len(creds) < MaxCreds /\ creds' = Append(creds, c)

\* onboardAgent: a new agent with its root credential.
Onboard(g) ==
    LET n == Len(creds) + 1
    IN Issue([did |-> n, by |-> None, chain |-> {n}, scopes |-> g.scopes,
              depth |-> 0, max |-> g.depth])

\* delegateAuthority: refused without authority to delegate.
DelegateAuthority(did, parent, scopes) ==
    LET p == creds[parent]
    IN /\ Verifies(parent)
       /\ scopes \subseteq p.scopes /\ p.depth < p.max
       /\ Issue([did |-> did, by |-> p.did, chain |-> p.chain \cup {Len(creds) + 1},
                 scopes |-> scopes, depth |-> p.depth + 1, max |-> p.max])

\* What signVP can present for a persona: the credential it names, if that is
\* the agent's, or the agent's only one.
Presented(i) ==
    LET p == personas[i]
        own == Active(p.did)
    IN {c \in own : Verifies(c) /\ (IF p.link.active = None THEN own = {c} ELSE p.link.active = c)}

Authority(i) == UNION {creds[c].scopes : c \in Presented(i)}
-----------------------------------------------------------------------------
(***************************************************************************)
(* Requests.                                                               *)
(***************************************************************************)
Begin(h, r) ==
    /\ req[h] = Idle
    /\ req' = [req EXCEPT ![h] = r]
    /\ IF \A g \in Handlers : req[g] = Idle
       THEN /\ demo' = IF r.op = "demo" THEN "running" ELSE "no"
            /\ UNCHANGED overlaps
       ELSE /\ overlaps < MaxOverlaps
            /\ overlaps' = overlaps + 1
            /\ demo' = "no"

Goto(h, step) == req' = [req EXCEPT ![h].at = step]
Chosen(h, step, c) == req' = [req EXCEPT ![h].at = step, ![h].cred = c]

End(h) == req' = [req EXCEPT ![h] = Idle]

\* A call of the platform or of the registry fails, or the process stops.
Fails(h) ==
    /\ req[h] # Idle
    /\ End(h)
    /\ demo' = "no"
    /\ UNCHANGED <<personas, creds, revoked, overlaps>>

NewRequest(op, step, i) ==
    [op |-> op, at |-> step, id |-> i, was |-> personas[i], from |-> None, by |-> None,
     scopes |-> {}, depth |-> 0, cred |-> None]

(***************************************************************************)
(* /delegation-demo-agents: ensureDelegationPersona for the source, then   *)
(* for the target.                                                         *)
(***************************************************************************)
Ensure(i) ==
    [NewRequest("demo", "look", i) EXCEPT !.scopes = Wants[i].scopes, !.depth = Wants[i].depth]

BeginDemo(h) ==
    /\ Begin(h, Ensure(Source))
    /\ UNCHANGED <<personas, creds, revoked>>

Look(h) ==
    /\ req[h].at = "look"
    /\ req' = [req EXCEPT ![h].was = personas[req[h].id],
                          ![h].at = IF personas[req[h].id] = None THEN "enroll" ELSE "list"]
    /\ UNCHANGED <<personas, creds, revoked, demo, overlaps>>

\* Mutant: a credential with more than was asked for will do.
CanSatisfy_Superset(c, r) ==
    /\ r.scopes \subseteq creds[c].scopes
    /\ creds[c].max >= r.depth
    /\ r.depth = 0 \/ creds[c].by = None

CanSatisfy(c, r) ==
    /\ creds[c].scopes = r.scopes
    /\ creds[c].max >= r.depth
    /\ r.depth = 0 \/ creds[c].by = None

\* The source is done, or both are and the request is answered.
Advance(h) ==
    IF req[h].op = "demo" /\ req[h].id = Source
    THEN req' = [req EXCEPT ![h] = Ensure(Target)] /\ UNCHANGED demo
    ELSE End(h) /\ demo' = IF req[h].op = "demo" /\ demo = "running" THEN "ready" ELSE demo

\* The persona exists, with a credential that will do.
Matches(h) ==
    /\ req[h].at = "list"
    /\ \E c \in Active(req[h].was.did) :
        /\ CanSatisfy(c, req[h])
        /\ LET l == req[h].was.link
           IN IF l.active # c \/ l.from # None \/ l.label # {}
              THEN Chosen(h, "save", c) /\ UNCHANGED demo
              ELSE Advance(h)
    /\ UNCHANGED <<personas, creds, revoked, overlaps>>

NoMatch(h) ==
    /\ req[h].at = "list"
    /\ \A c \in Active(req[h].was.did) : ~CanSatisfy(c, req[h])
    /\ Goto(h, "enroll")
    /\ UNCHANGED <<personas, creds, revoked, demo, overlaps>>

\* enrollPersona, for the demo and for onboarding.
Enroll(h) ==
    /\ req[h].at = "enroll"
    /\ Onboard([scopes |-> req[h].scopes, depth |-> req[h].depth])
    /\ Chosen(h, "save", Len(creds) + 1)
    /\ UNCHANGED <<personas, revoked, demo, overlaps>>

\* Mutant: the labels stay.
Refreshed_KeepsLabels(r, l) == [l EXCEPT !.active = r.cred, !.scopes = r.scopes]

\* The patch of updatePersona: everything but the DID.
Refreshed(r, l) == [active |-> r.cred, from |-> None, label |-> {}, scopes |-> r.scopes]

Save(h) ==
    LET r == req[h]
    IN /\ r.at = "save"
       /\ IF r.was = None
          THEN Registry!Add(r.id, [did |-> r.cred,
                    link |-> [active |-> None, from |-> None, label |-> {}, scopes |-> r.scopes]])
          ELSE Registry!Update(r.id, Refreshed(r, personas[r.id].link))
       /\ Advance(h)
       /\ UNCHANGED <<creds, revoked, overlaps>>

(***************************************************************************)
(* /onboard-agent.                                                         *)
(***************************************************************************)
BeginOnboard(h) ==
    /\ \E i \in Ids, g \in Tokens :
        /\ personas[i] = None
        /\ Begin(h, [NewRequest("onboard", "enroll", i) EXCEPT !.scopes = g.scopes, !.depth = g.depth])
    /\ UNCHANGED <<personas, creds, revoked>>

(***************************************************************************)
(* /delegate-agent.                                                        *)
(***************************************************************************)
BeginDelegate(h) ==
    /\ \E b \in Bodies :
        /\ personas[b.from] # None /\ personas[b.to] # None
        /\ Begin(h, [NewRequest("delegate", "pick", b.to) EXCEPT
                        !.from = b.from, !.by = personas[b.from].did, !.scopes = b.scopes])
    /\ UNCHANGED <<personas, creds, revoked>>

\* findDelegationSourceCredential prefers issuer-backed roots.
Sources(did, scopes) ==
    LET able == {c \in Active(did) :
                    scopes \subseteq creds[c].scopes /\ creds[c].depth + 1 <= creds[c].max}
        roots == {c \in able : creds[c].by = None}
    IN IF roots # {} THEN roots ELSE able

Pick(h) ==
    /\ req[h].at = "pick"
    /\ \E c \in Sources(req[h].by, req[h].scopes) : Chosen(h, "issue", c)
    /\ UNCHANGED <<personas, creds, revoked, demo, overlaps>>

\* 409: "does not have a credential that can delegate".
NothingToPick(h) ==
    /\ req[h].at = "pick"
    /\ Sources(req[h].by, req[h].scopes) = {}
    /\ End(h)
    /\ UNCHANGED <<personas, creds, revoked, demo, overlaps>>

Delegate(h) ==
    /\ req[h].at = "issue"
    /\ DelegateAuthority(req[h].was.did, req[h].cred, req[h].scopes)
    /\ Chosen(h, "label", Len(creds) + 1)
    /\ UNCHANGED <<personas, revoked, demo, overlaps>>

\* Mutant: the target is named as its own delegator.
Labelled_Swapped(r, l) == [l EXCEPT !.active = r.cred, !.from = r.id, !.label = r.scopes]

Labelled(r, l) == [l EXCEPT !.active = r.cred, !.from = r.from, !.label = r.scopes]

Label(h) ==
    LET r == req[h]
    IN /\ r.at = "label"
       /\ Registry!Update(r.id, Labelled(r, personas[r.id].link))
       /\ End(h)
       /\ UNCHANGED <<creds, revoked, demo, overlaps>>

(***************************************************************************)
(* /revoke-agent: the first credential that the platform lists.            *)
(***************************************************************************)
BeginRevoke(h) ==
    /\ \E i \in Ids :
        /\ personas[i] # None
        /\ Begin(h, NewRequest("revoke", "find", i))
    /\ UNCHANGED <<personas, creds, revoked>>

Find(h) ==
    /\ req[h].at = "find"
    /\ \E c \in Active(req[h].was.did) : Chosen(h, "revoke", c)
    /\ UNCHANGED <<personas, creds, revoked, demo, overlaps>>

\* 409: "has no credential to revoke".
NothingToRevoke(h) ==
    /\ req[h].at = "find"
    /\ Active(req[h].was.did) = {}
    /\ End(h)
    /\ UNCHANGED <<personas, creds, revoked, demo, overlaps>>

Revoke(h) ==
    /\ req[h].at = "revoke"
    /\ req[h].cred \notin revoked
    /\ revoked' = revoked \cup {req[h].cred}
    /\ End(h)
    /\ UNCHANGED <<personas, creds, demo, overlaps>>

Handle(h) ==
    \/ BeginDemo(h) \/ Look(h) \/ Matches(h) \/ NoMatch(h) \/ Enroll(h) \/ Save(h)
    \/ BeginOnboard(h)
    \/ BeginDelegate(h) \/ Pick(h) \/ NothingToPick(h) \/ Delegate(h) \/ Label(h)
    \/ BeginRevoke(h) \/ Find(h) \/ NothingToRevoke(h) \/ Revoke(h)
    \/ Fails(h)

Next == \E h \in Handlers : Handle(h)

Spec == Init /\ [][Next]_vars
-----------------------------------------------------------------------------
(***************************************************************************)
(* Properties.                                                             *)
(***************************************************************************)

\* A persona that names its credential acts with no scope that the list of
\* personas does not show: the labelled scopes of a delegation, or its own.
ShownBoundsAuthority ==
    \A i \in Ids : personas[i] # None /\ personas[i].link.active # None =>
        LET l == personas[i].link
        IN Authority(i) \subseteq (IF l.from = None THEN l.scopes ELSE l.label)

\* "Research Agent starts with no tool scopes": whatever was delegated to it
\* before, and whichever of its credentials are left.
DemoStartsUnprivileged == demo = "ready" => Authority(Target) = {}

\* The persona that a label names is the delegator of the credential that is
\* presented under it, also after either of the two was refreshed.
LabelNamesDelegator ==
    \A i \in Ids : personas[i] # None /\ personas[i].link.from # None /\ overlaps = 0 =>
        \A c \in Presented(i) : creds[c].by = personas[personas[i].link.from].did

\* 'Click "Create demo agents" to refresh the demo credentials, then delegate
\* again.'
ReadyToDelegate ==
    demo = "ready" => Sources(personas[Source].did, Wants[Source].scopes) # {}
=============================================================================
