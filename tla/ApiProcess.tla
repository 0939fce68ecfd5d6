----------------------------- MODULE ApiProcess -----------------------------
(***************************************************************************)
(* The HelixID API as a process (src/server.ts): what it checks and        *)
(* registers before it listens, and the keys that it holds in memory only. *)
(* Several processes may run on one database, which outlives them.         *)
(*                                                                         *)
(* A process is started with some signing key, the operator's choice each  *)
(* time.  It registers the issuer's DID with that key, or compares it with *)
(* the key registered, in two steps: it looks, and then creates.  The DID  *)
(* is the table's primary key, so the second of two to create it fails.    *)
(*                                                                         *)
(* Agents' private keys are stored encrypted, under the configured key or, *)
(* without one, under a random key of the process.                         *)
(***************************************************************************)
EXTENDS Naturals, Sequences, FiniteSets

CONSTANTS
    Procs,
    SigningKeys,
    HostedKey,   \* HOSTED_KEY_ENCRYPTION_KEY, or None
    None,
    MaxBoots,    \* bound on the processes ever started
    MaxAgents    \* bound on the agents ever onboarded

ASSUME ApiAssumption ==
    /\ None \notin SigningKeys /\ HostedKey \notin 1 .. MaxBoots
    /\ MaxBoots \in Nat /\ MaxAgents \in Nat

VARIABLES
    issuer,  \* the database: the key registered for the issuer's DID
    agents,  \* the database: the agents, each with the key its own is under
    api,     \* the processes
    boots    \* processes ever started

apiVars == <<issuer, agents, api, boots>>

Custody == {HostedKey} \cup 1 .. MaxBoots

Down == [at |-> "down"]
Process == [at : {"look", "create", "listening"}, signing : SigningKeys, custody : Custody]

ApiTypeOK ==
    /\ issuer \in SigningKeys \cup {None}
    /\ agents \in Seq(Custody) /\ Len(agents) <= MaxAgents
    /\ api \in [Procs -> Process \cup {Down}]
    /\ boots \in 0 .. MaxBoots

ApiInit ==
    /\ issuer = None
    /\ agents = <<>>
    /\ api = [p \in Procs |-> Down]
    /\ boots = 0
-----------------------------------------------------------------------------
Serving(p) == api[p].at = "listening"

\* Mutant: the configured key is not used.
CustodyKey_Random(n) == n

\* The key of the n-th process: its own random one if none is configured.
CustodyKey(n) == IF HostedKey = None THEN n ELSE HostedKey

StartApi(p) ==
    /\ api[p] = Down
    /\ boots < MaxBoots
    /\ boots' = boots + 1
    /\ \E k \in SigningKeys :
        api' = [api EXCEPT ![p] = [at |-> "look", signing |-> k, custody |-> CustodyKey(boots + 1)]]
    /\ UNCHANGED <<issuer, agents>>

\* Mutant: a registered issuer is good enough.
Registered_Any(p) == issuer # None

Registered(p) == issuer = api[p].signing

\* ensureIssuerDidCached: the DID is registered with this key.
FindsIssuer(p) ==
    /\ api[p].at = "look"
    /\ Registered(p)
    /\ api' = [api EXCEPT ![p].at = "listening"]
    /\ UNCHANGED <<issuer, agents, boots>>

FindsNone(p) ==
    /\ api[p].at = "look"
    /\ issuer = None
    /\ api' = [api EXCEPT ![p].at = "create"]
    /\ UNCHANGED <<issuer, agents, boots>>

\* "Configured issuer DID public key does not match HELIX_SIGNING_KEY."
Refuses(p) ==
    /\ api[p].at = "look"
    /\ issuer # None /\ ~Registered(p)
    /\ api' = [api EXCEPT ![p] = Down]
    /\ UNCHANGED <<issuer, agents, boots>>

CreateIssuer(p) ==
    /\ api[p].at = "create"
    /\ IF issuer = None
       THEN /\ issuer' = api[p].signing
            /\ api' = [api EXCEPT ![p].at = "listening"]
       ELSE \* another process was first
            /\ api' = [api EXCEPT ![p] = Down]
            /\ UNCHANGED issuer
    /\ UNCHANGED <<agents, boots>>

\* SIGTERM, or a crash: what is in memory is gone.
StopApi(p) ==
    /\ api[p] # Down
    /\ api' = [api EXCEPT ![p] = Down]
    /\ UNCHANGED <<issuer, agents, boots>>

\* POST /v1/onboard at a process.
OnboardAt(p) ==
    /\ Serving(p)
    /\ Len(agents) < MaxAgents
    /\ agents' = Append(agents, api[p].custody)
    /\ UNCHANGED <<issuer, api, boots>>

\* Signing for an agent takes its private key.
CanSign(p, a) == Serving(p) /\ agents[a] = api[p].custody

ApiStep(p) == FindsIssuer(p) \/ FindsNone(p) \/ Refuses(p) \/ CreateIssuer(p)
-----------------------------------------------------------------------------
\* "... before issuing VCs": whichever processes raced to register the issuer,
\* those that listen sign with the key that verifiers resolve.
ServesWithRegisteredKey == \A p \in Procs : Serving(p) => issuer = api[p].signing
=============================================================================
