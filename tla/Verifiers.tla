------------------------------ MODULE Verifiers ------------------------------
(***************************************************************************)
(* The verifiers of the stand-alone examples: one that asks the platform   *)
(* (verify-vp.ts), one that checks everything itself (self-verify.ts), one *)
(* that only looks at the status list (revocation-check.ts), one that      *)
(* keeps the verdicts of the SDK's verifyVP (verifier-vp-cache-cycle.ts)   *)
(* and one that exchanges a presentation for a session token               *)
(* (verify-vp-session-bridge.ts).                                          *)
(*                                                                         *)
(* Time passes, credentials are revoked and the platform restarts between  *)
(* any two steps of a request.  A presentation and the fresh credential    *)
(* that it carries are one value.  A verdict, the platform's or verifyVP's,*)
(* is modelled from how it is used; it may also be a refusal, or fail, for *)
(* reasons of its own (a nonce seen before, say), and any fetch may fail.  *)
(*                                                                         *)
(* The specification's operators carry the module's name, so that a module *)
(* of proofs can extend it together with another component.                *)
(***************************************************************************)
EXTENDS Naturals

CONSTANTS
    VPs,
    Scoped,     \* those whose credential has the scope that the cache requires
    Requests,
    Absent,
    VpLife, VcLife, TokenLife,
    MaxTime,    \* bound on the clock
    MaxKeys     \* bound on the processes of the platform

ASSUME VerifierAssumption ==
    /\ Scoped \subseteq VPs
    /\ VpLife \in Nat /\ VcLife \in Nat /\ TokenLife \in Nat
    /\ MaxTime \in Nat /\ MaxKeys \in Nat \ {0}
    /\ Absent \notin Nat

VARIABLES
    now,
    vp,     \* the presentations made: their and their credentials' last instant
    gone,   \* the revoked credentials
    key,    \* the key with which the platform's process signs session tokens
    cache,  \* the cached verdicts: until when each is kept
    req     \* the requests

verifiersVars == <<now, vp, gone, key, cache, req>>

Paths == {"api", "self", "status", "cache", "session"}
Steps ==
    {"ask", "holder", "issuer", "status",    \* what is asked next
     "fallback", "fetchKey", "token",        \* the session bridge after its first answer
     "accepted", "granted", "denied"}

Request ==
    [path : Paths, at : Steps, vp : VPs,
     late    : BOOLEAN,         \* had the presentation expired when the request began,
     revoked : BOOLEAN,         \*   or its credential been revoked?
     hit     : BOOLEAN,         \* was the verdict in the cache?
     key : 0 .. MaxKeys, until : Nat]  \* the session token

VerifiersTypeOK ==
    /\ now \in 0 .. MaxTime
    /\ vp \in [VPs -> [until : Nat, vcUntil : Nat] \cup {Absent}]
    /\ gone \subseteq VPs
    /\ key \in 1 .. MaxKeys
    /\ cache \in [VPs -> Nat \cup {Absent}]
    /\ req \in [Requests -> Request \cup {Absent}]

VerifiersInit ==
    /\ now = 0
    /\ vp = [v \in VPs |-> Absent]
    /\ gone = {}
    /\ key = 1
    /\ cache = [v \in VPs |-> Absent]
    /\ req = [r \in Requests |-> Absent]
-----------------------------------------------------------------------------
Tick ==
    /\ now < MaxTime
    /\ now' = now + 1
    /\ UNCHANGED <<vp, gone, key, cache, req>>

\* createFreshSignedVP: an agent is onboarded and a presentation signed for it.
Mint(v) ==
    /\ vp[v] = Absent
    /\ vp' = [vp EXCEPT ![v] = [until |-> now + VpLife, vcUntil |-> now + VcLife]]
    /\ UNCHANGED <<now, gone, key, cache, req>>

Revoke(v) ==
    /\ vp[v] # Absent
    /\ gone' = gone \cup {v}
    /\ UNCHANGED <<now, vp, key, cache, req>>

\* The platform restarts, with a new key for session tokens.
Restart ==
    /\ key < MaxKeys
    /\ key' = key + 1
    /\ UNCHANGED <<now, vp, gone, cache, req>>
-----------------------------------------------------------------------------
At(r, step)   == req[r] # Absent /\ req[r].at = step
On(r, path)   == req[r].path = path
Goto(r, step) == req' = [req EXCEPT ![r].at = step]
Expired(t)    == t <= now

\* Any step may fail, and the verifier then refuses.
Denies(r) ==
    /\ req[r] # Absent /\ req[r].at \notin {"granted", "denied"}
    /\ Goto(r, "denied")
    /\ UNCHANGED <<now, vp, gone, key, cache>>

\* Mutant: entries are never dropped.
Pruned_Never(c) == c

\* pruneCache
Pruned(c) == [v \in VPs |-> IF c[v] # Absent /\ Expired(c[v]) THEN Absent ELSE c[v]]

\* What a verifier does before its first await.
FirstStep(path, v) ==
    IF path = "self" THEN (IF Expired(vp[v].until) THEN "denied" ELSE "holder")
    ELSE IF path = "status" THEN "status"
    ELSE IF path = "cache" /\ Pruned(cache)[v] # Absent
    THEN (IF v \in Scoped THEN "granted" ELSE "denied")
    ELSE "ask"

Present(r, v, path) ==
    /\ req[r] = Absent /\ vp[v] # Absent
    /\ cache' = IF path = "cache" THEN Pruned(cache) ELSE cache
    /\ req' = [req EXCEPT ![r] =
            [path |-> path, at |-> FirstStep(path, v), vp |-> v,
             late |-> Expired(vp[v].until), revoked |-> v \in gone,
             hit |-> path = "cache" /\ Pruned(cache)[v] # Absent, key |-> 0, until |-> 0]]
    /\ UNCHANGED <<now, vp, gone, key>>

\* The verdict of POST /v1/vp/verify, and of the SDK's verifyVP, which the
\* caching verifier calls: on the presentation, its credential and its status.
Valid(v) == ~Expired(vp[v].until) /\ ~Expired(vp[v].vcUntil) /\ v \notin gone

\* The verdict is good.  The platform may sign a session token with it, if it is
\* asked for one.
Verified(r) ==
    /\ At(r, "ask") /\ Valid(req[r].vp)
    /\ \/ Goto(r, "accepted")
       \/ /\ On(r, "session")
          /\ req' = [req EXCEPT ![r].at = "fetchKey", ![r].key = key,
                                ![r].until = now + TokenLife]
    /\ UNCHANGED <<now, vp, gone, key, cache>>

\* The bridge's request is refused: it asks again through the SDK ...
Refused(r) ==
    /\ At(r, "ask") /\ On(r, "session")
    /\ Goto(r, "fallback")
    /\ UNCHANGED <<now, vp, gone, key, cache>>

\* ... and signs a token of its own.
LocalSession(r) ==
    /\ At(r, "fallback") /\ Valid(req[r].vp)
    /\ req' = [req EXCEPT ![r].at = "token", ![r].until = now + TokenLife]
    /\ UNCHANGED <<now, vp, gone, key, cache>>

\* The public key is fetched: verifyJWT fails if it is another process's.
SessionKey(r) ==
    /\ At(r, "fetchKey")
    /\ Goto(r, IF req[r].key = key THEN "token" ELSE "denied")
    /\ UNCHANGED <<now, vp, gone, key, cache>>

TokenVerified(r) ==
    /\ At(r, "token") /\ ~Expired(req[r].until)
    /\ Goto(r, "granted")
    /\ UNCHANGED <<now, vp, gone, key, cache>>

\* Self-verification: the holder's key is resolved and its signature good, ...
HolderResolved(r) ==
    /\ At(r, "holder")
    /\ Goto(r, "issuer")
    /\ UNCHANGED <<now, vp, gone, key, cache>>

\* ... and the issuer's, and the credential has not expired.
IssuerResolved(r) ==
    /\ At(r, "issuer") /\ ~Expired(vp[req[r].vp].vcUntil)
    /\ Goto(r, "status")
    /\ UNCHANGED <<now, vp, gone, key, cache>>

\* The credential's bit of the status list that is fetched now.
Bit(v) == IF v \in gone THEN 1 ELSE 0

StatusRead(r) ==
    /\ At(r, "status") /\ Bit(req[r].vp) = 0
    /\ Goto(r, "accepted")
    /\ UNCHANGED <<now, vp, gone, key, cache>>

\* The verdict arrives.  The cache keeps it until the presentation expires,
\* unless the scope is missing.
Accept(r) ==
    /\ At(r, "accepted") /\ ~On(r, "cache")
    /\ Goto(r, "granted")
    /\ UNCHANGED <<now, vp, gone, key, cache>>

AcceptAndCache(r) ==
    /\ At(r, "accepted") /\ On(r, "cache")
    /\ req[r].vp \in Scoped
    /\ cache' = [cache EXCEPT ![req[r].vp] = vp[req[r].vp].until]
    /\ Goto(r, "granted")
    /\ UNCHANGED <<now, vp, gone, key>>

RequestStep(r) ==
    \/ Verified(r) \/ Refused(r) \/ LocalSession(r) \/ SessionKey(r) \/ TokenVerified(r)
    \/ HolderResolved(r) \/ IssuerResolved(r) \/ StatusRead(r)
    \/ Accept(r) \/ AcceptAndCache(r) \/ Denies(r)

VerifiersNext ==
    \/ Tick \/ Restart
    \/ \E v \in VPs : Mint(v) \/ Revoke(v)
    \/ \E r \in Requests :
        \/ \E v \in VPs, path \in Paths : Present(r, v, path)
        \/ RequestStep(r)

VerifiersSpec == VerifiersInit /\ [][VerifiersNext]_verifiersVars
-----------------------------------------------------------------------------
(***************************************************************************)
(* Properties.                                                             *)
(***************************************************************************)
Granted(r) == At(r, "granted")

\* "Revocation is immediate for Path 1 API verification and Path 3
\* self-verify", "Do not serve cached entries past expiry": in whatever order a
\* presentation is verified, cached, presented again, revoked and outlived, a
\* request that begins after the revocation is granted only by a cached
\* verdict, and one that begins after the presentation's expiry only where
\* nothing but the status list is looked at.
GrantsAreCurrent ==
    \A r \in Requests : Granted(r) =>
        /\ req[r].revoked => req[r].hit
        /\ req[r].late => On(r, "status")
=============================================================================
