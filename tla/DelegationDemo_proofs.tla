------------------------ MODULE DelegationDemo_proofs ------------------------
(***************************************************************************)
(* Proofs about the concierge's requests, for any personas, credentials,   *)
(* scopes and overlaps: the types, that the list of personas shows at      *)
(* least what can be presented, that the demo's target starts with nothing *)
(* more than was asked for it, that labels name the delegator, and that    *)
(* the store is used as the registry it promises to be.                    *)
(***************************************************************************)
EXTENDS DelegationDemo, SequenceTheorems, TLAPS

USE DemoAssumption

Entry == Registry!Entry
Ops   == {"demo", "onboard", "delegate", "revoke"}
Ats   == {"look", "list", "enroll", "save", "pick", "issue", "label", "find", "revoke"}

(***************************************************************************)
(* Types of requests and of what the platform issues.                      *)
(***************************************************************************)
Others(h) == \A g \in Handlers \ {h} : req'[g] = req[g]

LEMMA CredFacts ==
  ASSUME TypeOK
  PROVE  /\ Len(creds) \in Nat /\ DOMAIN creds = 1 .. Len(creds)
         /\ DOMAIN creds \subseteq CredIds
         /\ \A c \in DOMAIN creds : creds[c] \in Credential
<1>1. creds \in Seq(Credential) /\ Len(creds) <= MaxCreds
  BY DEF TypeOK
<1>2. Len(creds) \in Nat /\ DOMAIN creds = 1 .. Len(creds)
  BY <1>1, LenProperties
<1>3. \A c \in DOMAIN creds : creds[c] \in Credential
  BY <1>1, <1>2, ElementOfSeq
<1>. QED BY <1>1, <1>2, <1>3 DEF CredIds

\* The platform issued at most one more credential.
Grows ==
    /\ DOMAIN creds \subseteq DOMAIN creds'
    /\ \A c \in DOMAIN creds : creds'[c] = creds[c]

LEMMA IssueFacts ==
  ASSUME TypeOK, NEW c \in Credential, Issue(c)
  PROVE  /\ creds' \in Seq(Credential) /\ Len(creds') <= MaxCreds
         /\ Grows
         /\ DOMAIN creds' = DOMAIN creds \cup {Len(creds) + 1}
         /\ Len(creds) + 1 \in DOMAIN creds' /\ Len(creds) + 1 \in CredIds
         /\ Len(creds) + 1 \notin DOMAIN creds
         /\ creds'[Len(creds) + 1] = c
<1>1. creds \in Seq(Credential) /\ Len(creds) < MaxCreds /\ creds' = Append(creds, c)
  BY DEF TypeOK, Issue
<1>2. Len(creds) \in Nat /\ DOMAIN creds = 1 .. Len(creds)
  BY CredFacts
<1>3. /\ creds' \in Seq(Credential) /\ Len(creds') = Len(creds) + 1
      /\ \A i \in 1 .. Len(creds) : creds'[i] = creds[i]
      /\ creds'[Len(creds) + 1] = c
  BY <1>1, AppendProperties
<1>4. DOMAIN creds' = 1 .. Len(creds) + 1
  BY <1>3, LenProperties
<1>. QED BY <1>1, <1>2, <1>3, <1>4 DEF Grows, CredIds

LEMMA BusyType ==
  ASSUME TypeOK, NEW h \in Handlers, req[h] # Idle \/ req[h].at # "idle"
  PROVE  req[h] \in Request
<1>1. req[h] \in Request \cup {Idle}
  BY DEF TypeOK
<1>2. Idle.at = "idle"
  BY DEF Idle
<1>. QED BY <1>1, <1>2

LEMMA RequestFacts ==
  ASSUME NEW r \in Request
  PROVE  /\ r.op \in Ops /\ r.at \in Ats /\ r.id \in Ids /\ r.was \in Entry \cup {None}
         /\ r.from \in Ids \cup {None} /\ r.by \in Dids \cup {None}
         /\ r.scopes \in SUBSET Scopes /\ r.depth \in Nat /\ r.cred \in CredIds \cup {None}
         /\ r.at # "idle" /\ r # Idle
<1>1. r.at \in Ats /\ Idle.at = "idle"
  BY DEF Request, Ats, Idle
<1>2. r.at # "idle"
  BY <1>1 DEF Ats
<1>. QED BY <1>1, <1>2 DEF Request, Ops, Ats, Entry

LEMMA NewRequestType ==
  ASSUME TypeOK, NEW op \in Ops, NEW step \in Ats, NEW i \in Ids
  PROVE  /\ NewRequest(op, step, i) \in Request
         /\ NewRequest(op, step, i).op = op /\ NewRequest(op, step, i).at = step
         /\ NewRequest(op, step, i).id = i /\ NewRequest(op, step, i).was = personas[i]
BY DEF NewRequest, Request, TypeOK, Ops, Ats

LEMMA SetReq ==
  ASSUME TypeOK, NEW h \in Handlers, NEW r \in Request \cup {Idle},
         req' = [req EXCEPT ![h] = r]
  PROVE  req' \in [Handlers -> Request \cup {Idle}] /\ req'[h] = r /\ Others(h)
BY DEF TypeOK, Others

LEMMA GotoFacts ==
  ASSUME TypeOK, NEW h \in Handlers, req[h] \in Request, NEW step \in Ats, Goto(h, step)
  PROVE  /\ req' \in [Handlers -> Request \cup {Idle}] /\ Others(h)
         /\ req'[h] = [req[h] EXCEPT !.at = step]
<1>1. [req[h] EXCEPT !.at = step] \in Request
  BY DEF Request, Ats
<1>2. req' = [req EXCEPT ![h] = [req[h] EXCEPT !.at = step]]
  BY DEF Goto, TypeOK
<1>. QED BY <1>1, <1>2, SetReq

LEMMA ChosenFacts ==
  ASSUME TypeOK, NEW h \in Handlers, req[h] \in Request, NEW step \in Ats,
         NEW c \in CredIds, Chosen(h, step, c)
  PROVE  /\ req' \in [Handlers -> Request \cup {Idle}] /\ Others(h)
         /\ req'[h] = [req[h] EXCEPT !.at = step, !.cred = c]
<1>1. [req[h] EXCEPT !.at = step, !.cred = c] \in Request
  BY DEF Request, Ats
<1>2. req' = [req EXCEPT ![h] = [req[h] EXCEPT !.at = step, !.cred = c]]
  BY DEF Chosen, TypeOK
<1>. QED BY <1>1, <1>2, SetReq

LEMMA EnsureType ==
  ASSUME TypeOK, NEW i \in {Source, Target}
  PROVE  /\ Ensure(i) \in Request
         /\ Ensure(i).op = "demo" /\ Ensure(i).at = "look" /\ Ensure(i).id = i
         /\ Ensure(i).scopes = Wants[i].scopes /\ Ensure(i).was = personas[i]
<1>1. NewRequest("demo", "look", i) \in Request
  BY NewRequestType DEF Ops, Ats
<1>2. Wants[i].scopes \in SUBSET Scopes /\ Wants[i].depth \in Nat
  BY DEF Grant
<1>. QED BY <1>1, <1>2 DEF Ensure, Request, NewRequest

LEMMA EndFacts ==
  ASSUME TypeOK, NEW h \in Handlers, End(h)
  PROVE  req' \in [Handlers -> Request \cup {Idle}] /\ req'[h] = Idle /\ Others(h)
BY SetReq DEF End

LEMMA AdvanceFacts ==
  ASSUME TypeOK, NEW h \in Handlers, Advance(h)
  PROVE  /\ req' \in [Handlers -> Request \cup {Idle}] /\ Others(h)
         /\ demo' \in {"no", "running", "ready"}
         /\ \/ req'[h] = Ensure(Target) /\ demo' = demo /\ req[h].op = "demo"
            \/ /\ req'[h] = Idle
               /\ \/ demo' = demo /\ (req[h].op # "demo" \/ demo # "running")
                  \/ /\ demo = "running" /\ demo' = "ready" /\ req[h].op = "demo"
                     /\ req[h].id # Source
<1>1. CASE req[h].op = "demo" /\ req[h].id = Source
  BY <1>1, EnsureType, SetReq DEF Advance, TypeOK
<1>2. CASE ~(req[h].op = "demo" /\ req[h].id = Source)
  BY <1>2, EndFacts DEF Advance, TypeOK
<1>. QED BY <1>1, <1>2

LEMMA BeginFacts ==
  ASSUME TypeOK, NEW h \in Handlers, NEW r \in Request, Begin(h, r)
  PROVE  /\ req' \in [Handlers -> Request \cup {Idle}] /\ req'[h] = r /\ Others(h)
         /\ demo' \in {"no", "running", "ready"} /\ overlaps' \in 0 .. MaxOverlaps
         /\ req[h] = Idle
         /\ \/ /\ \A g \in Handlers : req[g] = Idle
               /\ demo' = IF r.op = "demo" THEN "running" ELSE "no"
            \/ demo' = "no" /\ overlaps' > 0
<1>1. req' \in [Handlers -> Request \cup {Idle}] /\ req'[h] = r /\ Others(h) /\ req[h] = Idle
  BY SetReq DEF Begin
<1>2. overlaps \in 0 .. MaxOverlaps
  BY DEF TypeOK
<1>. QED BY <1>1, <1>2 DEF Begin, TypeOK

LEMMA AddFacts ==
  ASSUME TypeOK, NEW i \in Ids, NEW e \in Entry, Registry!Add(i, e)
  PROVE  /\ personas' \in [Ids -> Entry \cup {None}]
         /\ personas'[i] = e /\ \A j \in Ids \ {i} : personas'[j] = personas[j]
BY DEF TypeOK, Registry!Add, Entry

LEMMA EntryIsSome == None \notin Entry
BY NoneAssumption DEF Entry, Registry!Entry

LEMMA UpdateFacts ==
  ASSUME TypeOK, NEW i \in Ids, NEW l \in Links, Registry!Update(i, l)
  PROVE  /\ personas[i] # None /\ personas[i] \in Entry
         /\ personas' \in [Ids -> Entry \cup {None}] /\ personas'[i] # None
         /\ personas'[i] = [did |-> personas[i].did, link |-> l]
         /\ \A j \in Ids \ {i} : personas'[j] = personas[j]
<1>1. personas[i] # None /\ personas[i] \in Entry
  BY DEF TypeOK, Registry!Update, Entry
<1>2. [personas[i] EXCEPT !.link = l] = [did |-> personas[i].did, link |-> l]
  BY <1>1 DEF Entry, Registry!Entry
<1>3. [did |-> personas[i].did, link |-> l] \in Entry
  BY <1>1 DEF Entry, Registry!Entry
<1>4. personas' = [personas EXCEPT ![i] = [personas[i] EXCEPT !.link = l]]
  BY DEF TypeOK, Registry!Update
<1>. QED BY <1>1, <1>2, <1>3, <1>4, EntryIsSome DEF TypeOK, Entry

(***************************************************************************)
(* What a request knows, whatever the others do: what it chose was issued, *)
(* with the scopes that it will show, by the delegator that it will name.  *)
(***************************************************************************)
Local(h) ==
    LET r == req[h]
    IN r # Idle =>
        /\ r.at \in {"issue", "save", "label", "revoke"} => r.cred \in DOMAIN creds
        /\ r.at \in {"save", "label"} => creds[r.cred].scopes = r.scopes
        /\ r.at \in {"pick", "issue", "label"} =>
            /\ r.was # None /\ r.was.did \in DOMAIN creds
            /\ r.from # None
        /\ r.at = "list" => r.was # None
        /\ r.at = "issue" => creds[r.cred].did = r.by
        /\ r.at = "label" => creds[r.cred].by = r.by
        /\ r.op = "demo" =>
            /\ r.at \in {"look", "list", "enroll", "save"}
            /\ r.id \in {Source, Target} /\ r.scopes = Wants[r.id].scopes

\* An agent's DID comes with its first credential.
DidInv ==
    /\ \A c \in DOMAIN creds : creds[c].did \in DOMAIN creds
    /\ \A i \in Ids : personas[i] # None => personas[i].did \in DOMAIN creds

Same(h) == TypeOK' /\ Grows /\ Others(h) /\ Local(h)' /\ DidInv'

LEMMA InitTypeOK == Init => TypeOK /\ DidInv /\ \A h \in Handlers : Local(h)
<1>. SUFFICES ASSUME Init PROVE TypeOK /\ DidInv /\ \A h \in Handlers : Local(h)
  OBVIOUS
<1>1. creds = <<>> /\ creds \in Seq(Credential) /\ Len(creds) = 0 /\ DOMAIN creds = {}
  BY DEF Init
<1>2. overlaps \in 0 .. MaxOverlaps
  BY DEF Init
<1>. QED BY <1>1, <1>2 DEF Init, TypeOK, DidInv, Local

LEMMA LookStep ==
  ASSUME TypeOK, DidInv, NEW h \in Handlers, Local(h), Look(h)
  PROVE  Same(h)
<1>1. req[h] \in Request /\ req[h].at = "look"
  BY BusyType DEF Look
<1>2. req[h].id \in Ids
  BY <1>1, RequestFacts
<1>. DEFINE r == [req[h] EXCEPT !.was = personas[req[h].id],
                                !.at = IF personas[req[h].id] = None THEN "enroll" ELSE "list"]
<1>3. r \in Request /\ r.op = req[h].op /\ r.id = req[h].id /\ r.scopes = req[h].scopes
      /\ r.was = personas[req[h].id]
      /\ r.at \in {"enroll", "list"} /\ (r.at = "list" => r.was # None)
  BY <1>1, <1>2 DEF TypeOK, Request
<1>4. req' = [req EXCEPT ![h] = r]
  BY DEF Look, TypeOK
<1>. HIDE DEF r
<1>5. req' \in [Handlers -> Request \cup {Idle}] /\ req'[h] = r /\ Others(h)
  BY <1>3, <1>4, SetReq
<1>6. Local(h)'
  BY <1>1, <1>3, <1>5, RequestFacts DEF Look, Local
<1>. QED BY <1>5, <1>6 DEF Look, TypeOK, Same, DidInv, Grows

Begins(h) == BeginDemo(h) \/ BeginOnboard(h) \/ BeginDelegate(h) \/ BeginRevoke(h)

\* A request as it begins.
Begun(r) ==
    /\ r.at \in {"look", "enroll", "pick", "find"}
    /\ r.was = personas[r.id]
    /\ r.at = "pick" =>
        /\ r.was # None /\ r.was.did \in DOMAIN creds /\ r.from # None
        /\ personas[r.from] # None /\ personas[r.from].did = r.by
    /\ r.op = "demo" => /\ r.at = "look" /\ r.id \in {Source, Target}
                        /\ r.scopes = Wants[r.id].scopes

LEMMA BeginsRequest ==
  ASSUME TypeOK, DidInv, NEW h \in Handlers, Begins(h)
  PROVE  /\ UNCHANGED <<personas, creds, revoked>>
         /\ \E r \in Request : Begin(h, r) /\ Begun(r)
<1>1. UNCHANGED <<personas, creds, revoked>>
  BY DEF Begins, BeginDemo, BeginOnboard, BeginDelegate, BeginRevoke
<1>2. CASE BeginDemo(h)
  BY <1>1, <1>2, EnsureType DEF BeginDemo, Begun
<1>3. CASE BeginOnboard(h)
  <2>1. PICK i \in Ids, g \in Tokens :
            Begin(h, [NewRequest("onboard", "enroll", i) EXCEPT !.scopes = g.scopes, !.depth = g.depth])
    BY <1>3 DEF BeginOnboard
  <2>. DEFINE n == NewRequest("onboard", "enroll", i)
  <2>. DEFINE r == [n EXCEPT !.scopes = g.scopes, !.depth = g.depth]
  <2>2. g.scopes \in SUBSET Scopes /\ g.depth \in Nat
    BY DEF Grant
  <2>3. /\ n \in Request /\ n.op = "onboard" /\ n.at = "enroll"
        /\ n.was = personas[i] /\ n.id = i
    BY NewRequestType DEF Ops, Ats
  <2>4. Begin(h, r)
    BY <2>1
  <2>. HIDE DEF n
  <2>5. /\ r \in Request /\ r.op = "onboard" /\ r.at = "enroll"
        /\ r.was = personas[i] /\ r.id = i
    BY <2>2, <2>3 DEF Request
  <2>. HIDE DEF r
  <2>6. Begun(r)
    BY <2>5 DEF Begun
  <2>. QED BY <1>1, <2>4, <2>5, <2>6
<1>4. CASE BeginDelegate(h)
  <2>1. PICK b \in Bodies :
            /\ personas[b.from] # None /\ personas[b.to] # None
            /\ Begin(h, [NewRequest("delegate", "pick", b.to) EXCEPT
                            !.from = b.from, !.by = personas[b.from].did, !.scopes = b.scopes])
    BY <1>4 DEF BeginDelegate
  <2>. DEFINE n == NewRequest("delegate", "pick", b.to)
  <2>. DEFINE r == [n EXCEPT !.from = b.from, !.by = personas[b.from].did, !.scopes = b.scopes]
  <2>2. b.from \in Ids /\ b.to \in Ids /\ b.scopes \in SUBSET Scopes
    OBVIOUS
  <2>3. personas[b.from].did \in Dids
    BY <2>1, <2>2 DEF TypeOK, Registry!Entry
  <2>4. n \in Request /\ n.op = "delegate" /\ n.at = "pick"
      /\ n.was = personas[b.to] /\ n.id = b.to
    BY <2>2, NewRequestType DEF Ops, Ats
  <2>5. Begin(h, r)
    BY <2>1
  <2>. HIDE DEF n
  <2>6. r \in Request /\ r.op = "delegate" /\ r.at = "pick"
        /\ r.was = personas[b.to] /\ r.id = b.to
        /\ r.from = b.from /\ r.by = personas[b.from].did
    BY <2>2, <2>3, <2>4 DEF Request
  <2>. HIDE DEF r
  <2>7. Begun(r)
    BY <2>1, <2>2, <2>6 DEF Begun, DidInv
  <2>. QED BY <1>1, <2>5, <2>6, <2>7
<1>5. CASE BeginRevoke(h)
  <2>1. PICK i \in Ids : Begin(h, NewRequest("revoke", "find", i))
    BY <1>5 DEF BeginRevoke
  <2>. DEFINE r == NewRequest("revoke", "find", i)
  <2>2. /\ r \in Request /\ r.op = "revoke" /\ r.at = "find"
        /\ r.was = personas[i] /\ r.id = i
    BY NewRequestType DEF Ops, Ats
  <2>3. Begin(h, r)
    BY <2>1
  <2>. HIDE DEF r
  <2>4. Begun(r)
    BY <2>2 DEF Begun
  <2>. QED BY <1>1, <2>2, <2>3, <2>4
<1>. QED BY <1>2, <1>3, <1>4, <1>5 DEF Begins

LEMMA BeginStep ==
  ASSUME TypeOK, DidInv, NEW h \in Handlers, Begins(h)
  PROVE  Same(h)
<1>1. UNCHANGED <<personas, creds, revoked>>
  BY BeginsRequest
<1>2. PICK r \in Request : Begin(h, r) /\ Begun(r)
  BY BeginsRequest
<1>3. /\ req' \in [Handlers -> Request \cup {Idle}] /\ req'[h] = r /\ Others(h)
      /\ demo' \in {"no", "running", "ready"} /\ overlaps' \in 0 .. MaxOverlaps
  BY <1>2, BeginFacts
<1>4. Local(h)'
  BY <1>1, <1>2, <1>3 DEF Local, Begun
<1>. QED BY <1>1, <1>3, <1>4 DEF TypeOK, Same, DidInv, Grows

LEMMA ActiveFacts ==
  ASSUME TypeOK, NEW did, NEW c \in Active(did)
  PROVE  /\ c \in DOMAIN creds /\ c \in CredIds /\ c \notin revoked /\ creds[c].did = did
         /\ creds[c] \in Credential
BY CredFacts DEF Active

LEMMA QuietStep ==
  ASSUME TypeOK, DidInv, NEW h \in Handlers, UNCHANGED <<personas, creds, overlaps>>,
         revoked' \subseteq DOMAIN creds, demo' \in {"no", "running", "ready"},
         req' \in [Handlers -> Request \cup {Idle}], Others(h), Local(h)'
  PROVE  Same(h)
BY DEF TypeOK, Same, DidInv, Grows

LEMMA EndStep ==
  ASSUME TypeOK, DidInv, NEW h \in Handlers,
         NothingToPick(h) \/ NothingToRevoke(h) \/ Revoke(h) \/ Fails(h), Local(h)
  PROVE  Same(h)
<1>1. End(h) /\ UNCHANGED <<personas, creds, overlaps>> /\ demo' \in {"no", demo}
  BY DEF NothingToPick, NothingToRevoke, Revoke, Fails
<1>2. revoked' \subseteq DOMAIN creds
  <2>1. CASE Revoke(h)
    <3>1. req[h].at = "revoke"
      BY <2>1 DEF Revoke
    <3>2. req[h] # Idle
      BY <3>1, BusyType, RequestFacts
    <3>3. req[h].cred \in DOMAIN creds
      BY <3>1, <3>2 DEF Local
    <3>. QED BY <2>1, <3>3 DEF Revoke, TypeOK
  <2>. QED BY <2>1 DEF NothingToPick, NothingToRevoke, Fails, TypeOK
<1>3. req' \in [Handlers -> Request \cup {Idle}] /\ req'[h] = Idle /\ Others(h)
  BY <1>1, EndFacts
<1>4. Local(h)'
  BY <1>3 DEF Local
<1>. QED BY <1>1, <1>2, <1>3, <1>4, QuietStep DEF TypeOK

LEMMA ChooseStep ==
  ASSUME TypeOK, DidInv, NEW h \in Handlers, Local(h), NoMatch(h) \/ Pick(h) \/ Find(h)
  PROVE  Same(h)
<1>1. req[h] \in Request /\ UNCHANGED <<personas, creds, revoked, demo, overlaps>>
  BY BusyType DEF NoMatch, Pick, Find
<1>2. CASE NoMatch(h)
  <2>1. /\ req' \in [Handlers -> Request \cup {Idle}] /\ Others(h)
        /\ req'[h] = [req[h] EXCEPT !.at = "enroll"]
    BY <1>1, <1>2, GotoFacts DEF NoMatch, Ats
  <2>2. req'[h].at = "enroll" /\ req'[h].op = req[h].op /\ req'[h].id = req[h].id
        /\ req'[h].scopes = req[h].scopes
    BY <1>1, <2>1 DEF Request
  <2>3. Local(h)'
    BY <1>1, <2>2, RequestFacts DEF Local
  <2>. QED BY <1>1, <2>1, <2>3, QuietStep DEF TypeOK
<1>3. CASE Pick(h)
  <2>1. PICK c \in Sources(req[h].by, req[h].scopes) : Chosen(h, "issue", c)
    BY <1>3 DEF Pick
  <2>2. c \in Active(req[h].by)
    BY <2>1 DEF Sources
  <2>3. c \in CredIds /\ c \in DOMAIN creds /\ creds[c].did = req[h].by
    BY <2>2, ActiveFacts
  <2>4. /\ req' \in [Handlers -> Request \cup {Idle}] /\ Others(h)
        /\ req'[h] = [req[h] EXCEPT !.at = "issue", !.cred = c]
    BY <1>1, <2>1, <2>3, ChosenFacts DEF Ats
  <2>5. /\ req'[h].at = "issue" /\ req'[h].op = req[h].op /\ req'[h].cred = c
        /\ req'[h].was = req[h].was /\ req'[h].from = req[h].from /\ req'[h].by = req[h].by
    BY <1>1, <2>4 DEF Request
  <2>6. req[h] # Idle /\ req[h].at = "pick"
    BY <1>1, <1>3, RequestFacts DEF Pick
  <2>7. Local(h)'
    BY <1>1, <2>3, <2>5, <2>6 DEF Local
  <2>. QED BY <1>1, <2>4, <2>7, QuietStep DEF TypeOK
<1>4. CASE Find(h)
  <2>1. PICK c \in Active(req[h].was.did) : Chosen(h, "revoke", c)
    BY <1>4 DEF Find
  <2>2. c \in CredIds /\ c \in DOMAIN creds
    BY <2>1, ActiveFacts
  <2>3. /\ req' \in [Handlers -> Request \cup {Idle}] /\ Others(h)
        /\ req'[h] = [req[h] EXCEPT !.at = "revoke", !.cred = c]
    BY <1>1, <2>1, <2>2, ChosenFacts DEF Ats
  <2>4. req'[h].at = "revoke" /\ req'[h].op = req[h].op /\ req'[h].cred = c
    BY <1>1, <2>3 DEF Request
  <2>5. req[h] # Idle /\ req[h].at = "find"
    BY <1>1, <1>4, RequestFacts DEF Find
  <2>6. Local(h)'
    BY <1>1, <2>2, <2>4, <2>5 DEF Local
  <2>. QED BY <1>1, <2>3, <2>6, QuietStep DEF TypeOK
<1>. QED BY <1>2, <1>3, <1>4

LEMMA EnsuredLocal ==
  ASSUME TypeOK, NEW h \in Handlers, req'[h] \in {Idle, Ensure(Target)}
  PROVE  Local(h)'
<1>1. CASE req'[h] = Idle
  BY <1>1 DEF Local
<1>2. CASE req'[h] = Ensure(Target)
  BY <1>2, EnsureType DEF Local
<1>. QED BY <1>1, <1>2

LEMMA MatchesStep ==
  ASSUME TypeOK, DidInv, NEW h \in Handlers, Local(h), Matches(h)
  PROVE  Same(h)
<1>1. req[h] \in Request /\ UNCHANGED <<personas, creds, revoked, overlaps>>
  BY BusyType DEF Matches
<1>2. PICK c \in Active(req[h].was.did) :
          /\ CanSatisfy(c, req[h])
          /\ \/ Chosen(h, "save", c) /\ UNCHANGED demo
             \/ Advance(h)
  BY DEF Matches
<1>3. c \in CredIds /\ c \in DOMAIN creds /\ creds[c].scopes = req[h].scopes
  BY <1>2, ActiveFacts DEF CanSatisfy
<1>4. CASE Chosen(h, "save", c) /\ UNCHANGED demo
  <2>1. /\ req' \in [Handlers -> Request \cup {Idle}] /\ Others(h)
        /\ req'[h] = [req[h] EXCEPT !.at = "save", !.cred = c]
    BY <1>1, <1>3, <1>4, ChosenFacts DEF Ats
  <2>2. /\ req'[h].at = "save" /\ req'[h].op = req[h].op /\ req'[h].cred = c
        /\ req'[h].id = req[h].id /\ req'[h].scopes = req[h].scopes
    BY <1>1, <2>1 DEF Request
  <2>3. Local(h)'
    BY <1>1, <1>3, <2>2, RequestFacts DEF Local
  <2>. QED BY <1>1, <1>4, <2>1, <2>3, QuietStep DEF TypeOK
<1>5. CASE Advance(h)
  <2>1. Local(h)'
    BY <1>5, AdvanceFacts, EnsuredLocal
  <2>. QED BY <1>1, <1>5, <2>1, AdvanceFacts, QuietStep DEF TypeOK
<1>. QED BY <1>2, <1>4, <1>5

LEMMA EnrollStep ==
  ASSUME TypeOK, DidInv, NEW h \in Handlers, Local(h), Enroll(h)
  PROVE  /\ Same(h)
         /\ creds'[Len(creds) + 1].did = Len(creds) + 1
         /\ req'[h] = [req[h] EXCEPT !.at = "save", !.cred = Len(creds) + 1]
         /\ DOMAIN creds' = DOMAIN creds \cup {Len(creds) + 1}
         /\ Len(creds) + 1 \notin DOMAIN creds
<1>1. req[h] \in Request /\ req[h].at = "enroll"
  BY BusyType DEF Enroll
<1>. DEFINE n == Len(creds) + 1
            c == [did |-> n, by |-> None, chain |-> {n}, scopes |-> req[h].scopes,
                  depth |-> 0, max |-> req[h].depth]
<1>2. Issue(c) /\ Chosen(h, "save", n) /\ UNCHANGED <<personas, revoked, demo, overlaps>>
  BY DEF Enroll, Onboard
<1>3. n \in CredIds
  <2>1. Len(creds) \in Nat /\ Len(creds) < MaxCreds
    BY <1>2, CredFacts DEF Issue
  <2>. QED BY <2>1 DEF CredIds
<1>4. c \in Credential
  BY <1>1, <1>3, RequestFacts DEF Credential, Dids
<1>5. c.did = n /\ c.scopes = req[h].scopes
  OBVIOUS
<1>. HIDE DEF c
<1>6. /\ creds' \in Seq(Credential) /\ Len(creds') <= MaxCreds /\ Grows
      /\ DOMAIN creds' = DOMAIN creds \cup {n} /\ n \in DOMAIN creds' /\ n \notin DOMAIN creds
      /\ creds'[n] = c
  BY <1>2, <1>4, IssueFacts
<1>. HIDE DEF n
<1>7. /\ req' \in [Handlers -> Request \cup {Idle}] /\ Others(h)
      /\ req'[h] = [req[h] EXCEPT !.at = "save", !.cred = n]
  BY <1>1, <1>2, <1>3, ChosenFacts DEF Ats
<1>8. /\ req'[h].at = "save" /\ req'[h].op = req[h].op /\ req'[h].cred = n
      /\ req'[h].id = req[h].id /\ req'[h].scopes = req[h].scopes
  BY <1>1, <1>7 DEF Request
<1>9. Local(h)'
  BY <1>1, <1>5, <1>6, <1>8, RequestFacts DEF Local
<1>10. revoked' \subseteq DOMAIN creds'
  BY <1>2, <1>6 DEF TypeOK
<1>11. TypeOK'
  BY <1>2, <1>6, <1>7, <1>10 DEF TypeOK
<1>12. DidInv'
  BY <1>2, <1>5, <1>6 DEF DidInv, Grows
<1>. QED BY <1>5, <1>6, <1>7, <1>9, <1>11, <1>12 DEF Same, n

LEMMA DelegateStep ==
  ASSUME TypeOK, DidInv, NEW h \in Handlers, Local(h), Delegate(h)
  PROVE  Same(h)
<1>1. req[h] \in Request /\ req[h].at = "issue" /\ req[h] # Idle
  BY BusyType, RequestFacts DEF Delegate
<1>2. /\ req[h].cred \in DOMAIN creds /\ creds[req[h].cred] \in Credential
      /\ req[h].was # None /\ req[h].was \in Entry /\ req[h].was.did \in DOMAIN creds
      /\ req[h].from # None /\ creds[req[h].cred].did = req[h].by
  BY <1>1, RequestFacts, CredFacts DEF Local
<1>. DEFINE p == creds[req[h].cred]
            n == Len(creds) + 1
            c == [did |-> req[h].was.did, by |-> p.did, chain |-> p.chain \cup {n},
                  scopes |-> req[h].scopes, depth |-> p.depth + 1, max |-> p.max]
<1>3. /\ Issue(c) /\ Chosen(h, "label", n) /\ UNCHANGED <<personas, revoked, demo, overlaps>>
  BY DEF Delegate, DelegateAuthority
<1>4. n \in CredIds
  <2>1. Len(creds) \in Nat /\ Len(creds) < MaxCreds
    BY <1>3, CredFacts DEF Issue
  <2>. QED BY <2>1 DEF CredIds
<1>5. c \in Credential
  <2>1. p.did \in Dids /\ p.chain \subseteq CredIds /\ p.depth \in Nat /\ p.max \in Nat
    BY <1>2 DEF Credential
  <2>2. req[h].was.did \in Dids /\ req[h].scopes \in SUBSET Scopes
    BY <1>1, <1>2, RequestFacts DEF Entry, Registry!Entry
  <2>. HIDE DEF p, n
  <2>3. p.chain \cup {n} \in SUBSET CredIds /\ p.depth + 1 \in Nat
    BY <1>4, <2>1
  <2>. QED BY <2>1, <2>2, <2>3 DEF Credential
<1>6. c.did = req[h].was.did /\ c.scopes = req[h].scopes /\ c.by = req[h].by
  BY <1>2
<1>. HIDE DEF c
<1>7. /\ creds' \in Seq(Credential) /\ Len(creds') <= MaxCreds /\ Grows
      /\ DOMAIN creds' = DOMAIN creds \cup {n} /\ n \in DOMAIN creds'
      /\ creds'[n] = c
  BY <1>3, <1>5, IssueFacts
<1>. HIDE DEF n
<1>8. /\ req' \in [Handlers -> Request \cup {Idle}] /\ Others(h)
      /\ req'[h] = [req[h] EXCEPT !.at = "label", !.cred = n]
  BY <1>1, <1>3, <1>4, ChosenFacts DEF Ats
<1>9. /\ req'[h].at = "label" /\ req'[h].op = req[h].op /\ req'[h].cred = n
      /\ req'[h].was = req[h].was /\ req'[h].from = req[h].from /\ req'[h].by = req[h].by
      /\ req'[h].scopes = req[h].scopes
  BY <1>1, <1>8 DEF Request
<1>10. Local(h)'
  BY <1>1, <1>2, <1>6, <1>7, <1>9 DEF Local
<1>11. revoked' \subseteq DOMAIN creds'
  BY <1>3, <1>7 DEF TypeOK
<1>12. TypeOK'
  BY <1>3, <1>7, <1>8, <1>11 DEF TypeOK
<1>13. DidInv'
  BY <1>2, <1>3, <1>6, <1>7 DEF DidInv, Grows
<1>. QED BY <1>7, <1>8, <1>10, <1>12, <1>13 DEF Same

(***************************************************************************)
(* The two steps that change the registry.                                 *)
(***************************************************************************)
LEMMA RefreshedType ==
  ASSUME NEW r \in Request, r.cred \in CredIds, NEW l
  PROVE  Refreshed(r, l) \in Links
BY RequestFacts DEF Refreshed, Links

LEMMA LabelledType ==
  ASSUME NEW r \in Request, r.cred \in CredIds, NEW l \in Links
  PROVE  /\ Labelled(r, l) \in Links
         /\ Labelled(r, l).active = r.cred /\ Labelled(r, l).from = r.from
         /\ Labelled(r, l).label = r.scopes
<1>1. r.from \in Ids \cup {None} /\ r.scopes \in SUBSET Scopes
  BY RequestFacts
<1>. QED BY <1>1 DEF Labelled, Links

LEMMA SaveEffect ==
  ASSUME TypeOK, NEW h \in Handlers, Local(h), Save(h)
  PROVE  LET r == req[h]
             l == [active |-> None, from |-> None, label |-> {}, scopes |-> r.scopes]
         IN /\ r \in Request /\ r.cred \in DOMAIN creds /\ r.cred \in CredIds /\ r.id \in Ids
            /\ creds[r.cred].scopes = r.scopes
            /\ Advance(h) /\ UNCHANGED <<creds, revoked, overlaps>>
            /\ personas' \in [Ids -> Entry \cup {None}]
            /\ \A j \in Ids \ {r.id} : personas'[j] = personas[j]
            /\ \/ r.was = None /\ personas'[r.id] = [did |-> r.cred, link |-> l]
               \/ /\ r.was # None /\ personas[r.id] # None
                  /\ personas'[r.id] = [did |-> personas[r.id].did, link |-> Refreshed(r, l)]
<1>. DEFINE r == req[h]
            l == [active |-> None, from |-> None, label |-> {}, scopes |-> r.scopes]
<1>1. r \in Request /\ r.at = "save" /\ r # Idle
  BY BusyType, RequestFacts DEF Save
<1>2. r.cred \in DOMAIN creds /\ r.cred \in CredIds /\ creds[r.cred].scopes = r.scopes /\ r.id \in Ids
  BY <1>1, RequestFacts, CredFacts DEF Local
<1>3. Advance(h) /\ UNCHANGED <<creds, revoked, overlaps>>
  BY DEF Save
<1>4. CASE r.was = None
  <2>1. [did |-> r.cred, link |-> l] \in Entry
    BY <1>1, <1>2, RequestFacts DEF Entry, Registry!Entry, Links, Dids
  <2>2. Registry!Add(r.id, [did |-> r.cred, link |-> l])
    BY <1>4 DEF Save
  <2>. HIDE DEF l
  <2>3. /\ personas' \in [Ids -> Entry \cup {None}]
        /\ personas'[r.id] = [did |-> r.cred, link |-> l]
        /\ \A j \in Ids \ {r.id} : personas'[j] = personas[j]
    BY <1>2, <2>1, <2>2, AddFacts
  <2>. QED BY <1>1, <1>2, <1>3, <1>4, <2>3 DEF l
<1>5. CASE r.was # None
  <2>1. Registry!Update(r.id, Refreshed(r, l))
    BY <1>5 DEF Save, Refreshed
  <2>2. Refreshed(r, l) \in Links
    BY <1>1, <1>2, RefreshedType
  <2>. HIDE DEF l
  <2>3. /\ personas[r.id] # None
        /\ personas' \in [Ids -> Entry \cup {None}]
        /\ personas'[r.id] = [did |-> personas[r.id].did, link |-> Refreshed(r, l)]
        /\ \A j \in Ids \ {r.id} : personas'[j] = personas[j]
    BY <1>2, <2>1, <2>2, UpdateFacts
  <2>. QED BY <1>1, <1>2, <1>3, <1>5, <2>3 DEF l
<1>. QED BY <1>4, <1>5

LEMMA SaveStep ==
  ASSUME TypeOK, DidInv, NEW h \in Handlers, Local(h), Save(h)
  PROVE  Same(h)
<1>. DEFINE r == req[h]
<1>1. /\ r.cred \in DOMAIN creds /\ r.id \in Ids
      /\ Advance(h) /\ UNCHANGED <<creds, revoked, overlaps>>
      /\ personas' \in [Ids -> Entry \cup {None}]
      /\ \A j \in Ids \ {r.id} : personas'[j] = personas[j]
      /\ \/ personas'[r.id].did = r.cred
         \/ personas[r.id] # None /\ personas'[r.id].did = personas[r.id].did
  <2>. DEFINE l == [active |-> None, from |-> None, label |-> {}, scopes |-> r.scopes]
  <2>1. /\ r.cred \in DOMAIN creds /\ r.id \in Ids
        /\ Advance(h) /\ UNCHANGED <<creds, revoked, overlaps>>
        /\ personas' \in [Ids -> Entry \cup {None}]
        /\ \A j \in Ids \ {r.id} : personas'[j] = personas[j]
    BY SaveEffect
  <2>2. \/ personas'[r.id] = [did |-> r.cred, link |-> l]
        \/ /\ personas[r.id] # None
           /\ personas'[r.id] = [did |-> personas[r.id].did, link |-> Refreshed(r, l)]
    BY SaveEffect
  <2>. QED BY <2>1, <2>2
<1>2. DidInv'
  BY <1>1 DEF DidInv
<1>3. Local(h)'
  BY <1>1, AdvanceFacts, EnsuredLocal
<1>4. /\ req' \in [Handlers -> Request \cup {Idle}] /\ Others(h)
      /\ demo' \in {"no", "running", "ready"}
  BY <1>1, AdvanceFacts
<1>5. TypeOK'
  BY <1>1, <1>4 DEF TypeOK, Entry
<1>. QED BY <1>1, <1>2, <1>3, <1>4, <1>5 DEF Same, Grows

LEMMA LabelEffect ==
  ASSUME TypeOK, NEW h \in Handlers, Local(h), Label(h)
  PROVE  LET r == req[h]
         IN /\ r \in Request /\ r.at = "label" /\ r.id \in Ids
            /\ r.cred \in DOMAIN creds /\ creds[r.cred].scopes = r.scopes
            /\ creds[r.cred].by = r.by /\ r.from # None
            /\ End(h) /\ UNCHANGED <<creds, revoked, demo, overlaps>>
            /\ personas' \in [Ids -> Entry \cup {None}]
            /\ \A j \in Ids \ {r.id} : personas'[j] = personas[j]
            /\ personas[r.id] # None /\ personas'[r.id] # None
            /\ personas'[r.id].did = personas[r.id].did
            /\ personas'[r.id].link.active = r.cred
            /\ personas'[r.id].link.from = r.from
            /\ personas'[r.id].link.label = r.scopes
<1>. DEFINE r == req[h]
<1>1. r \in Request /\ r.at = "label" /\ r # Idle /\ r.id \in Ids
  BY BusyType, RequestFacts DEF Label
<1>2. /\ r.cred \in DOMAIN creds /\ r.cred \in CredIds /\ creds[r.cred].scopes = r.scopes
      /\ creds[r.cred].by = r.by /\ r.from # None
  BY <1>1, CredFacts DEF Local
<1>. DEFINE l == Labelled(r, personas[r.id].link)
<1>3. Registry!Update(r.id, l) /\ End(h) /\ UNCHANGED <<creds, revoked, demo, overlaps>>
  BY DEF Label
<1>4. personas[r.id] # None /\ personas[r.id].link \in Links
  BY <1>1, <1>3 DEF Registry!Update, TypeOK, Registry!Entry
<1>5. l \in Links /\ l.active = r.cred /\ l.from = r.from /\ l.label = r.scopes
  BY <1>1, <1>2, <1>4, LabelledType
<1>. HIDE DEF l
<1>6. /\ personas' \in [Ids -> Entry \cup {None}]
      /\ personas'[r.id] # None
      /\ personas'[r.id] = [did |-> personas[r.id].did, link |-> l]
      /\ \A j \in Ids \ {r.id} : personas'[j] = personas[j]
  BY <1>1, <1>3, <1>5, UpdateFacts
<1>. QED BY <1>1, <1>2, <1>3, <1>4, <1>5, <1>6

LEMMA LabelStep ==
  ASSUME TypeOK, DidInv, NEW h \in Handlers, Local(h), Label(h)
  PROVE  Same(h)
<1>1. /\ req[h].id \in Ids /\ End(h) /\ UNCHANGED <<creds, revoked, demo, overlaps>>
      /\ personas' \in [Ids -> Entry \cup {None}]
      /\ \A j \in Ids \ {req[h].id} : personas'[j] = personas[j]
      /\ personas[req[h].id] # None /\ personas'[req[h].id].did = personas[req[h].id].did
  BY LabelEffect
<1>2. req' \in [Handlers -> Request \cup {Idle}] /\ req'[h] = Idle /\ Others(h)
  BY <1>1, EndFacts
<1>3. DidInv' /\ Local(h)'
  BY <1>1, <1>2 DEF DidInv, Local
<1>4. TypeOK'
  BY <1>1, <1>2 DEF TypeOK, Entry
<1>. QED BY <1>1, <1>2, <1>3, <1>4 DEF Same, Grows

(***************************************************************************)
(* Each step is one request's, and the others know as much as before.      *)
(***************************************************************************)
LEMMA HandleStep ==
  ASSUME TypeOK, DidInv, NEW h \in Handlers, Local(h), Handle(h)
  PROVE  Same(h)
BY BeginStep, LookStep, MatchesStep, ChooseStep, EnrollStep, SaveStep, DelegateStep, LabelStep,
   EndStep DEF Handle, Begins

LEMMA LocalKept ==
  ASSUME NEW g, Local(g), Grows, req'[g] = req[g]
  PROVE  Local(g)'
BY DEF Local, Grows

BaseInv == TypeOK /\ DidInv /\ \A h \in Handlers : Local(h)

LEMMA NextBaseInv == BaseInv /\ [Next]_vars => BaseInv'
<1>1. BaseInv /\ UNCHANGED vars => BaseInv'
  BY DEF vars, BaseInv, TypeOK, DidInv, Local
<1>2. ASSUME BaseInv, NEW h \in Handlers, Handle(h)
      PROVE  BaseInv'
  <2>1. Same(h)
    BY <1>2, HandleStep DEF BaseInv
  <2>2. \A g \in Handlers \ {h} : Local(g)'
    BY <1>2, <2>1, LocalKept DEF BaseInv, Same, Others
  <2>. QED BY <2>1, <2>2 DEF Same, BaseInv
<1>. QED BY <1>1, <1>2 DEF Next

(***************************************************************************)
(* The registry, the platform's credentials and every request in progress  *)
(* keep their types.                                                       *)
(***************************************************************************)
THEOREM DemoTypeCorrect == Spec => []TypeOK
<1>1. Init => BaseInv
  BY InitTypeOK DEF BaseInv
<1>2. BaseInv => TypeOK
  BY DEF BaseInv
<1>. QED BY <1>1, <1>2, NextBaseInv, PTL DEF Spec

(***************************************************************************)
(* What is presented is shown.                                             *)
(***************************************************************************)
LinkInv(i) ==
    personas[i] # None /\ personas[i].link.active # None =>
        LET l == personas[i].link
        IN /\ l.active \in DOMAIN creds
           /\ creds[l.active].scopes \subseteq (IF l.from = None THEN l.scopes ELSE l.label)

LEMMA Unregistered ==
  ASSUME NEW h, Handle(h), ~Save(h), ~Label(h)
  PROVE  personas' = personas
BY DEF Handle, BeginDemo, Look, Matches, NoMatch, Enroll, BeginOnboard, BeginDelegate, Pick,
       NothingToPick, Delegate, BeginRevoke, Find, NothingToRevoke, Revoke, Fails

LEMMA NextLinkInv ==
  ASSUME BaseInv, \A i \in Ids : LinkInv(i), NEW h \in Handlers, Handle(h)
  PROVE  \A i \in Ids : LinkInv(i)'
<1>1. TypeOK /\ Local(h) /\ Grows
  BY HandleStep DEF BaseInv, Same
<1>2. ASSUME NEW i \in Ids, personas'[i] = personas[i]
      PROVE  LinkInv(i)'
  BY <1>1, <1>2 DEF LinkInv, Grows
<1>. DEFINE r == req[h]
            l == [active |-> None, from |-> None, label |-> {}, scopes |-> r.scopes]
<1>3. CASE Save(h)
  <2>1. /\ r.cred \in DOMAIN creds /\ creds[r.cred].scopes = r.scopes /\ creds' = creds
        /\ \A j \in Ids \ {r.id} : personas'[j] = personas[j]
    BY <1>1, <1>3, SaveEffect
  <2>2. \/ personas'[r.id] = [did |-> r.cred, link |-> l]
        \/ personas'[r.id] = [did |-> personas[r.id].did, link |-> Refreshed(r, l)]
    BY <1>1, <1>3, SaveEffect
  <2>3. \/ personas'[r.id].link.active = None
        \/ /\ personas'[r.id].link.active = r.cred /\ personas'[r.id].link.from = None
           /\ personas'[r.id].link.scopes = r.scopes
    BY <2>2 DEF Refreshed
  <2>4. ASSUME NEW i \in Ids, i = r.id
        PROVE  LinkInv(i)'
    BY <2>4, <2>1, <2>3 DEF LinkInv
  <2>. QED BY <1>2, <2>1, <2>4
<1>4. CASE Label(h)
  <2>1. /\ r.cred \in DOMAIN creds /\ creds[r.cred].scopes = r.scopes /\ creds' = creds
        /\ \A j \in Ids \ {r.id} : personas'[j] = personas[j]
        /\ personas'[r.id].link.active = r.cred /\ personas'[r.id].link.from = r.from
        /\ personas'[r.id].link.label = r.scopes /\ r.from # None
    BY <1>1, <1>4, LabelEffect
  <2>2. ASSUME NEW i \in Ids, i = r.id
        PROVE  LinkInv(i)'
    BY <2>2, <2>1 DEF LinkInv
  <2>. QED BY <1>2, <2>1, <2>2
<1>. QED BY <1>2, <1>3, <1>4, Unregistered

LEMMA PresentedIsActive ==
  ASSUME NEW i \in Ids, personas[i].link.active # None
  PROVE  Presented(i) \subseteq {personas[i].link.active}
BY DEF Presented

(***************************************************************************)
(* Whatever requests overlap, fail and are repeated, and whatever is       *)
(* revoked: a persona that names its credential cannot present a scope     *)
(* that the list of personas does not show.                                *)
(***************************************************************************)
THEOREM AuthorityIsShown == Spec => []ShownBoundsAuthority
<1>1. Init => BaseInv /\ \A i \in Ids : LinkInv(i)
  BY InitTypeOK DEF BaseInv, Init, LinkInv
<1>2. BaseInv /\ (\A i \in Ids : LinkInv(i)) /\ [Next]_vars
        => (BaseInv /\ \A i \in Ids : LinkInv(i))'
  <2>1. (\A i \in Ids : LinkInv(i)) /\ UNCHANGED vars => \A i \in Ids : LinkInv(i)'
    BY DEF vars, LinkInv
  <2>. QED BY <2>1, NextBaseInv, NextLinkInv DEF Next
<1>3. ASSUME \A i \in Ids : LinkInv(i)
      PROVE  ShownBoundsAuthority
  <2>. SUFFICES ASSUME NEW i \in Ids, personas[i] # None, personas[i].link.active # None
                PROVE  LET l == personas[i].link
                       IN Authority(i) \subseteq (IF l.from = None THEN l.scopes ELSE l.label)
    BY DEF ShownBoundsAuthority
  <2>1. Authority(i) \subseteq creds[personas[i].link.active].scopes
    BY PresentedIsActive DEF Authority
  <2>. QED BY <1>3, <2>1 DEF LinkInv
<1>. QED BY <1>1, <1>2, <1>3, PTL DEF Spec

(***************************************************************************)
(* Undisturbed requests: while none overlap, and while the demo is being   *)
(* created, there is one request, and what it has read is still true.      *)
(***************************************************************************)
Calm == overlaps = 0 \/ demo = "running"

CalmInv ==
    /\ demo = "ready" => \A h \in Handlers : req[h] = Idle
    /\ demo = "running" => \A h \in Handlers : req[h] # Idle => req[h].op = "demo"
    /\ Calm => \A g, h \in Handlers : req[g] # Idle /\ req[h] # Idle => g = h
    /\ Calm => \A h \in Handlers :
            req[h] # Idle /\ req[h].at \in {"list", "enroll", "save"} =>
                req[h].was = personas[req[h].id]

\* The request goes on, or ends, and with it the demo.
Onward(h) ==
    /\ req[h] # Idle /\ Others(h) /\ overlaps' = overlaps
    /\ \/ demo' \in {demo, "no"}
       \/ demo = "running" /\ demo' = "ready" /\ req'[h] = Idle
    /\ \/ req'[h] \in {Idle, Ensure(Target)}
       \/ /\ req'[h].op = req[h].op
          /\ req'[h].at \in {"list", "enroll", "save"} =>
                \/ req'[h].was = personas'[req'[h].id]
                \/ /\ req[h].at \in {"list", "enroll", "save"} /\ personas' = personas
                   /\ req'[h].was = req[h].was /\ req'[h].id = req[h].id
          /\ req'[h].at \in {"pick", "issue", "label"} =>
                /\ req[h].at \in {"pick", "issue", "label"}
                /\ req'[h].from = req[h].from /\ req'[h].by = req[h].by

LEMMA LookOnward ==
  ASSUME BaseInv, NEW h \in Handlers, Look(h)
  PROVE  Onward(h)
<1>1. req[h] \in Request /\ req[h] # Idle /\ personas' = personas /\ demo' = demo /\ overlaps' = overlaps
  BY BusyType, RequestFacts DEF BaseInv, Look
<1>. DEFINE r == [req[h] EXCEPT !.was = personas[req[h].id],
                                !.at = IF personas[req[h].id] = None THEN "enroll" ELSE "list"]
<1>2. r.op = req[h].op /\ r.was = personas[r.id] /\ r.at \in {"enroll", "list"}
  BY <1>1 DEF Request
<1>3. req'[h] = r /\ Others(h)
  BY DEF Look, BaseInv, TypeOK, Others
<1>. HIDE DEF r
<1>. QED BY <1>1, <1>2, <1>3 DEF Onward

LEMMA MoveOnward ==
  ASSUME BaseInv, NEW h \in Handlers, req[h] \in Request, NEW step \in Ats, NEW c \in CredIds,
         Goto(h, step) \/ Chosen(h, step, c),
         UNCHANGED <<personas, demo, overlaps>>,
         step \in {"list", "enroll", "save"} => req[h].at \in {"list", "enroll", "save"},
         step \in {"pick", "issue", "label"} => req[h].at \in {"pick", "issue", "label"}
  PROVE  Onward(h)
<1>1. /\ Others(h)
      /\ \/ req'[h] = [req[h] EXCEPT !.at = step]
         \/ req'[h] = [req[h] EXCEPT !.at = step, !.cred = c]
  <2>1. TypeOK
    BY DEF BaseInv
  <2>2. CASE Goto(h, step)
    BY <2>1, <2>2, GotoFacts
  <2>3. CASE Chosen(h, step, c)
    <3>1. c \in CredIds
      OBVIOUS
    <3>2. [req[h] EXCEPT !.at = step, !.cred = c] \in Request
      BY <3>1 DEF Request, Ats
    <3>3. req' = [req EXCEPT ![h] = [req[h] EXCEPT !.at = step, !.cred = c]]
      BY <2>1, <2>3 DEF Chosen, TypeOK
    <3>. QED BY <2>1, <3>2, <3>3, SetReq
  <2>. QED BY <2>2, <2>3
<1>2. /\ req'[h].op = req[h].op /\ req'[h].at = step
      /\ req'[h].was = req[h].was /\ req'[h].id = req[h].id
      /\ req'[h].from = req[h].from /\ req'[h].by = req[h].by
  BY <1>1 DEF Request
<1>3. req[h] # Idle
  BY RequestFacts
<1>. QED BY <1>1, <1>2, <1>3 DEF Onward

LEMMA AdvanceOnward ==
  ASSUME BaseInv, NEW h \in Handlers, req[h] \in Request, Advance(h), overlaps' = overlaps
  PROVE  Onward(h)
BY AdvanceFacts, RequestFacts DEF BaseInv, Onward

LEMMA HandleOnward ==
  ASSUME BaseInv, NEW h \in Handlers, Handle(h)
  PROVE  Begins(h) \/ Onward(h)
<1>1. TypeOK /\ Local(h)
  BY DEF BaseInv
<1>2. CASE Matches(h)
  <2>1. req[h] \in Request /\ req[h].at = "list" /\ UNCHANGED <<personas, overlaps>>
    BY <1>1, <1>2, BusyType DEF Matches
  <2>2. PICK c \in Active(req[h].was.did) :
            \/ Chosen(h, "save", c) /\ UNCHANGED demo
            \/ Advance(h)
    BY <1>2 DEF Matches
  <2>3. c \in CredIds
    BY <1>1, ActiveFacts
  <2>4. CASE Chosen(h, "save", c) /\ UNCHANGED demo
    BY <2>1, <2>3, <2>4, MoveOnward DEF Ats
  <2>. QED BY <2>1, <2>2, <2>4, AdvanceOnward
<1>3. CASE NoMatch(h)
  <2>1. req[h] \in Request /\ req[h].at = "list" /\ Goto(h, "enroll")
        /\ UNCHANGED <<personas, demo, overlaps>>
    BY <1>1, <1>3, BusyType DEF NoMatch
  <2>2. Others(h) /\ req'[h] = [req[h] EXCEPT !.at = "enroll"]
    BY <1>1, <2>1, GotoFacts DEF Ats
  <2>3. /\ req'[h].op = req[h].op /\ req'[h].at = "enroll"
        /\ req'[h].was = req[h].was /\ req'[h].id = req[h].id
    BY <2>1, <2>2 DEF Request
  <2>4. req[h] # Idle
    BY <2>1, RequestFacts
  <2>. QED BY <2>1, <2>2, <2>3, <2>4 DEF Onward
<1>4. CASE Enroll(h)
  <2>1. req[h] \in Request /\ req[h].at = "enroll" /\ UNCHANGED <<personas, demo, overlaps>>
        /\ Chosen(h, "save", Len(creds) + 1)
    BY <1>1, <1>4, BusyType DEF Enroll
  <2>2. Len(creds) + 1 \in CredIds
    <3>1. Len(creds) \in Nat /\ Len(creds) < MaxCreds
      BY <1>1, <1>4, CredFacts DEF Enroll, Onboard, Issue
    <3>. QED BY <3>1 DEF CredIds
  <2>. QED BY <2>1, <2>2, MoveOnward DEF Ats
<1>5. CASE Save(h)
  <2>1. req[h] \in Request /\ Advance(h) /\ overlaps' = overlaps
    BY <1>1, <1>5, SaveEffect
  <2>. QED BY <2>1, AdvanceOnward
<1>6. CASE Pick(h)
  <2>1. req[h] \in Request /\ req[h].at = "pick" /\ UNCHANGED <<personas, demo, overlaps>>
    BY <1>1, <1>6, BusyType DEF Pick
  <2>2. PICK c \in Sources(req[h].by, req[h].scopes) : Chosen(h, "issue", c)
    BY <1>6 DEF Pick
  <2>3. c \in CredIds
    BY <1>1, <2>2, ActiveFacts DEF Sources
  <2>. QED BY <2>1, <2>2, <2>3, MoveOnward DEF Ats
<1>7. CASE Delegate(h)
  <2>1. req[h] \in Request /\ req[h].at = "issue" /\ UNCHANGED <<personas, demo, overlaps>>
        /\ Chosen(h, "label", Len(creds) + 1)
    BY <1>1, <1>7, BusyType DEF Delegate
  <2>2. Len(creds) + 1 \in CredIds
    <3>1. Len(creds) \in Nat /\ Len(creds) < MaxCreds
      BY <1>1, <1>7, CredFacts DEF Delegate, DelegateAuthority, Issue
    <3>. QED BY <3>1 DEF CredIds
  <2>. QED BY <2>1, <2>2, MoveOnward DEF Ats
<1>8. CASE Find(h)
  <2>1. req[h] \in Request /\ UNCHANGED <<personas, demo, overlaps>>
    BY <1>1, <1>8, BusyType DEF Find
  <2>2. PICK c \in Active(req[h].was.did) : Chosen(h, "revoke", c)
    BY <1>8 DEF Find
  <2>3. c \in CredIds
    BY <1>1, <2>2, ActiveFacts
  <2>. QED BY <2>1, <2>2, <2>3, MoveOnward DEF Ats
<1>9. CASE Label(h) \/ NothingToPick(h) \/ NothingToRevoke(h) \/ Revoke(h) \/ Fails(h)
  <2>1. End(h) /\ overlaps' = overlaps /\ demo' \in {demo, "no"} /\ req[h] \in Request
    BY <1>1, <1>9, BusyType DEF Label, NothingToPick, NothingToRevoke, Revoke, Fails
  <2>. QED BY <1>1, <2>1, EndFacts, RequestFacts DEF Onward
<1>. QED
  BY <1>2, <1>3, <1>4, <1>5, <1>6, <1>7, <1>8, <1>9, LookOnward DEF Handle, Begins

LEMMA NextCalmInv ==
  ASSUME BaseInv, CalmInv, NEW h \in Handlers, Handle(h)
  PROVE  CalmInv'
<1>1. CASE Begins(h)
  <2>1. UNCHANGED <<personas, creds, revoked>>
    BY <1>1, BeginsRequest DEF BaseInv
  <2>2. PICK r \in Request : Begin(h, r) /\ Begun(r)
    BY <1>1, BeginsRequest DEF BaseInv
  <2>3. /\ req'[h] = r /\ Others(h)
        /\ \/ /\ \A g \in Handlers : req[g] = Idle
              /\ demo' = IF r.op = "demo" THEN "running" ELSE "no"
           \/ demo' = "no" /\ overlaps' > 0
    BY <2>2, BeginFacts DEF BaseInv
  <2>4. CASE demo' = "no" /\ overlaps' > 0
    BY <2>4 DEF CalmInv, Calm
  <2>5. CASE /\ \A g \in Handlers : req[g] = Idle
             /\ demo' = IF r.op = "demo" THEN "running" ELSE "no"
    <3>1. \A g \in Handlers : req'[g] # Idle => g = h
      BY <2>3, <2>5 DEF Others
    <3>2. r.at \in {"list", "enroll", "save"} => r.was = personas[r.id]
      BY <2>2 DEF Begun
    <3>. QED BY <2>1, <2>3, <2>5, <3>1, <3>2 DEF CalmInv
  <2>. QED BY <2>3, <2>4, <2>5
<1>2. CASE Onward(h)
  <2>1. /\ req[h] # Idle /\ Others(h) /\ overlaps' = overlaps
        /\ \/ demo' \in {demo, "no"}
           \/ demo = "running" /\ demo' = "ready" /\ req'[h] = Idle
    BY <1>2 DEF Onward
  <2>2. demo # "ready"
    BY <2>1 DEF CalmInv
  <2>3. Calm => \A g \in Handlers \ {h} : req'[g] = Idle
    BY <2>1 DEF CalmInv, Others
  <2>4. Calm' => Calm
    BY <2>1 DEF Calm
  <2>5. demo' = "ready" => \A g \in Handlers : req'[g] = Idle
    BY <2>1, <2>2, <2>3 DEF Calm
  <2>6. demo' = "running" => demo = "running" /\ req[h].op = "demo"
    BY <2>1 DEF CalmInv
  <2>7. /\ demo' = "running" => (req'[h] # Idle => req'[h].op = "demo")
        /\ Calm' => (req'[h] # Idle /\ req'[h].at \in {"list", "enroll", "save"} =>
                        req'[h].was = personas'[req'[h].id])
    <3>1. CASE req'[h] = Idle
      BY <3>1
    <3>2. CASE req'[h] = Ensure(Target)
      BY <3>2, EnsureType DEF BaseInv
    <3>3. CASE /\ req'[h].op = req[h].op
               /\ req'[h].at \in {"list", "enroll", "save"} =>
                    \/ req'[h].was = personas'[req'[h].id]
                    \/ /\ req[h].at \in {"list", "enroll", "save"} /\ personas' = personas
                       /\ req'[h].was = req[h].was /\ req'[h].id = req[h].id
      BY <2>1, <2>4, <2>6, <3>3 DEF CalmInv
    <3>. QED BY <1>2, <3>1, <3>2, <3>3 DEF Onward
  <2>. QED BY <2>3, <2>4, <2>5, <2>6, <2>7 DEF CalmInv, Calm
<1>. QED BY <1>1, <1>2, HandleOnward

(***************************************************************************)
(* Labels and delegators.                                                  *)
(***************************************************************************)
Delegated(i) ==
    personas[i] # None /\ personas[i].link.from # None =>
        LET l == personas[i].link
        IN /\ personas[l.from] # None /\ l.active \in DOMAIN creds
           /\ creds[l.active].by = personas[l.from].did

Delegator(h) ==
    req[h] # Idle /\ req[h].at \in {"pick", "issue", "label"} =>
        personas[req[h].from] # None /\ personas[req[h].from].did = req[h].by

LabelInv == overlaps = 0 => (\A i \in Ids : Delegated(i)) /\ \A h \in Handlers : Delegator(h)

\* An agent keeps its DID.
Keeps == \A i \in Ids : personas[i] # None =>
            personas'[i] # None /\ personas'[i].did = personas[i].did

LEMMA HandleKeeps ==
  ASSUME BaseInv, CalmInv, NEW h \in Handlers, Handle(h), overlaps = 0
  PROVE  Keeps
<1>1. TypeOK /\ Local(h)
  BY DEF BaseInv
<1>. DEFINE r == req[h]
            l == [active |-> None, from |-> None, label |-> {}, scopes |-> r.scopes]
<1>2. CASE Save(h)
  <2>1. /\ r \in Request /\ r.id \in Ids /\ r.at = "save"
        /\ personas' \in [Ids -> Entry \cup {None}]
        /\ \A j \in Ids \ {r.id} : personas'[j] = personas[j]
    BY <1>1, <1>2, SaveEffect DEF Save
  <2>2. \/ r.was = None
        \/ /\ personas[r.id] # None
           /\ personas'[r.id] = [did |-> personas[r.id].did, link |-> Refreshed(r, l)]
    BY <1>1, <1>2, SaveEffect
  <2>3. r.was = personas[r.id]
    BY <2>1, RequestFacts DEF CalmInv, Calm
  <2>4. CASE r.was # None
    <3>1. personas[r.id].did \in Dids
      BY <1>1, <2>1, <2>3, <2>4 DEF TypeOK, Registry!Entry
    <3>2. r.cred \in CredIds
      BY <1>1, <1>2, SaveEffect
    <3>3. Refreshed(r, l) \in Links
      BY <2>1, <3>2, RefreshedType
    <3>4. [did |-> personas[r.id].did, link |-> Refreshed(r, l)] \in Entry
      BY <3>1, <3>3 DEF Entry, Registry!Entry
    <3>5. personas'[r.id] # None /\ personas'[r.id].did = personas[r.id].did
      BY <2>2, <2>4, <3>4, EntryIsSome
    <3>. QED BY <2>1, <3>5 DEF Keeps
  <2>. QED BY <2>1, <2>3, <2>4 DEF Keeps
<1>3. CASE Label(h)
  <2>1. /\ \A j \in Ids \ {r.id} : personas'[j] = personas[j]
        /\ personas'[r.id] # None /\ personas'[r.id].did = personas[r.id].did
    BY <1>1, <1>3, LabelEffect
  <2>. QED BY <2>1 DEF Keeps
<1>. QED BY <1>2, <1>3, Unregistered DEF Keeps

LEMMA NextLabelInv ==
  ASSUME BaseInv, CalmInv, LabelInv, NEW h \in Handlers, Handle(h)
  PROVE  LabelInv'
<1>. SUFFICES ASSUME overlaps' = 0
              PROVE  (\A i \in Ids : Delegated(i)') /\ \A g \in Handlers : Delegator(g)'
  BY DEF LabelInv
<1>1. TypeOK /\ Local(h) /\ Grows /\ Others(h) /\ TypeOK'
  BY HandleStep DEF BaseInv, Same
<1>2. overlaps = 0
  <2>1. CASE Begins(h)
    <3>1. PICK r \in Request : Begin(h, r)
      BY <2>1, BeginsRequest DEF BaseInv
    <3>. QED BY <1>1, <3>1 DEF Begin, TypeOK
  <2>. QED BY <2>1, HandleOnward DEF Onward
<1>3. Keeps
  BY <1>2, HandleKeeps
<1>. DEFINE r == req[h]
<1>4. ASSUME NEW i \in Ids, personas'[i] = personas[i]
      PROVE  Delegated(i)'
  <2>. SUFFICES ASSUME personas[i] # None, personas[i].link.from # None
                PROVE  LET l == personas[i].link
                       IN /\ personas'[l.from] # None /\ l.active \in DOMAIN creds'
                          /\ creds'[l.active].by = personas'[l.from].did
    BY <1>4 DEF Delegated
  <2>1. personas[i].link.from \in Ids
    BY <1>1 DEF TypeOK, Registry!Entry, Links
  <2>. QED BY <1>1, <1>2, <1>3, <2>1 DEF LabelInv, Delegated, Keeps, Grows
<1>5. \A i \in Ids : Delegated(i)'
  <2>1. CASE Save(h)
    <3>1. \A j \in Ids \ {r.id} : personas'[j] = personas[j]
      BY <1>1, <2>1, SaveEffect
    <3>. DEFINE l == [active |-> None, from |-> None, label |-> {}, scopes |-> r.scopes]
    <3>2. \/ personas'[r.id] = [did |-> r.cred, link |-> l]
          \/ personas'[r.id] = [did |-> personas[r.id].did, link |-> Refreshed(r, l)]
      BY <1>1, <2>1, SaveEffect
    <3>3. personas'[r.id].link.from = None
      BY <3>2 DEF Refreshed
    <3>4. ASSUME NEW i \in Ids, i = r.id
          PROVE  Delegated(i)'
      BY <3>3, <3>4 DEF Delegated
    <3>. QED BY <1>4, <3>1, <3>4
  <2>2. CASE Label(h)
    <3>1. /\ r \in Request /\ r.at = "label" /\ r # Idle /\ r.from \in Ids
          /\ r.cred \in DOMAIN creds /\ creds[r.cred].by = r.by /\ creds' = creds
          /\ \A j \in Ids \ {r.id} : personas'[j] = personas[j]
          /\ personas'[r.id].link.active = r.cred /\ personas'[r.id].link.from = r.from
      BY <1>1, <2>2, LabelEffect, RequestFacts
    <3>2. personas'[r.from] # None /\ personas'[r.from].did = r.by
      BY <1>2, <1>3, <3>1 DEF LabelInv, Delegator, Keeps
    <3>3. ASSUME NEW i \in Ids, i = r.id
          PROVE  Delegated(i)'
      BY <3>1, <3>2, <3>3 DEF Delegated
    <3>. QED BY <1>4, <3>1, <3>3
  <2>. QED BY <1>4, <2>1, <2>2, Unregistered
<1>6. ASSUME NEW g \in Handlers,
             req'[g] # Idle /\ req'[g].at \in {"pick", "issue", "label"} =>
                /\ req[g] # Idle /\ req[g].at \in {"pick", "issue", "label"}
                /\ req'[g].from = req[g].from /\ req'[g].by = req[g].by
      PROVE  Delegator(g)'
  <2>. SUFFICES ASSUME req'[g] # Idle, req'[g].at \in {"pick", "issue", "label"}
                PROVE  personas'[req'[g].from] # None /\ personas'[req'[g].from].did = req'[g].by
    BY DEF Delegator
  <2>1. req[g] # Idle /\ req[g].at \in {"pick", "issue", "label"} /\ Local(g)
    BY <1>6 DEF BaseInv
  <2>2. req[g].from \in Ids
    BY <1>1, <2>1, BusyType, RequestFacts DEF Local
  <2>. QED BY <1>2, <1>3, <1>6, <2>1, <2>2 DEF LabelInv, Delegator, Keeps
<1>7. Delegator(h)'
  <2>1. CASE Begins(h)
    <3>1. personas' = personas
      BY <1>1, <2>1, BeginsRequest DEF BaseInv
    <3>2. PICK q \in Request : Begin(h, q) /\ Begun(q)
      BY <1>1, <2>1, BeginsRequest DEF BaseInv
    <3>3. req'[h] = q
      BY <1>1, <3>2, BeginFacts
    <3>. QED BY <3>1, <3>2, <3>3 DEF Begun, Delegator
  <2>2. CASE Onward(h)
    <3>1. CASE req'[h] \in {Idle, Ensure(Target)}
      BY <1>1, <3>1, EnsureType DEF Delegator
    <3>2. CASE ~(req'[h] \in {Idle, Ensure(Target)})
      BY <1>6, <2>2, <3>2 DEF Onward
    <3>. QED BY <3>1, <3>2
  <2>. QED BY <2>1, <2>2, HandleOnward
<1>8. \A g \in Handlers \ {h} : Delegator(g)'
  BY <1>1, <1>6 DEF Others
<1>. QED BY <1>5, <1>7, <1>8

DemoInv == BaseInv /\ CalmInv

LEMMA InitDemoInv == Init => DemoInv /\ LabelInv
BY InitTypeOK DEF DemoInv, BaseInv, CalmInv, LabelInv, Delegated, Delegator, Init

LEMMA NextDemoInv == DemoInv /\ [Next]_vars => DemoInv'
<1>1. CalmInv /\ UNCHANGED vars => CalmInv'
  BY DEF vars, CalmInv, Calm
<1>. QED BY <1>1, NextBaseInv, NextCalmInv DEF Next, DemoInv

(***************************************************************************)
(* As long as no two requests overlap, the persona that a delegation's     *)
(* label names is the delegator of the credential that is presented under  *)
(* it, whatever fails, is repeated, refreshed or revoked.                  *)
(***************************************************************************)
THEOREM LabelsAreTrue == Spec => []LabelNamesDelegator
<1>1. DemoInv /\ LabelInv /\ [Next]_vars => LabelInv'
  <2>1. LabelInv /\ UNCHANGED vars => LabelInv'
    BY DEF vars, LabelInv, Delegated, Delegator
  <2>. QED BY <2>1, NextLabelInv DEF Next, DemoInv
<1>2. ASSUME DemoInv, LabelInv
      PROVE  LabelNamesDelegator
  <2>. SUFFICES ASSUME NEW i \in Ids, personas[i] # None, personas[i].link.from # None,
                       overlaps = 0, NEW c \in Presented(i)
                PROVE  creds[c].by = personas[personas[i].link.from].did
    BY DEF LabelNamesDelegator
  <2>1. Delegated(i)
    BY <1>2 DEF LabelInv
  <2>2. personas[i].link.active # None
    BY <1>2, <2>1, CredFacts DEF Delegated, DemoInv, BaseInv, CredIds
  <2>. QED BY <2>1, <2>2, PresentedIsActive DEF Delegated
<1>. QED BY <1>1, <1>2, InitDemoInv, NextDemoInv, PTL DEF Spec

(***************************************************************************)
(* The demo's target.                                                      *)
(***************************************************************************)

\* Nobody else acts under a DID that the demo has just created.
Fresh(h) ==
    demo = "running" /\ req[h] # Idle /\ req[h].at = "save" /\ req[h].was = None =>
        \A c \in DOMAIN creds : creds[c].did = req[h].cred => c = req[h].cred

TargetInv ==
    /\ \A h \in Handlers : Fresh(h)
    /\ demo = "ready" => Authority(Target) \subseteq Wants[Target].scopes

LEMMA ReadyStep ==
  ASSUME BaseInv, CalmInv, NEW h \in Handlers, Handle(h), demo' = "ready"
  PROVE  /\ demo = "running" /\ Advance(h) /\ (Save(h) \/ Matches(h))
         /\ req[h] \in Request /\ req[h].op = "demo" /\ req[h].id = Target
         /\ req[h].scopes = Wants[Target].scopes
<1>1. ~Begins(h)
  <2>. SUFFICES ASSUME Begins(h) PROVE FALSE
    OBVIOUS
  <2>1. PICK r \in Request : Begin(h, r)
    BY BeginsRequest DEF BaseInv
  <2>. QED BY <2>1, BeginFacts DEF BaseInv
<1>2. req[h] # Idle /\ req[h] \in Request /\ Local(h) /\ TypeOK
  BY <1>1, HandleOnward, BusyType DEF Onward, BaseInv
<1>3. demo # "ready"
  BY <1>2 DEF CalmInv
<1>4. Advance(h) /\ (Save(h) \/ Matches(h))
  <2>1. CASE Save(h)
    BY <2>1 DEF Save
  <2>2. CASE Matches(h)
    BY <1>3, <2>2 DEF Matches
  <2>. QED BY <1>1, <1>3, <2>1, <2>2
         DEF Handle, Begins, Look, NoMatch, Enroll, Pick, NothingToPick, Delegate, Label, Find,
             NothingToRevoke, Revoke, Fails
<1>5. demo = "running" /\ req[h].op = "demo" /\ req[h].id # Source
  BY <1>2, <1>3, <1>4, AdvanceFacts
<1>. QED BY <1>2, <1>4, <1>5 DEF Local

LEMMA ReadyTarget ==
  ASSUME BaseInv, CalmInv, TargetInv, NEW h \in Handlers, Handle(h), demo' = "ready"
  PROVE  Authority(Target)' \subseteq Wants[Target].scopes
<1>. DEFINE r == req[h]
            own == {c \in DOMAIN creds : creds[c].did = personas'[Target].did}
<1>1. /\ demo = "running" /\ Advance(h) /\ (Save(h) \/ Matches(h))
      /\ r \in Request /\ r # Idle /\ r.op = "demo" /\ r.id = Target
      /\ r.scopes = Wants[Target].scopes /\ TypeOK /\ Local(h)
  BY ReadyStep, RequestFacts DEF BaseInv
<1>2. creds' = creds /\ revoked' = revoked
  BY <1>1 DEF Save, Matches
<1>3. ASSUME NEW c \in CredIds, creds[c].scopes = r.scopes,
             \/ personas'[Target].link.active = c
             \/ own \subseteq {c}
      PROVE  Authority(Target)' \subseteq Wants[Target].scopes
  <2>1. Presented(Target)' \subseteq {c}
    <3>. SUFFICES ASSUME NEW d \in Presented(Target)' PROVE d = c
      OBVIOUS
    <3>1. /\ d \in own
          /\ personas'[Target].link.active # None => personas'[Target].link.active = d
      BY <1>2 DEF Presented, Active
    <3>2. c # None
      BY DEF CredIds
    <3>. QED BY <1>3, <3>1, <3>2
  <2>2. \A d \in Presented(Target)' : creds'[d].scopes \subseteq Wants[Target].scopes
    BY <1>1, <1>2, <1>3, <2>1
  <2>. QED BY <2>2 DEF Authority
<1>4. CASE Matches(h)
  <2>1. r.at = "list" /\ personas' = personas
    BY <1>4 DEF Matches
  <2>2. r.was = personas[Target]
    BY <1>1, <2>1 DEF CalmInv, Calm
  <2>3. PICK c \in Active(r.was.did) :
            /\ CanSatisfy(c, r)
            /\ IF r.was.link.active # c \/ r.was.link.from # None \/ r.was.link.label # {}
               THEN Chosen(h, "save", c) /\ UNCHANGED demo
               ELSE Advance(h)
    BY <1>4 DEF Matches
  <2>4. r.was.link.active = c
    BY <1>1, <2>3
  <2>5. c \in CredIds /\ creds[c].scopes = r.scopes
    BY <1>1, <2>3, ActiveFacts DEF CanSatisfy
  <2>. QED BY <1>3, <2>1, <2>2, <2>4, <2>5
<1>5. CASE Save(h)
  <2>. DEFINE l == [active |-> None, from |-> None, label |-> {}, scopes |-> r.scopes]
  <2>1. /\ r.at = "save" /\ r.cred \in CredIds /\ creds[r.cred].scopes = r.scopes
    BY <1>1, <1>5, SaveEffect DEF Save
  <2>2. \/ r.was = None /\ personas'[r.id] = [did |-> r.cred, link |-> l]
        \/ personas'[r.id] = [did |-> personas[r.id].did, link |-> Refreshed(r, l)]
    BY <1>1, <1>5, SaveEffect
  <2>3. CASE r.was = None /\ personas'[r.id] = [did |-> r.cred, link |-> l]
    <3>1. personas'[Target].did = r.cred
      BY <1>1, <2>3
    <3>2. own \subseteq {r.cred}
      BY <1>1, <2>1, <2>3, <3>1 DEF TargetInv, Fresh
    <3>. QED BY <1>3, <2>1, <3>2
  <2>4. CASE personas'[r.id] = [did |-> personas[r.id].did, link |-> Refreshed(r, l)]
    <3>1. personas'[Target].link.active = r.cred
      BY <1>1, <2>4 DEF Refreshed
    <3>. QED BY <1>3, <2>1, <3>1
  <2>. QED BY <2>2, <2>3, <2>4
<1>. QED BY <1>1, <1>4, <1>5

LEMMA NextTargetInv ==
  ASSUME BaseInv, CalmInv, TargetInv, NEW h \in Handlers, Handle(h)
  PROVE  TargetInv'
<1>1. TypeOK /\ DidInv /\ Local(h) /\ Others(h) /\ TypeOK'
  BY HandleStep DEF BaseInv, Same
<1>2. CASE Begins(h)
  <2>1. PICK r \in Request : Begin(h, r) /\ Begun(r)
    BY <1>1, <1>2, BeginsRequest
  <2>2. /\ req'[h] = r
        /\ \/ /\ \A g \in Handlers : req[g] = Idle
              /\ demo' = IF r.op = "demo" THEN "running" ELSE "no"
           \/ demo' = "no"
    BY <1>1, <2>1, BeginFacts
  <2>3. demo' = "running" => \A g \in Handlers : req'[g] = Idle \/ req'[g].at # "save"
    BY <1>1, <2>1, <2>2 DEF Begun, Others
  <2>. QED BY <2>2, <2>3 DEF TargetInv, Fresh
<1>3. CASE Onward(h)
  <2>. SUFFICES ASSUME NEW g \in Handlers, demo' = "running", req'[g] # Idle,
                       req'[g].at = "save", req'[g].was = None,
                       NEW c \in DOMAIN creds', creds'[c].did = req'[g].cred
                PROVE  c = req'[g].cred
    BY ReadyTarget DEF TargetInv, Fresh
  <2>1. demo = "running" /\ req[h] # Idle /\ req[h].op = "demo"
    BY <1>3 DEF Onward, CalmInv
  <2>2. g = h
    BY <1>1, <1>3, <2>1 DEF Onward, CalmInv, Calm, Others
  <2>3. req[h] \in Request /\ req[h].at \in {"look", "list", "enroll", "save"}
    BY <1>1, <2>1, BusyType DEF Local
  <2>4. CASE Enroll(h)
    <3>. DEFINE n == Len(creds) + 1
    <3>1. /\ creds'[n].did = n /\ Grows
          /\ req'[h] = [req[h] EXCEPT !.at = "save", !.cred = n]
          /\ DOMAIN creds' = DOMAIN creds \cup {n} /\ n \notin DOMAIN creds
      BY <1>1, <2>4, EnrollStep DEF Same
    <3>2. req'[h].cred = n
      BY <2>3, <3>1 DEF Request
    <3>. HIDE DEF n
    <3>3. c \in DOMAIN creds => creds'[c].did \in DOMAIN creds
      BY <1>1, <3>1 DEF DidInv, Grows
    <3>. QED BY <2>2, <3>1, <3>2, <3>3
  <2>5. ~Enroll(h) => req'[h].at # "save" \/ req'[h].was # None
    <3>1. CASE Advance(h)
      <4>1. req'[h] \in {Idle, Ensure(Target)}
        BY <1>1, <3>1, AdvanceFacts
      <4>. QED BY <1>1, <2>2, <4>1, EnsureType
    <3>2. CASE Matches(h)
      <4>1. req[h].at = "list" /\ req[h].was # None
        BY <1>1, <2>1, <3>2 DEF Matches, Local
      <4>2. PICK d \in Active(req[h].was.did) : Chosen(h, "save", d) \/ Advance(h)
        BY <3>2 DEF Matches
      <4>3. CASE Chosen(h, "save", d)
        <5>1. d \in CredIds
          BY <1>1, ActiveFacts
        <5>2. [req[h] EXCEPT !.at = "save", !.cred = d] \in Request
          BY <2>3, <5>1 DEF Request
        <5>3. req' = [req EXCEPT ![h] = [req[h] EXCEPT !.at = "save", !.cred = d]]
          BY <1>1, <4>3 DEF Chosen, TypeOK
        <5>4. req'[h] = [req[h] EXCEPT !.at = "save", !.cred = d]
          BY <1>1, <5>2, <5>3, SetReq
        <5>. QED BY <2>3, <4>1, <5>4 DEF Request
      <4>. QED BY <3>1, <4>2, <4>3
    <3>3. CASE Look(h)
      <4>. DEFINE r == [req[h] EXCEPT !.was = personas[req[h].id],
                                !.at = IF personas[req[h].id] = None THEN "enroll" ELSE "list"]
      <4>1. r.at # "save"
        BY <2>3 DEF Request
      <4>2. req'[h] = r
        BY <1>1, <3>3 DEF Look, TypeOK
      <4>. QED BY <4>1, <4>2
    <3>4. CASE NoMatch(h)
      <4>1. req'[h] = [req[h] EXCEPT !.at = "enroll"]
        BY <1>1, <2>3, <3>4, GotoFacts DEF NoMatch, Ats
      <4>. QED BY <2>3, <4>1 DEF Request
    <3>5. CASE Fails(h)
      <4>1. req'[h] = Idle
        BY <1>1, <3>5, EndFacts DEF Fails
      <4>. QED BY <2>2, <4>1
    <3>6. CASE Save(h)
      BY <3>1, <3>6 DEF Save
    <3>. QED BY <2>1, <2>3, <3>2, <3>3, <3>4, <3>5, <3>6
           DEF Handle, BeginDemo, BeginOnboard, BeginDelegate, BeginRevoke, Begin, Pick,
               NothingToPick, Delegate, Label, Find, NothingToRevoke, Revoke
  <2>. QED BY <2>2, <2>4, <2>5
<1>. QED BY <1>2, <1>3, HandleOnward

(***************************************************************************)
(* "Research Agent starts with no tool scopes": whatever was delegated to  *)
(* it before and whichever of its credentials are left, the target can do  *)
(* nothing when the demo's agents have just been created.                  *)
(***************************************************************************)
THEOREM TargetStartsUnprivileged ==
  ASSUME Wants[Target].scopes = {}
  PROVE  Spec => []DemoStartsUnprivileged
<1>1. Init => TargetInv
  BY DEF Init, TargetInv, Fresh
<1>2. DemoInv /\ TargetInv /\ [Next]_vars => TargetInv'
  <2>1. TargetInv /\ UNCHANGED vars => TargetInv'
    BY DEF vars, TargetInv, Fresh, Authority, Presented, Active, Verifies
  <2>. QED BY <2>1, NextTargetInv DEF Next, DemoInv
<1>3. TargetInv => DemoStartsUnprivileged
  BY DEF TargetInv, DemoStartsUnprivileged
<1>. QED BY <1>1, <1>2, <1>3, InitDemoInv, NextDemoInv, PTL DEF Spec

(***************************************************************************)
(* What the requests ask of the registry.  A persona is never removed, so  *)
(* one that a request has found is there when the request updates it.      *)
(***************************************************************************)
PersonasStay == \A i \in Ids : personas[i] # None => personas'[i] # None

UpdatesFindPersona ==
    \A h \in Handlers : req[h] # Idle /\ req[h].was # None => personas[req[h].id] # None

LEMMA StepAsksRegistry ==
  ASSUME BaseInv, NEW h \in Handlers, Handle(h)
  PROVE  (Registry!Next \/ UNCHANGED personas) /\ PersonasStay
<1>1. TypeOK /\ Local(h)
  BY DEF BaseInv
<1>2. CASE Save(h)
  <2>. DEFINE r == req[h]
              l == [active |-> None, from |-> None, label |-> {}, scopes |-> r.scopes]
  <2>1. /\ r \in Request /\ r.cred \in CredIds /\ r.id \in Ids
        /\ \A j \in Ids \ {r.id} : personas'[j] = personas[j]
        /\ personas' \in [Ids -> Entry \cup {None}]
        /\ \/ r.was = None /\ personas'[r.id] = [did |-> r.cred, link |-> l]
           \/ /\ r.was # None /\ personas[r.id] # None
              /\ personas'[r.id] = [did |-> personas[r.id].did, link |-> Refreshed(r, l)]
    BY <1>1, <1>2, SaveEffect
  <2>2. CASE r.was = None
    <3>1. [did |-> r.cred, link |-> l] \in Entry
      BY <2>1, RequestFacts DEF Entry, Registry!Entry, Links, Dids
    <3>2. Registry!Add(r.id, [did |-> r.cred, link |-> l])
      BY <1>2, <2>2 DEF Save
    <3>. HIDE DEF l
    <3>3. Registry!Next
      BY <2>1, <3>1, <3>2 DEF Registry!Next, Entry
    <3>4. personas'[r.id] # None
      BY <2>1, <2>2, <3>1, EntryIsSome
    <3>. QED BY <2>1, <3>3, <3>4 DEF PersonasStay
  <2>3. CASE r.was # None
    <3>1. Registry!Update(r.id, Refreshed(r, l))
      BY <1>2, <2>3 DEF Save, Refreshed
    <3>2. Refreshed(r, l) \in Links
      BY <2>1, RefreshedType
    <3>. HIDE DEF l
    <3>3. Registry!Next
      BY <2>1, <3>1, <3>2 DEF Registry!Next
    <3>4. personas'[r.id] # None
      BY <1>1, <2>1, <3>1, <3>2, UpdateFacts
    <3>. QED BY <2>1, <3>3, <3>4 DEF PersonasStay
  <2>. QED BY <2>2, <2>3
<1>3. CASE Label(h)
  <2>. DEFINE r == req[h]
              l == Labelled(r, personas[r.id].link)
  <2>1. /\ r \in Request /\ r.id \in Ids /\ r.cred \in CredIds
        /\ \A j \in Ids \ {r.id} : personas'[j] = personas[j]
        /\ personas[r.id] # None /\ personas'[r.id] # None
    BY <1>1, <1>3, LabelEffect, CredFacts
  <2>2. personas[r.id].link \in Links
    BY <1>1, <2>1 DEF TypeOK, Registry!Entry
  <2>3. l \in Links
    BY <2>1, <2>2, LabelledType
  <2>4. Registry!Update(r.id, l)
    BY <1>3 DEF Label
  <2>. HIDE DEF l
  <2>5. Registry!Next
    BY <2>1, <2>3, <2>4 DEF Registry!Next
  <2>. QED BY <2>1, <2>5 DEF PersonasStay
<1>4. CASE ~Save(h) /\ ~Label(h)
  <2>1. UNCHANGED personas
    BY <1>4 DEF Handle, BeginDemo, BeginOnboard, BeginDelegate, BeginRevoke, Look, Matches,
         NoMatch, Enroll, Pick, NothingToPick, Delegate, Find, NothingToRevoke, Revoke, Fails
  <2>. QED BY <2>1 DEF PersonasStay
<1>. QED BY <1>2, <1>3, <1>4

\* A step leaves alone whom its request is about, or begins with what the
\* registry says of another persona.
LEMMA StepKnowsPersona ==
  ASSUME BaseInv, NEW h \in Handlers, Handle(h), req'[h] # Idle
  PROVE  \/ req[h] # Idle /\ req'[h].was = req[h].was /\ req'[h].id = req[h].id
         \/ req'[h].was = personas[req'[h].id]
<1>1. TypeOK /\ DidInv /\ Local(h)
  BY DEF BaseInv
<1>2. CASE Begins(h)
  <2>1. PICK r \in Request : Begin(h, r) /\ Begun(r)
    BY <1>1, <1>2, BeginsRequest
  <2>2. req'[h] = r
    BY <1>1, <2>1, BeginFacts
  <2>. QED BY <2>1, <2>2 DEF Begun
<1>3. CASE Look(h)
  <2>1. req[h] \in Request
    BY <1>1, <1>3, BusyType DEF Look
  <2>2. req'[h] = [req[h] EXCEPT !.was = personas[req[h].id],
                                 !.at = IF personas[req[h].id] = None THEN "enroll" ELSE "list"]
    BY <1>1, <1>3 DEF Look, TypeOK
  <2>. QED BY <2>1, <2>2 DEF Request
<1>4. CASE NoMatch(h) \/ Enroll(h) \/ Pick(h) \/ Delegate(h) \/ Find(h) \/ Matches(h) \/ Save(h)
  <2>1. req[h] \in Request /\ req[h] # Idle
    BY <1>1, <1>4, BusyType, RequestFacts DEF NoMatch, Enroll, Pick, Delegate, Find, Matches, Save
  <2>2. ASSUME NEW step, NEW c, Goto(h, step) \/ Chosen(h, step, c)
        PROVE  req'[h].was = req[h].was /\ req'[h].id = req[h].id
    <3>1. \/ req'[h] = [req[h] EXCEPT !.at = step]
          \/ req'[h] = [req[h] EXCEPT !.at = step, !.cred = c]
      BY <1>1, <2>2 DEF Goto, Chosen, TypeOK
    <3>. QED BY <2>1, <3>1 DEF Request
  <2>3. CASE Advance(h)
    <3>1. req'[h] = Ensure(Target)
      BY <1>1, <2>3, AdvanceFacts
    <3>. QED BY <1>1, <3>1, EnsureType
  <2>4. Advance(h) \/ \E step, c : Goto(h, step) \/ Chosen(h, step, c)
    BY <1>4 DEF NoMatch, Enroll, Pick, Delegate, Find, Matches, Save
  <2>. QED BY <2>1, <2>2, <2>3, <2>4
<1>5. CASE NothingToPick(h) \/ Label(h) \/ NothingToRevoke(h) \/ Revoke(h) \/ Fails(h)
  BY <1>1, <1>5, EndFacts DEF NothingToPick, Label, NothingToRevoke, Revoke, Fails
<1>. QED BY <1>2, <1>3, <1>4, <1>5 DEF Handle, Begins

LEMMA NextFindsPersona ==
  BaseInv /\ UpdatesFindPersona /\ [Next]_vars => UpdatesFindPersona'
<1>1. UpdatesFindPersona /\ UNCHANGED vars => UpdatesFindPersona'
  BY DEF vars, UpdatesFindPersona
<1>2. ASSUME BaseInv, UpdatesFindPersona, NEW h \in Handlers, Handle(h)
      PROVE  UpdatesFindPersona'
  <2>1. Same(h) /\ TypeOK
    BY <1>2, HandleStep DEF BaseInv
  <2>2. PersonasStay
    BY <1>2, StepAsksRegistry
  <2>3. ASSUME NEW g \in Handlers, req'[g] # Idle, req'[g].was # None
        PROVE  personas'[req'[g].id] # None
    <3>1. req'[g].id \in Ids
      <4>1. req'[g] \in Request
        BY <2>1, <2>3 DEF Same, TypeOK
      <4>. QED BY <4>1, RequestFacts
    <3>2. personas[req'[g].id] # None
      <4>1. CASE g = h
        BY <1>2, <2>3, <4>1, StepKnowsPersona DEF UpdatesFindPersona
      <4>2. CASE g # h
        BY <1>2, <2>1, <2>3, <4>2 DEF Same, Others, UpdatesFindPersona
      <4>. QED BY <4>1, <4>2
    <3>. QED BY <2>2, <3>1, <3>2 DEF PersonasStay
  <2>. QED BY <2>3 DEF UpdatesFindPersona
<1>. QED BY <1>1, <1>2 DEF Next

(***************************************************************************)
(* To the requests the store is the registry that it promises to be: they  *)
(* change it by additions and updates only, one persona at a time, and no  *)
(* update ("Unknown persona") is of a persona that is not there, although  *)
(* awaits separate finding it from updating it.                            *)
(***************************************************************************)
THEOREM DemoUsesRegistry == Spec => Registry!Spec /\ []UpdatesFindPersona
<1>1. Init => BaseInv /\ UpdatesFindPersona
  BY InitTypeOK DEF BaseInv, Init, UpdatesFindPersona
<1>2. Init => Registry!Init
  BY DEF Init, Registry!Init
<1>3. BaseInv /\ [Next]_vars => [Registry!Next]_personas
  BY StepAsksRegistry DEF Next, vars
<1>. QED
  BY <1>1, <1>2, <1>3, NextBaseInv, NextFindsPersona, PTL DEF Spec, Registry!Spec
=============================================================================
