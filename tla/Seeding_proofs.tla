--------------------------- MODULE Seeding_proofs ---------------------------
(***************************************************************************)
(* Proofs about Seeding and the API process, for any number of SPs, API    *)
(* processes, signing keys, runs of the seeder and writes of the SPs.      *)
(***************************************************************************)
EXTENDS Seeding, TLAPS

(***************************************************************************)
(* Types.  The counters are natural numbers here: their bounds play no     *)
(* part in the proofs.                                                     *)
(***************************************************************************)
Seeder == [at : SeederSteps, todo : SUBSET SPs, sp : SPs \cup {None}, agent : Nat]

ApiTypes ==
    /\ issuer \in SigningKeys \cup {None}
    /\ agents \in Seq(Custody)
    /\ api \in [Procs -> Process \cup {Down}]
    /\ boots \in 0 .. MaxBoots

SeedTypes ==
    /\ identity \in [SPs -> [is : File, made : Nat]]
    /\ state \in [SPs -> File]
    /\ agentFile \in [is : File, agent : Nat]
    /\ seeder \in Seeder
    /\ sp \in [SPs -> {"down", "booting", "up"}] /\ writing \in [SPs -> Nat]
    /\ aborted \in Nat
    /\ disturbed \in [SPs -> Nat]

SpSteps == {"identity", "state", "keys", "saveKeys", "list", "saveList"}

LEMMA NextSpFacts ==
  ASSUME NEW todo \in SUBSET SPs, NextSp(todo)
  PROVE  /\ seeder' \in Seeder
         /\ \/ todo = {} /\ seeder'.at = "health"
            \/ /\ seeder'.at = "identity"
               /\ seeder'.sp \in todo /\ seeder'.todo = todo \ {seeder'.sp}
<1>1. CASE todo = {}
  BY <1>1 DEF NextSp, Idle, Seeder, SeederSteps
<1>2. CASE todo # {}
  <2>1. PICK s \in todo : seeder' = [Idle EXCEPT !.at = "identity", !.todo = todo \ {s}, !.sp = s]
    BY <1>2 DEF NextSp
  <2>. QED BY <2>1 DEF Idle, Seeder, SeederSteps
<1>. QED BY <1>1, <1>2

LEMMA GotoFacts ==
  ASSUME SeedTypes, NEW step \in SeederSteps, Goto(step)
  PROVE  /\ seeder' \in Seeder /\ seeder'.at = step
         /\ seeder'.todo = seeder.todo /\ seeder'.sp = seeder.sp /\ seeder'.agent = seeder.agent
BY DEF SeedTypes, Goto, Seeder

LEMMA IdleFacts ==
    /\ Idle \in Seeder /\ Idle.at = "idle"
BY DEF Idle, Seeder, SeederSteps

LEMMA DisturbFacts ==
  ASSUME SeedTypes, NEW s \in SPs, Disturb(s)
  PROVE  /\ disturbed' \in [SPs -> Nat]
         /\ disturbed'[s] = disturbed[s] + 1
         /\ \A q \in SPs : disturbed'[q] >= disturbed[q]
BY DEF SeedTypes, Disturb

LEMMA WriteFacts ==
  ASSUME SeedTypes, NEW s \in SPs, WriteState(s)
  PROVE  /\ state' \in [SPs -> File]
         /\ \A q \in SPs : q # s => state'[q] = state[q]
         /\ disturbed' \in [SPs -> Nat]
         /\ \A q \in SPs : disturbed'[q] >= disturbed[q]
         /\ state'[s] = "whole" \/ disturbed'[s] = disturbed[s] + 1
<1>1. PICK text \in {"whole", "torn"} : state' = [state EXCEPT ![s] = text]
  BY DEF WriteState, AfterWrite
<1>2. /\ state' \in [SPs -> File] /\ state'[s] \in {"whole", "torn"}
      /\ \A q \in SPs : q # s => state'[q] = state[q]
  BY <1>1 DEF SeedTypes, File
<1>3. CASE state'[s] = "torn"
  BY <1>2, <1>3, DisturbFacts DEF WriteState
<1>4. CASE state'[s] # "torn"
  BY <1>2, <1>4 DEF WriteState, SeedTypes
<1>. QED BY <1>3, <1>4

(***************************************************************************)
(* The API processes.                                                      *)
(***************************************************************************)
\* A configured key is the one that every process and every agent has.
Hosted ==
    HostedKey # None =>
        /\ \A p \in Procs : api[p] \in Process => api[p].custody = HostedKey
        /\ \A i \in 1 .. Len(agents) : agents[i] = HostedKey

ApiInv == ApiTypes /\ ServesWithRegisteredKey /\ Hosted

LEMMA ProcessFacts ==
    /\ \A x \in Process : x # Down /\ x.at # "down" /\ x.signing # None
    /\ Down.at = "down" /\ Down \notin Process
BY ApiAssumption DEF Process, Down

\* One process goes on, as it was started or not at all.
LEMMA ProcMoves ==
  ASSUME ApiInv, NEW p \in Procs, NEW P \in Process \cup {Down}, api' = [api EXCEPT ![p] = P],
         issuer' = issuer, agents' = agents, boots' \in 0 .. MaxBoots,
         P.at = "listening" => issuer = P.signing,
         HostedKey # None /\ P \in Process => P.custody = HostedKey
  PROVE  ApiInv'
<1>1. \A q \in Procs : api'[q] = IF q = p THEN P ELSE api[q]
  BY DEF ApiInv, ApiTypes
<1>2. ApiTypes'
  BY DEF ApiInv, ApiTypes
<1>3. ServesWithRegisteredKey'
  BY <1>1 DEF ApiInv, ServesWithRegisteredKey, Serving
<1>4. Hosted'
  BY <1>1 DEF ApiInv, Hosted
<1>. QED BY <1>2, <1>3, <1>4 DEF ApiInv

LEMMA DatabaseKeepsApiInv ==
  ASSUME ApiInv, Database
  PROVE  ApiInv'
<1>. USE ProcessFacts
<1>1. ASSUME NEW p \in Procs, StartApi(p)
      PROVE  ApiInv'
  <2>1. PICK k \in SigningKeys :
            api' = [api EXCEPT ![p] = [at |-> "look", signing |-> k,
                                       custody |-> CustodyKey(boots + 1)]]
    BY <1>1 DEF StartApi
  <2>. DEFINE P == [at |-> "look", signing |-> k, custody |-> CustodyKey(boots + 1)]
  <2>2. boots + 1 \in 1 .. MaxBoots /\ boots' = boots + 1 /\ issuer' = issuer /\ agents' = agents
    BY <1>1, ApiAssumption DEF StartApi, ApiInv, ApiTypes
  <2>3. P \in Process /\ P.at = "look" /\ (HostedKey # None => P.custody = HostedKey)
    BY <2>2 DEF CustodyKey, Custody, Process
  <2>4. boots' \in 0 .. MaxBoots
    BY <2>2
  <2>. HIDE DEF P
  <2>5. api' = [api EXCEPT ![p] = P]
    BY <2>1 DEF P
  <2>. QED BY <2>2, <2>3, <2>4, <2>5, ProcMoves
<1>2. ASSUME NEW p \in Procs, ApiStep(p) \/ StopApi(p)
      PROVE  ApiInv'
  <2>1. boots' \in 0 .. MaxBoots /\ agents' = agents
    BY <1>2 DEF ApiInv, ApiTypes, ApiStep, FindsIssuer, FindsNone, Refuses, CreateIssuer, StopApi
  <2>2. CASE FindsIssuer(p)
    <3>. DEFINE P == [api[p] EXCEPT !.at = "listening"]
    <3>1. api[p] \in Process
      BY <2>2 DEF ApiInv, ApiTypes, FindsIssuer
    <3>2. /\ P \in Process /\ P.signing = api[p].signing /\ P.custody = api[p].custody
          /\ api' = [api EXCEPT ![p] = P] /\ issuer' = issuer /\ issuer = api[p].signing
      BY <2>2, <3>1 DEF FindsIssuer, Process, Registered
    <3>. HIDE DEF P
    <3>3. HostedKey # None => P.custody = HostedKey
      BY <3>1, <3>2 DEF ApiInv, Hosted
    <3>. QED BY <2>1, <3>2, <3>3, ProcMoves
  <2>3. CASE FindsNone(p)
    <3>. DEFINE P == [api[p] EXCEPT !.at = "create"]
    <3>1. api[p] \in Process
      BY <2>3 DEF ApiInv, ApiTypes, FindsNone
    <3>2. /\ P \in Process /\ P.at = "create" /\ P.custody = api[p].custody
          /\ api' = [api EXCEPT ![p] = P] /\ issuer' = issuer
      BY <2>3, <3>1 DEF FindsNone, Process
    <3>. HIDE DEF P
    <3>3. HostedKey # None => P.custody = HostedKey
      BY <3>1, <3>2 DEF ApiInv, Hosted
    <3>. QED BY <2>1, <3>2, <3>3, ProcMoves
  <2>4. CASE Refuses(p) \/ StopApi(p)
    <3>1. api' = [api EXCEPT ![p] = Down] /\ issuer' = issuer
      BY <2>4 DEF Refuses, StopApi
    <3>. QED BY <2>1, <3>1, ProcMoves
  <2>5. CASE CreateIssuer(p)
    <3>1. CASE issuer = None
      <4>. DEFINE P == [api[p] EXCEPT !.at = "listening"]
      <4>1. api[p] \in Process
        BY <2>5 DEF ApiInv, ApiTypes, CreateIssuer
      <4>2. /\ P \in Process /\ P.signing = api[p].signing /\ P.custody = api[p].custody
            /\ api' = [api EXCEPT ![p] = P] /\ issuer' = api[p].signing
        BY <2>5, <3>1, <4>1 DEF CreateIssuer, Process
      <4>. HIDE DEF P
      <4>3. \A q \in Procs : ~Serving(q)
        BY <3>1 DEF ApiInv, ApiTypes, ServesWithRegisteredKey, Serving
      <4>4. \A q \in Procs : api'[q] = IF q = p THEN P ELSE api[q]
        BY <4>2 DEF ApiInv, ApiTypes
      <4>5. ServesWithRegisteredKey'
        BY <4>2, <4>3, <4>4 DEF ServesWithRegisteredKey, Serving
      <4>6. Hosted'
        BY <2>1, <4>1, <4>2, <4>4 DEF ApiInv, Hosted
      <4>7. issuer' \in SigningKeys
        BY <4>1, <4>2 DEF Process
      <4>8. ApiTypes'
        BY <2>1, <4>2, <4>7 DEF ApiInv, ApiTypes
      <4>. QED BY <4>5, <4>6, <4>8 DEF ApiInv
    <3>2. CASE issuer # None
      <4>1. api' = [api EXCEPT ![p] = Down] /\ issuer' = issuer
        BY <2>5, <3>2 DEF CreateIssuer
      <4>. QED BY <2>1, <4>1, ProcMoves
    <3>. QED BY <3>1, <3>2
  <2>. QED BY <1>2, <2>2, <2>3, <2>4, <2>5 DEF ApiStep
<1>. QED BY <1>1, <1>2 DEF Database

LEMMA OnboardFacts ==
  ASSUME ApiInv, NEW p \in Procs, OnboardAt(p)
  PROVE  /\ ApiInv'
         /\ Len(agents') = Len(agents) + 1 /\ Len(agents) \in Nat
<1>1. api[p] \in Process /\ api[p].custody \in Custody
  BY ProcessFacts DEF OnboardAt, Serving, ApiInv, ApiTypes, Process
<1>2. agents' = Append(agents, api[p].custody) /\ issuer' = issuer /\ api' = api /\ boots' = boots
  BY DEF OnboardAt
<1>3. agents \in Seq(Custody)
  BY DEF ApiInv, ApiTypes
<1>4. /\ agents' \in Seq(Custody) /\ Len(agents') = Len(agents) + 1 /\ Len(agents) \in Nat
      /\ \A i \in 1 .. Len(agents) : agents'[i] = agents[i]
      /\ agents'[Len(agents) + 1] = api[p].custody
  BY <1>1, <1>2, <1>3
<1>5. Hosted'
  BY <1>1, <1>2, <1>4 DEF ApiInv, Hosted
<1>6. ApiTypes' /\ ServesWithRegisteredKey'
  BY <1>2, <1>4 DEF ApiInv, ApiTypes, ServesWithRegisteredKey, Serving
<1>. QED BY <1>4, <1>5, <1>6 DEF ApiInv

(***************************************************************************)
(* What the seeder has done so far.                                        *)
(***************************************************************************)
\* The SPs that it is through with have an identity; in the end, all have.
Provisioned ==
    /\ seeder.at \in SpSteps =>
        /\ seeder.sp \in SPs
        /\ \A s \in SPs : s \in seeder.todo \/ s = seeder.sp \/ identity[s].is = "whole"
    /\ seeder.at \in {"state", "list", "saveList"} => identity[seeder.sp].is = "whole"
    /\ seeder.at \notin SpSteps \cup {"idle"} => \A s \in SPs : identity[s].is = "whole"

\* The agent of the file, or of the seeder that is about to write it.
AgentKnown ==
    /\ agentFile.is = "whole" => agentFile.agent \in 1 .. Len(agents)
    /\ seeder.at \in {"saving", "save"} => seeder.agent \in 1 .. Len(agents)
    /\ seeder.at = "done" => agentFile.is = "whole"
    /\ seeder.at \in {"onboard", "saving"} => agentFile.is # "whole"

\* The agents that no file knows of are those of the aborted runs.
FewAgents ==
    /\ Len(agents) <= aborted + 1
    /\ agentFile.is # "whole" /\ seeder.at \notin {"saving", "save"} => Len(agents) <= aborted

\* An SP's files are complete, or are being completed by the SP or the seeder.
Complete(s) ==
    \/ identity[s].is = "whole" /\ (state[s] = "whole" \/ Unfinished(s))
    \/ seeder.sp = s /\ seeder.at \in {"saveKeys", "list", "saveList"}

\* New keys are made when the former ones were disturbed.
FewKeys ==
    \A s \in SPs :
        /\ identity[s].made <= disturbed[s] + 1
        /\ ~Complete(s) \/ (seeder.sp = s /\ seeder.at = "keys") => identity[s].made <= disturbed[s]

IInv == ApiInv /\ SeedTypes /\ Provisioned /\ AgentKnown /\ FewAgents /\ FewKeys

LEMMA InitIInv == Init => IInv
<1>. SUFFICES ASSUME Init
     PROVE  IInv
  OBVIOUS
<1>1. ApiInv
  BY ApiAssumption, ProcessFacts
  DEF Init, ApiInit, ApiInv, ApiTypes, ServesWithRegisteredKey, Serving, Hosted
<1>2. SeedTypes
  BY IdleFacts DEF Init, SeedTypes, File
<1>3. Provisioned /\ AgentKnown
  BY IdleFacts DEF Init, Provisioned, AgentKnown, SpSteps
<1>4. FewAgents /\ FewKeys
  BY IdleFacts DEF Init, ApiInit, FewAgents, FewKeys
<1>. QED BY <1>1, <1>2, <1>3, <1>4 DEF IInv

(***************************************************************************)
(* The steps, by what they concern.                                        *)
(***************************************************************************)
LEMMA ApiStays ==
  ASSUME ApiInv, UNCHANGED apiVars
  PROVE  ApiInv' /\ agents' = agents
BY DEF ApiInv, apiVars, ApiTypes, ServesWithRegisteredKey, Serving, Hosted

LEMMA DatabaseKeepsIInv ==
  ASSUME IInv, Database, UNCHANGED <<files, seeder, spVars, bounds>>
  PROVE  IInv'
<1>1. ApiInv'
  BY DatabaseKeepsApiInv DEF IInv
<1>2. agents' = agents
  BY DEF Database, StartApi, ApiStep, FindsIssuer, FindsNone, Refuses, CreateIssuer, StopApi
<1>. QED
  BY <1>1, <1>2 DEF IInv, files, bounds, spVars, SeedTypes, Provisioned, AgentKnown, FewAgents, FewKeys,
     Complete, Unfinished

LEMMA SpStepKeepsIInv ==
  ASSUME IInv, NEW s \in SPs, SpStep(s)
  PROVE  IInv'
<1>1. /\ UNCHANGED apiVars /\ identity' = identity /\ agentFile' = agentFile
      /\ seeder' = seeder /\ aborted' = aborted
  BY DEF SpStep, BootSp, Flush, Flushed, StopSp, Truncate, files
<1>2. ApiInv' /\ agents' = agents
  BY <1>1, ApiStays DEF IInv
<1>3. /\ state' \in [SPs -> File] /\ sp' \in [SPs -> {"down", "booting", "up"}]
      /\ writing' \in [SPs -> Nat] /\ disturbed' \in [SPs -> Nat]
      /\ \A q \in SPs : q # s => state'[q] = state[q] /\ writing'[q] = writing[q]
      /\ \A q \in SPs : disturbed'[q] >= disturbed[q]
      /\ \/ disturbed'[s] = disturbed[s] + 1
         \/ Complete(s) => Complete(s)'
  <2>1. ASSUME Truncate(s)
        PROVE  /\ state' \in [SPs -> File] /\ writing' \in [SPs -> Nat]
               /\ \A q \in SPs : q # s => state'[q] = state[q] /\ writing'[q] = writing[q]
               /\ Unfinished(s)'
    BY <2>1 DEF Truncate, Unfinished, IInv, SeedTypes, File
  <2>2. CASE BootSp(s)
    <3>1. CASE state[s] = "whole"
      BY <1>1, <2>2, <3>1 DEF BootSp, IInv, SeedTypes, Complete, Unfinished
    <3>2. CASE state[s] # "whole"
      <4>1. Truncate(s) /\ sp' = [sp EXCEPT ![s] = "booting"] /\ disturbed' = disturbed
        BY <2>2, <3>2 DEF BootSp
      <4>. QED BY <1>1, <2>1, <4>1 DEF IInv, SeedTypes, Complete
    <3>. QED BY <3>1, <3>2
  <2>3. CASE Flush(s)
    <3>1. Truncate(s) /\ sp' = sp /\ disturbed' = disturbed
      BY <2>3 DEF Flush
    <3>. QED BY <1>1, <2>1, <3>1 DEF IInv, SeedTypes, Complete
  <2>4. CASE Flushed(s)
    <3>1. /\ WriteState(s) /\ writing[s] > 0 /\ writing' = [writing EXCEPT ![s] = @ - 1]
          /\ sp' = [sp EXCEPT ![s] = "up"]
      BY <2>4 DEF Flushed
    <3>2. /\ writing' \in [SPs -> Nat] /\ sp' \in [SPs -> {"down", "booting", "up"}]
          /\ \A q \in SPs : q # s => writing'[q] = writing[q]
      BY <3>1 DEF IInv, SeedTypes
    <3>3. state'[s] = "whole" => (Complete(s) => Complete(s)')
      BY <1>1 DEF Complete
    <3>. QED BY <3>1, <3>2, <3>3, WriteFacts DEF IInv
  <2>5. CASE StopSp(s)
    <3>1. /\ state' = state /\ sp' = [sp EXCEPT ![s] = "down"]
          /\ writing' = [writing EXCEPT ![s] = 0]
      BY <2>5 DEF StopSp, files
    <3>2. /\ sp' \in [SPs -> {"down", "booting", "up"}] /\ writing' \in [SPs -> Nat]
          /\ \A q \in SPs : q # s => writing'[q] = writing[q]
      BY <3>1 DEF IInv, SeedTypes
    <3>3. CASE Unfinished(s)
      <4>1. Disturb(s)
        BY <2>5, <3>3 DEF StopSp
      <4>. QED BY <3>1, <3>2, <4>1, DisturbFacts DEF IInv, SeedTypes
    <3>4. CASE ~Unfinished(s)
      <4>1. disturbed' = disturbed
        BY <2>5, <3>4 DEF StopSp
      <4>2. Complete(s) => Complete(s)'
        BY <1>1, <3>1, <3>4 DEF Complete
      <4>. QED BY <3>1, <3>2, <4>1, <4>2 DEF IInv, SeedTypes
    <3>. QED BY <3>3, <3>4
  <2>. QED BY <2>2, <2>3, <2>4, <2>5 DEF SpStep
<1>4. SeedTypes'
  BY <1>1, <1>3 DEF IInv, SeedTypes
<1>5. Provisioned' /\ AgentKnown' /\ FewAgents'
  BY <1>1, <1>2 DEF IInv, Provisioned, AgentKnown, FewAgents
<1>6. FewKeys'
  <2>. SUFFICES ASSUME NEW q \in SPs
       PROVE  /\ identity[q].made <= disturbed'[q] + 1
              /\ ~Complete(q)' \/ (seeder.sp = q /\ seeder.at = "keys") =>
                    identity[q].made <= disturbed'[q]
    BY <1>1 DEF FewKeys
  <2>1. /\ identity[q].made \in Nat /\ disturbed[q] \in Nat /\ disturbed'[q] \in Nat
        /\ disturbed'[q] >= disturbed[q]
    BY <1>3 DEF IInv, SeedTypes
  <2>2. /\ identity[q].made <= disturbed[q] + 1
        /\ ~Complete(q) \/ (seeder.sp = q /\ seeder.at = "keys") => identity[q].made <= disturbed[q]
    BY DEF IInv, FewKeys
  <2>3. disturbed'[q] = disturbed[q] + 1 \/ (Complete(q) => Complete(q)')
    BY <1>1, <1>3 DEF Complete, Unfinished
  <2>. QED BY <2>1, <2>2, <2>3
<1>. QED BY <1>2, <1>4, <1>5, <1>6 DEF IInv

(***************************************************************************)
(* The seeder's steps.                                                     *)
(***************************************************************************)
\* A step that makes no keys, and goes on with an SP, or to the agent.
LEMMA SeederKeepsKeys ==
  ASSUME IInv, SeedTypes', identity' = identity, sp' = sp, writing' = writing,
         \A q \in SPs : disturbed'[q] >= disturbed[q],
         \A q \in SPs : disturbed'[q] = disturbed[q] + 1 \/ (Complete(q) => Complete(q)'),
         \A q \in SPs : seeder'.sp = q /\ seeder'.at = "keys" => identity[q].made <= disturbed'[q]
  PROVE  FewKeys'
<1>. SUFFICES ASSUME NEW q \in SPs
     PROVE  /\ identity[q].made <= disturbed'[q] + 1
            /\ ~Complete(q)' \/ (seeder'.sp = q /\ seeder'.at = "keys") =>
                  identity[q].made <= disturbed'[q]
  BY DEF FewKeys
<1>1. /\ identity[q].made \in Nat /\ disturbed[q] \in Nat /\ disturbed'[q] \in Nat
      /\ disturbed'[q] >= disturbed[q]
  BY DEF IInv, SeedTypes
<1>2. /\ identity[q].made <= disturbed[q] + 1
      /\ ~Complete(q) => identity[q].made <= disturbed[q]
  BY DEF IInv, FewKeys
<1>3. disturbed'[q] = disturbed[q] + 1 \/ (Complete(q) => Complete(q)')
  OBVIOUS
<1>. QED BY <1>1, <1>2, <1>3

LEMMA SameKeys ==
  ASSUME IInv, identity' = identity, state' = state, sp' = sp, writing' = writing, disturbed' = disturbed,
         seeder.at \notin {"saveKeys", "list", "saveList"}, seeder'.at # "keys"
  PROVE  FewKeys'
BY DEF IInv, FewKeys, Complete, Unfinished

\* The next SP, or the agent, once this one has its files.
LEMMA NextSpKeepsProvisioned ==
  ASSUME IInv, NextSp(seeder.todo), identity' = identity, seeder.at \in {"state", "saveList"}
  PROVE  /\ Provisioned' /\ seeder'.at \in {"identity", "health"} /\ seeder' \in Seeder
<1>1. seeder.todo \in SUBSET SPs
  BY DEF IInv, SeedTypes, Seeder
<1>2. /\ seeder' \in Seeder
      /\ \/ seeder.todo = {} /\ seeder'.at = "health"
         \/ /\ seeder'.at = "identity"
            /\ seeder'.sp \in seeder.todo /\ seeder'.todo = seeder.todo \ {seeder'.sp}
  BY <1>1, NextSpFacts
<1>3. \A s \in SPs : s \in seeder.todo \/ identity[s].is = "whole"
  BY DEF IInv, Provisioned, SpSteps
<1>. QED BY <1>1, <1>2, <1>3 DEF Provisioned, SpSteps

LEMMA StartSeederKeepsIInv ==
  ASSUME IInv, StartSeeder
  PROVE  IInv'
<1>1. /\ UNCHANGED apiVars /\ UNCHANGED files /\ sp' = sp /\ writing' = writing /\ aborted' = aborted
      /\ disturbed' = disturbed /\ NextSp(SPs) /\ seeder.at \in {"idle", "done"}
  BY DEF StartSeeder, Running, spVars
<1>2. identity' = identity /\ state' = state /\ agentFile' = agentFile
  BY <1>1 DEF files
<1>3. /\ seeder' \in Seeder
      /\ \/ SPs = {} /\ seeder'.at = "health"
         \/ /\ seeder'.at = "identity"
            /\ seeder'.sp \in SPs /\ seeder'.todo = SPs \ {seeder'.sp}
  BY <1>1, NextSpFacts
<1>4. ApiInv' /\ agents' = agents
  BY <1>1, ApiStays DEF IInv
<1>5. SeedTypes'
  BY <1>1, <1>2, <1>3 DEF IInv, SeedTypes
<1>6. Provisioned'
  BY <1>2, <1>3 DEF Provisioned, SpSteps
<1>7. AgentKnown' /\ FewAgents'
  BY <1>1, <1>2, <1>3, <1>4 DEF IInv, AgentKnown, FewAgents
<1>8. FewKeys'
  BY <1>1, <1>2, <1>3, SameKeys
<1>. QED BY <1>4, <1>5, <1>6, <1>7, <1>8 DEF IInv

LEMMA AbortKeepsIInv ==
  ASSUME IInv, Abort
  PROVE  IInv'
<1>1. /\ UNCHANGED apiVars /\ UNCHANGED files /\ sp' = sp /\ writing' = writing /\ aborted' = aborted + 1
      /\ seeder' = Idle
  BY DEF Abort, spVars
<1>2. identity' = identity /\ state' = state /\ agentFile' = agentFile
  BY <1>1 DEF files
<1>3. ApiInv' /\ agents' = agents /\ Len(agents) \in Nat
  BY <1>1, ApiStays DEF IInv, ApiInv, ApiTypes
<1>. DEFINE Interrupted ==
              \/ At("saveKeys")
              \/ seeder.at \in {"list", "saveList"} /\ state[seeder.sp] # "whole"
<1>4. seeder.at \in SpSteps => seeder.sp \in SPs
  BY DEF IInv, Provisioned
<1>5. /\ disturbed' \in [SPs -> Nat]
      /\ \A q \in SPs : disturbed'[q] >= disturbed[q]
      /\ Interrupted => disturbed'[seeder.sp] = disturbed[seeder.sp] + 1
  <2>1. CASE Interrupted
    <3>1. Disturb(seeder.sp) /\ seeder.sp \in SPs
      BY <1>4, <2>1 DEF Abort, At, SpSteps
    <3>. QED BY <3>1, DisturbFacts DEF IInv
  <2>2. CASE ~Interrupted
    <3>1. disturbed' = disturbed
      BY <2>2 DEF Abort
    <3>. QED BY <2>2, <3>1 DEF IInv, SeedTypes
  <2>. QED BY <2>1, <2>2
<1>6. SeedTypes'
  BY <1>1, <1>2, <1>5, IdleFacts DEF IInv, SeedTypes
<1>7. Provisioned' /\ AgentKnown'
  BY <1>1, <1>2, <1>3, IdleFacts DEF IInv, Provisioned, AgentKnown, SpSteps
<1>8. FewAgents'
  BY <1>1, <1>2, <1>3, IdleFacts DEF IInv, SeedTypes, FewAgents
<1>9. FewKeys'
  <2>1. ASSUME NEW q \in SPs
        PROVE  disturbed'[q] = disturbed[q] + 1 \/ (Complete(q) => Complete(q)')
    <3>1. CASE seeder.sp = q /\ Interrupted
      BY <1>5, <3>1
    <3>2. CASE ~(seeder.sp = q /\ Interrupted)
      <4>1. ASSUME seeder.sp = q, seeder.at \in {"saveKeys", "list", "saveList"}
            PROVE  state[q] = "whole" /\ identity[q].is = "whole"
        <5>1. seeder.at \in {"list", "saveList"} /\ state[seeder.sp] = "whole"
          BY <3>2, <4>1 DEF At
        <5>. QED BY <4>1, <5>1 DEF IInv, Provisioned
      <4>. QED BY <1>1, <1>2, <4>1 DEF Complete, Unfinished
    <3>. QED BY <3>1, <3>2
  <2>. HIDE DEF Interrupted
  <2>. QED BY <1>1, <1>2, <1>5, <1>6, <2>1, IdleFacts, SeederKeepsKeys
<1>. QED BY <1>3, <1>6, <1>7, <1>8, <1>9 DEF IInv

\* A step at an SP that goes on with it, and leaves the agent alone.
LEMMA SpKept ==
  ASSUME IInv, seeder.at \in SpSteps, UNCHANGED apiVars, agentFile' = agentFile,
         aborted' = aborted, seeder' \in Seeder,
         seeder'.at \in SpSteps \cup {"health"}
  PROVE  ApiInv' /\ AgentKnown' /\ FewAgents'
<1>1. ApiInv' /\ agents' = agents
  BY ApiStays DEF IInv
<1>. QED BY <1>1 DEF IInv, AgentKnown, FewAgents, SpSteps

LEMMA ReadsKeepIInv ==
  ASSUME IInv, ReadIdentity \/ ReadState
  PROVE  IInv'
<1>1. /\ UNCHANGED apiVars /\ UNCHANGED files /\ sp' = sp /\ writing' = writing /\ aborted' = aborted
      /\ identity' = identity /\ state' = state /\ agentFile' = agentFile
      /\ seeder.at \in {"identity", "state"} /\ seeder.at \in SpSteps /\ seeder.sp \in SPs
  BY DEF ReadIdentity, ReadState, At, files, bounds, spVars, IInv, Provisioned, SpSteps
<1>2. CASE ReadIdentity
  <2>1. disturbed' = disturbed /\ seeder.at = "identity"
    BY <1>2 DEF ReadIdentity, At, bounds, spVars
  <2>2. /\ seeder' \in Seeder /\ seeder'.sp = seeder.sp /\ seeder'.todo = seeder.todo
        /\ \/ identity[seeder.sp].is = "whole" /\ seeder'.at = "state"
           \/ identity[seeder.sp].is # "whole" /\ seeder'.at = "keys"
    BY <1>2, GotoFacts DEF ReadIdentity, IInv, SeederSteps
  <2>3. SeedTypes'
    BY <1>1, <2>1, <2>2 DEF IInv, SeedTypes
  <2>4. Provisioned'
    BY <1>1, <2>1, <2>2 DEF IInv, Provisioned, SpSteps
  <2>5. FewKeys'
    <3>1. \A q \in SPs : Complete(q)' <=> Complete(q)
      BY <1>1, <2>1, <2>2 DEF Complete, Unfinished
    <3>2. seeder'.at = "keys" => ~Complete(seeder.sp)
      BY <2>1, <2>2 DEF Complete, Unfinished
    <3>3. \A q \in SPs : seeder'.sp = q /\ seeder'.at = "keys" => identity[q].made <= disturbed[q]
      BY <1>1, <2>2, <3>2 DEF IInv, FewKeys
    <3>. QED BY <1>1, <2>1, <3>1, <3>3 DEF IInv, FewKeys
  <2>6. ApiInv' /\ AgentKnown' /\ FewAgents'
    <3>1. seeder'.at \in SpSteps \cup {"health"}
      BY <2>2 DEF SpSteps
    <3>. QED BY <1>1, <2>2, <3>1, SpKept
  <2>. QED BY <2>3, <2>4, <2>5, <2>6 DEF IInv
<1>3. CASE ReadState
  <2>1. seeder.at = "state" /\ identity[seeder.sp].is = "whole"
    BY <1>3 DEF ReadState, At, IInv, Provisioned
  <2>2. CASE state[seeder.sp] = "whole"
    <3>1. NextSp(seeder.todo) /\ disturbed' = disturbed
      BY <1>3, <2>2 DEF ReadState
    <3>2. /\ Provisioned' /\ seeder'.at \in {"identity", "health"} /\ seeder' \in Seeder
      BY <1>1, <2>1, <3>1, NextSpKeepsProvisioned
    <3>3. SeedTypes'
      BY <1>1, <3>1, <3>2 DEF IInv, SeedTypes
    <3>4. FewKeys'
      BY <1>1, <2>1, <3>1, <3>2, SameKeys
    <3>5. ApiInv' /\ AgentKnown' /\ FewAgents'
      <4>1. seeder'.at \in SpSteps \cup {"health"}
        BY <3>2 DEF SpSteps
      <4>. QED BY <1>1, <3>2, <4>1, SpKept
    <3>. QED BY <3>2, <3>3, <3>4, <3>5 DEF IInv
  <2>3. CASE state[seeder.sp] # "whole"
    <3>1. /\ seeder' \in Seeder /\ seeder'.at = "keys"
          /\ seeder'.sp = seeder.sp /\ seeder'.todo = seeder.todo
      BY <1>3, <2>3, GotoFacts DEF ReadState, IInv, SeederSteps
    <3>2. /\ disturbed' \in [SPs -> Nat]
          /\ \A q \in SPs : disturbed'[q] >= disturbed[q]
          /\ \/ disturbed'[seeder.sp] = disturbed[seeder.sp] + 1
             \/ ~Complete(seeder.sp)
      <4>1. CASE Unfinished(seeder.sp)
        <5>1. Disturb(seeder.sp)
          BY <1>3, <2>3, <4>1 DEF ReadState
        <5>. QED BY <1>1, <5>1, DisturbFacts DEF IInv
      <4>2. CASE ~Unfinished(seeder.sp)
        <5>1. disturbed' = disturbed
          BY <1>3, <2>3, <4>2 DEF ReadState
        <5>. QED BY <2>1, <2>3, <4>2, <5>1 DEF IInv, SeedTypes, Complete, Unfinished
      <4>. QED BY <4>1, <4>2
    <3>3. SeedTypes'
      BY <1>1, <3>1, <3>2 DEF IInv, SeedTypes
    <3>4. Provisioned'
      BY <1>1, <2>1, <3>1 DEF IInv, Provisioned, SpSteps
    <3>5. FewKeys'
      <4>1. \A q \in SPs : Complete(q)' <=> Complete(q)
        BY <1>1, <2>1, <3>1 DEF Complete, Unfinished
      <4>2. \A q \in SPs : disturbed'[q] = disturbed[q] + 1 \/ (Complete(q) => Complete(q)')
        BY <4>1
      <4>3. /\ identity[seeder.sp].made \in Nat /\ disturbed[seeder.sp] \in Nat
            /\ identity[seeder.sp].made <= disturbed[seeder.sp] + 1
            /\ ~Complete(seeder.sp) => identity[seeder.sp].made <= disturbed[seeder.sp]
        BY <1>1 DEF IInv, SeedTypes, FewKeys
      <4>4. identity[seeder.sp].made <= disturbed'[seeder.sp]
        BY <1>1, <3>2, <4>3
      <4>5. \A q \in SPs : seeder'.sp = q /\ seeder'.at = "keys" => identity[q].made <= disturbed'[q]
        BY <3>1, <4>4
      <4>. QED BY <1>1, <3>2, <3>3, <4>2, <4>5, SeederKeepsKeys
    <3>6. ApiInv' /\ AgentKnown' /\ FewAgents'
      <4>1. seeder'.at \in SpSteps \cup {"health"}
        BY <3>1 DEF SpSteps
      <4>. QED BY <1>1, <3>1, <4>1, SpKept
    <3>. QED BY <3>3, <3>4, <3>5, <3>6 DEF IInv
  <2>. QED BY <2>2, <2>3
<1>. QED BY <1>2, <1>3

LEMMA MakeKeysKeepsIInv ==
  ASSUME IInv, MakeKeys
  PROVE  IInv'
<1>1. /\ UNCHANGED apiVars /\ sp' = sp /\ writing' = writing /\ aborted' = aborted /\ disturbed' = disturbed
      /\ state' = state /\ agentFile' = agentFile
      /\ seeder.at = "keys" /\ seeder.at \in SpSteps /\ seeder.sp \in SPs
  BY DEF MakeKeys, At, bounds, spVars, IInv, Provisioned, SpSteps
<1>2. /\ seeder' \in Seeder /\ seeder'.at = "saveKeys"
      /\ seeder'.sp = seeder.sp /\ seeder'.todo = seeder.todo
  BY GotoFacts DEF MakeKeys, IInv, SeederSteps
<1>3. /\ identity' \in [SPs -> [is : File, made : Nat]]
      /\ identity'[seeder.sp].made = identity[seeder.sp].made + 1
      /\ \A q \in SPs : q # seeder.sp => identity'[q] = identity[q]
  <2>1. identity' = [identity EXCEPT ![seeder.sp] =
                        [is |-> "empty", made |-> identity[seeder.sp].made + 1]]
    BY DEF MakeKeys
  <2>2. identity[seeder.sp].made \in Nat /\ identity \in [SPs -> [is : File, made : Nat]]
    BY <1>1 DEF IInv, SeedTypes
  <2>. QED BY <1>1, <2>1, <2>2 DEF File
<1>4. SeedTypes'
  BY <1>1, <1>2, <1>3 DEF IInv, SeedTypes
<1>5. Provisioned'
  BY <1>1, <1>2, <1>3 DEF IInv, Provisioned, SpSteps
<1>6. FewKeys'
  <2>. SUFFICES ASSUME NEW q \in SPs
       PROVE  /\ identity'[q].made <= disturbed[q] + 1
              /\ ~Complete(q)' => identity'[q].made <= disturbed[q]
    BY <1>1, <1>2 DEF FewKeys
  <2>1. /\ identity[q].made \in Nat /\ disturbed[q] \in Nat
        /\ identity[q].made <= disturbed[q] + 1
        /\ ~Complete(q) \/ seeder.sp = q => identity[q].made <= disturbed[q]
    BY <1>1 DEF IInv, SeedTypes, FewKeys
  <2>2. CASE q = seeder.sp
    BY <1>2, <1>3, <2>1, <2>2 DEF Complete, Unfinished
  <2>3. CASE q # seeder.sp
    <3>1. Complete(q)' <=> Complete(q)
      BY <1>1, <1>2, <1>3, <2>3 DEF Complete, Unfinished
    <3>. QED BY <1>3, <2>1, <2>3, <3>1
  <2>. QED BY <2>2, <2>3
<1>7. ApiInv' /\ AgentKnown' /\ FewAgents'
  <2>1. seeder'.at \in SpSteps \cup {"health"}
    BY <1>2 DEF SpSteps
  <2>. QED BY <1>1, <1>2, <2>1, SpKept
<1>. QED BY <1>4, <1>5, <1>6, <1>7 DEF IInv

\* The three steps that complete an SP's files.
LEMMA SavesKeepIInv ==
  ASSUME IInv, SaveKeys \/ MakeList \/ SaveList
  PROVE  IInv'
<1>1. /\ UNCHANGED apiVars /\ sp' = sp /\ writing' = writing /\ aborted' = aborted
      /\ agentFile' = agentFile
      /\ seeder.at \in {"saveKeys", "list", "saveList"} /\ seeder.at \in SpSteps
      /\ seeder.sp \in SPs
  BY DEF SaveKeys, MakeList, SaveList, At, bounds, spVars, IInv, Provisioned, SpSteps
<1>2. /\ identity' \in [SPs -> [is : File, made : Nat]]
      /\ \A q \in SPs : identity'[q].made = identity[q].made
      /\ \A q \in SPs : q # seeder.sp => identity'[q] = identity[q]
      /\ identity'[seeder.sp].is = "whole"
  <2>1. CASE SaveKeys
    <3>1. identity' = [identity EXCEPT ![seeder.sp].is = "whole"]
      BY <2>1 DEF SaveKeys
    <3>. QED BY <1>1, <3>1 DEF IInv, SeedTypes, File
  <2>2. CASE MakeList \/ SaveList
    <3>1. identity' = identity /\ seeder.at \in {"list", "saveList"}
      BY <2>2 DEF MakeList, SaveList, At
    <3>. QED BY <3>1 DEF IInv, SeedTypes, Provisioned
  <2>. QED BY <2>1, <2>2
<1>3. /\ state' \in [SPs -> File] /\ disturbed' \in [SPs -> Nat]
      /\ \A q \in SPs : q # seeder.sp => state'[q] = state[q]
      /\ \A q \in SPs : disturbed'[q] >= disturbed[q]
      /\ SaveList => state'[seeder.sp] = "whole" \/ disturbed'[seeder.sp] = disturbed[seeder.sp] + 1
  <2>1. CASE SaveKeys
    BY <2>1 DEF IInv, SeedTypes, SaveKeys, SaveList, At, bounds
  <2>2. CASE MakeList
    <3>1. state' = [state EXCEPT ![seeder.sp] = "empty"] /\ disturbed' = disturbed /\ ~SaveList
      BY <2>2 DEF MakeList, SaveList, At, bounds
    <3>2. state' \in [SPs -> File] /\ \A q \in SPs : q # seeder.sp => state'[q] = state[q]
      BY <3>1 DEF IInv, SeedTypes, File
    <3>. QED BY <3>1, <3>2 DEF IInv, SeedTypes
  <2>3. CASE SaveList
    BY <1>1, <2>3, WriteFacts DEF IInv, SaveList
  <2>. QED BY <2>1, <2>2, <2>3
<1>4. /\ seeder' \in Seeder /\ Provisioned'
      /\ \/ seeder'.sp = seeder.sp /\ seeder'.at \in {"list", "saveList"}
         \/ seeder'.at \in {"identity", "health"} /\ SaveList
  <2>1. CASE SaveKeys \/ MakeList
    <3>1. /\ seeder' \in Seeder /\ seeder'.at \in {"list", "saveList"}
          /\ seeder'.sp = seeder.sp /\ seeder'.todo = seeder.todo
      BY <2>1, GotoFacts DEF SaveKeys, MakeList, IInv, SeederSteps
    <3>2. Provisioned'
      BY <1>1, <1>2, <3>1 DEF IInv, Provisioned, SpSteps
    <3>. QED BY <3>1, <3>2
  <2>2. CASE SaveList
    <3>1. NextSp(seeder.todo) /\ identity' = identity /\ seeder.at = "saveList"
      BY <2>2 DEF SaveList, At
    <3>. QED BY <2>2, <3>1, NextSpKeepsProvisioned
  <2>. QED BY <2>1, <2>2
<1>5. SeedTypes'
  BY <1>1, <1>2, <1>3, <1>4 DEF IInv, SeedTypes
<1>6. FewKeys'
  <2>. SUFFICES ASSUME NEW q \in SPs
       PROVE  /\ identity'[q].made <= disturbed'[q] + 1
              /\ ~Complete(q)' => identity'[q].made <= disturbed'[q]
    BY <1>1, <1>4 DEF FewKeys
  <2>1. /\ identity'[q].made <= disturbed[q] + 1
        /\ ~Complete(q) => identity'[q].made <= disturbed[q]
        /\ identity'[q].made \in Nat /\ disturbed[q] \in Nat /\ disturbed'[q] \in Nat
        /\ disturbed'[q] >= disturbed[q]
    BY <1>2, <1>3 DEF IInv, FewKeys, SeedTypes
  <2>2. disturbed'[q] = disturbed[q] + 1 \/ (Complete(q) => Complete(q)')
    <3>1. CASE q = seeder.sp
      BY <1>2, <1>3, <1>4, <3>1 DEF Complete
    <3>2. CASE q # seeder.sp
      BY <1>1, <1>2, <1>3, <3>2 DEF Complete, Unfinished
    <3>. QED BY <3>1, <3>2
  <2>. QED BY <2>1, <2>2
<1>7. ApiInv' /\ AgentKnown' /\ FewAgents'
  <2>1. seeder'.at \in SpSteps \cup {"health"}
    BY <1>4 DEF SpSteps
  <2>. QED BY <1>1, <1>4, <2>1, SpKept
<1>. QED BY <1>4, <1>5, <1>6, <1>7 DEF IInv

\* The steps at the agent leave the SPs' files alone.
LEMMA AgentStepsKeepIInv ==
  ASSUME IInv, Healthy \/ ReadAgent \/ Onboard \/ TruncateAgent \/ SaveAgent
  PROVE  IInv'
<1>. DEFINE AgentSteps == {"health", "agent", "onboard", "saving", "save"}
<1>1. /\ identity' = identity /\ state' = state /\ sp' = sp /\ writing' = writing /\ aborted' = aborted
      /\ disturbed' = disturbed /\ seeder.at \in AgentSteps
  BY DEF Healthy, ReadAgent, Onboard, TruncateAgent, SaveAgent, At, files, bounds, spVars
<1>2. /\ ApiInv' /\ Len(agents) \in Nat
      /\ \/ agents' = agents
         \/ Len(agents') = Len(agents) + 1 /\ Onboard
  <2>1. CASE Onboard
    <3>1. PICK p \in Procs : OnboardAt(p)
      BY <2>1 DEF Onboard
    <3>. QED BY <2>1, <3>1, OnboardFacts DEF IInv
  <2>2. CASE Healthy \/ ReadAgent \/ TruncateAgent \/ SaveAgent
    <3>1. UNCHANGED apiVars
      BY <2>2 DEF Healthy, ReadAgent, TruncateAgent, SaveAgent
    <3>. QED BY <3>1, ApiStays DEF IInv, ApiInv, ApiTypes
  <2>. QED BY <2>1, <2>2
<1>3. /\ seeder' \in Seeder /\ seeder'.at \in AgentSteps \cup {"done"}
      /\ agentFile' \in [is : File, agent : Nat]
      /\ AgentKnown' /\ FewAgents'
  <2>. USE DEF SeederSteps
  <2>1. CASE Healthy
    <3>1. seeder' \in Seeder /\ seeder'.at = "agent" /\ agentFile' = agentFile
      BY <2>1, GotoFacts DEF Healthy, files, IInv
    <3>. QED
      BY <1>1, <1>2, <2>1, <3>1
      DEF Healthy, Onboard, At, IInv, SeedTypes, AgentKnown, FewAgents
  <2>2. CASE ReadAgent
    <3>1. /\ seeder' \in Seeder /\ agentFile' = agentFile
          /\ \/ agentFile.is = "whole" /\ seeder'.at = "done"
             \/ agentFile.is # "whole" /\ seeder'.at = "onboard"
      BY <2>2, GotoFacts DEF ReadAgent, files, IInv
    <3>. QED
      BY <1>1, <1>2, <2>2, <3>1
      DEF ReadAgent, Onboard, At, IInv, SeedTypes, AgentKnown, FewAgents
  <2>3. CASE Onboard
    <3>1. /\ seeder' = [seeder EXCEPT !.at = "saving", !.agent = Len(agents')]
          /\ agentFile' = agentFile /\ seeder.at = "onboard"
          /\ Len(agents') = Len(agents) + 1
      <4>1. PICK p \in Procs : OnboardAt(p)
        BY <2>3 DEF Onboard
      <4>. QED BY <2>3, <4>1, OnboardFacts DEF Onboard, At, files, IInv
    <3>2. Len(agents') \in Nat /\ seeder \in Seeder
      BY <1>2, <3>1 DEF IInv, SeedTypes
    <3>3. seeder' \in Seeder /\ seeder'.at = "saving" /\ seeder'.agent = Len(agents')
      BY <3>1, <3>2 DEF Seeder
    <3>4. agentFile.is # "whole" /\ Len(agents) <= aborted /\ aborted \in Nat
      BY <3>1 DEF IInv, SeedTypes, AgentKnown, FewAgents
    <3>5. AgentKnown'
      BY <1>2, <3>1, <3>3, <3>4 DEF AgentKnown
    <3>6. FewAgents'
      BY <1>1, <1>2, <3>1, <3>3, <3>4 DEF FewAgents
    <3>. QED BY <3>1, <3>3, <3>5, <3>6 DEF IInv, SeedTypes
  <2>4. CASE TruncateAgent
    <3>1. /\ seeder' \in Seeder /\ seeder'.at = "save" /\ seeder'.agent = seeder.agent
          /\ seeder.at = "saving" /\ agentFile' = [agentFile EXCEPT !.is = "empty"]
      BY <2>4, GotoFacts DEF TruncateAgent, At, IInv
    <3>2. agentFile' \in [is : File, agent : Nat] /\ agentFile'.is = "empty"
      BY <3>1 DEF IInv, SeedTypes, File
    <3>. QED
      BY <1>1, <1>2, <2>4, <3>1, <3>2 DEF Onboard, At, IInv, AgentKnown, FewAgents
  <2>5. CASE SaveAgent
    <3>1. /\ seeder' \in Seeder /\ seeder'.at = "done"
          /\ seeder.at = "save" /\ agentFile' = [is |-> "whole", agent |-> seeder.agent]
      BY <2>5, GotoFacts DEF SaveAgent, At, IInv
    <3>2. agentFile' \in [is : File, agent : Nat]
      BY <3>1 DEF IInv, SeedTypes, Seeder, File
    <3>. QED
      BY <1>1, <1>2, <2>5, <3>1, <3>2 DEF Onboard, At, IInv, AgentKnown, FewAgents
  <2>. QED BY <2>1, <2>2, <2>3, <2>4, <2>5
<1>4. SeedTypes'
  BY <1>1, <1>3 DEF IInv, SeedTypes
<1>5. Provisioned'
  BY <1>1, <1>3 DEF IInv, Provisioned, SpSteps
<1>6. FewKeys'
  <2>1. seeder.at \notin {"saveKeys", "list", "saveList"} /\ seeder'.at # "keys"
    BY <1>1, <1>3
  <2>. QED BY <1>1, <2>1, SameKeys
<1>. QED BY <1>2, <1>3, <1>4, <1>5, <1>6 DEF IInv

LEMMA NextKeepsIInv == IInv /\ [Next]_vars => IInv'
<1>. SUFFICES ASSUME IInv, [Next]_vars
     PROVE  IInv'
  OBVIOUS
<1>1. CASE UNCHANGED vars
  <2>1. ApiInv' /\ agents' = agents
    BY <1>1, ApiStays DEF vars, IInv
  <2>. QED
    BY <1>1, <2>1 DEF vars, files, bounds, spVars, IInv, SeedTypes, Provisioned, AgentKnown, FewAgents,
       FewKeys, Complete, Unfinished
<1>2. CASE StartSeeder
  BY <1>2, StartSeederKeepsIInv
<1>3. CASE SeederStep
  <2>1. CASE GivesUp \/ OnboardFails
    BY <2>1, AbortKeepsIInv DEF GivesUp, OnboardFails
  <2>2. CASE ReadIdentity \/ ReadState
    BY <2>2, ReadsKeepIInv
  <2>3. CASE MakeKeys
    BY <2>3, MakeKeysKeepsIInv
  <2>4. CASE SaveKeys \/ MakeList \/ SaveList
    BY <2>4, SavesKeepIInv
  <2>5. CASE Healthy \/ ReadAgent \/ Onboard \/ TruncateAgent \/ SaveAgent
    BY <2>5, AgentStepsKeepIInv
  <2>. QED BY <1>3, <2>1, <2>2, <2>3, <2>4, <2>5 DEF SeederStep
<1>4. CASE Abort
  BY <1>4, AbortKeepsIInv
<1>5. ASSUME NEW s \in SPs, SpStep(s)
      PROVE  IInv'
  BY <1>5, SpStepKeepsIInv
<1>6. CASE Database /\ UNCHANGED <<files, seeder, spVars, bounds>>
  BY <1>6, DatabaseKeepsIInv
<1>. QED BY <1>1, <1>2, <1>3, <1>4, <1>5, <1>6 DEF Next

LEMMA Invariance == Spec => []IInv
BY InitIInv, NextKeepsIInv, PTL DEF Spec

(***************************************************************************)
(* The theorems.                                                           *)
(***************************************************************************)
\* ensureIssuerDidCached: however many API processes look for the issuer's DID
\* and create it at the same time, with whatever signing keys, every process
\* that listens signs with the key that is registered.
THEOREM RegisteredKeyServes == Spec => []ServesWithRegisteredKey
BY Invariance, PTL DEF IInv, ApiInv

\* provisionSpIdentity and the seeder's main: whatever is interrupted when,
\* what a run makes again is no more than what was disturbed.
THEOREM ReseedingIsIdempotent == Spec => []ReseedingReuses
<1>1. ASSUME IInv
      PROVE  ReseedingReuses
  <2>1. \A s \in SPs : /\ identity[s].made \in Nat /\ disturbed[s] \in Nat
                       /\ identity[s].made <= disturbed[s] + 1
    BY <1>1 DEF IInv, SeedTypes, FewKeys
  <2>2. Len(agents) <= aborted + 1 /\ aborted \in Nat /\ Len(agents) \in Nat
    BY <1>1 DEF IInv, ApiInv, ApiTypes, SeedTypes, FewAgents
  <2>. QED BY <2>1, <2>2 DEF ReseedingReuses
<1>. QED
  BY <1>1, Invariance, PTL

\* The seeder's main: once it has ended, every SP has an identity to boot with,
\* and under a configured key any API process that serves can sign for the agent.
THEOREM SeedingSuffices == Spec => []SeededIsUsable
<1>1. ASSUME IInv, At("done")
      PROVE  /\ \A s \in SPs : identity[s].is = "whole"
             /\ agentFile.is = "whole"
             /\ HostedKey # None =>
                  \A p \in Procs : Serving(p) => CanSign(p, agentFile.agent)
  <2>1. agentFile.is = "whole" /\ agentFile.agent \in 1 .. Len(agents)
    BY <1>1 DEF IInv, AgentKnown, At
  <2>2. \A s \in SPs : identity[s].is = "whole"
    BY <1>1 DEF IInv, Provisioned, At, SpSteps
  <2>3. ASSUME HostedKey # None, NEW p \in Procs, Serving(p)
        PROVE  CanSign(p, agentFile.agent)
    <3>1. api[p] \in Process
      BY <1>1, <2>3, ProcessFacts DEF IInv, ApiInv, ApiTypes, Serving
    <3>2. api[p].custody = HostedKey /\ agents[agentFile.agent] = HostedKey
      BY <1>1, <2>1, <2>3, <3>1 DEF IInv, ApiInv, Hosted
    <3>. QED BY <2>3, <3>2 DEF CanSign
  <2>. QED BY <2>1, <2>2, <2>3
<1>. QED
  BY <1>1, Invariance, PTL DEF SeededIsUsable
=============================================================================
