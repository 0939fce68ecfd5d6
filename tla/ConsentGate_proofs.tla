-------------------------- MODULE ConsentGate_proofs --------------------------
(***************************************************************************)
(* Proofs about ConsentGate, for every set of SPs, users, scopes, tools    *)
(* and calls and any number of grants: its type invariant, and that no     *)
(* protected tool runs without consent.                                    *)
(***************************************************************************)
EXTENDS ConsentGate, SequenceTheorems, TLAPS

(***************************************************************************)
(* What Append does to the platform's list of grants.                      *)
(***************************************************************************)
LEMMA IssueFacts ==
  ASSUME grants \in Seq(Grant), NEW sp \in SPs, NEW u \in Users,
         NEW S \in SUBSET Scopes, Issue(sp, u, S)
  PROVE  /\ grants' \in Seq(Grant)
         /\ Len(grants') = Len(grants) + 1
         /\ Len(grants) \in Nat
         /\ Len(grants') <= MaxGrants
         /\ \A g \in GrantIds : grants'[g] = grants[g]
         /\ grants'[Len(grants) + 1] = [sp |-> sp, user |-> u, scopes |-> S]
<1>. DEFINE new == [sp |-> sp, user |-> u, scopes |-> S]
<1>1. new \in Grant /\ grants' = Append(grants, new)
  BY DEF Issue, Grant
<1>. HIDE DEF new
<1>2. /\ grants' \in Seq(Grant)
      /\ Len(grants') = Len(grants) + 1
      /\ \A g \in 1 .. Len(grants) : grants'[g] = grants[g]
      /\ grants'[Len(grants) + 1] = new
  BY <1>1, AppendProperties
<1>3. Len(grants) \in Nat
  BY LenProperties
<1>4. Len(grants) + 1 <= MaxGrants
  <2>1. Len(grants) < MaxGrants
    BY DEF Issue
  <2>. QED BY <2>1, <1>3, GateAssumption
<1>. QED BY <1>2, <1>3, <1>4 DEF GrantIds, new

(***************************************************************************)
(* Types.  The updates every action is made of, then one step per action.  *)
(***************************************************************************)
Results == {"none", "ok", "error", "consent_required"}
Sight   == [grants : Nat, revoked : SUBSET Nat]

LEMMA GotoType ==
  ASSUME pc \in [Calls -> Steps], NEW c \in Calls, NEW step \in Steps, Goto(c, step)
  PROVE  /\ pc' \in [Calls -> Steps]
         /\ pc'[c] = step
         /\ \A d \in Calls \ {c} : pc'[d] = pc[d]
BY DEF Goto

LEMMA EndType ==
  ASSUME pc \in [Calls -> Steps], outcome \in [Calls -> Results],
         NEW c \in Calls, NEW result \in Results, End(c, result)
  PROVE  /\ pc' \in [Calls -> Steps]
         /\ outcome' \in [Calls -> Results]
         /\ pc'[c] = "done"
         /\ outcome'[c] = result
         /\ \A d \in Calls \ {c} : pc'[d] = pc[d] /\ outcome'[d] = outcome[d]
<1>1. Goto(c, "done") /\ "done" \in Steps
  BY DEF End, Steps
<1>2. outcome' = [outcome EXCEPT ![c] = result]
  BY DEF End
<1>. QED BY <1>1, <1>2, GotoType

LEMMA SeeType ==
  ASSUME seen \in [Calls -> Sight], revoked \in SUBSET Nat,
         NEW c \in Calls, NEW n \in Nat, See(c, n)
  PROVE  seen' \in [Calls -> Sight]
<1>1. [grants |-> n, revoked |-> revoked] \in Sight
  BY DEF Sight
<1>. QED BY <1>1 DEF See

LEMMA TypeFacts ==
  ASSUME TypeOK
  PROVE  /\ grants \in Seq(Grant) /\ Len(grants) \in Nat
         /\ revoked \in SUBSET Nat
         /\ pc \in [Calls -> Steps]
         /\ held \in [Calls -> 0 .. Len(grants)]
         /\ outcome \in [Calls -> Results]
         /\ seen \in [Calls -> Sight]
         /\ \A g \in GrantIds : /\ grants[g] \in Grant
                                /\ grants[g].scopes \in SUBSET Scopes
         /\ GrantIds = 1 .. Len(grants)
<1>1. grants \in Seq(Grant)
  BY DEF TypeOK
<1>2. Len(grants) \in Nat /\ \A g \in 1 .. Len(grants) : grants[g] \in Grant
  BY <1>1, LenProperties, ElementOfSeq
<1>3. \A x \in Grant : x.scopes \in SUBSET Scopes
  BY DEF Grant
<1>. QED BY <1>1, <1>2, <1>3 DEF TypeOK, GrantIds, Results, Sight

LEMMA InitTypeOK == Init => TypeOK
<1>. SUFFICES ASSUME Init PROVE TypeOK
  OBVIOUS
<1>1. grants = <<>> /\ grants \in Seq(Grant) /\ Len(grants) = 0
  BY DEF Init
<1>2. Len(grants) <= MaxGrants /\ revoked \subseteq GrantIds
  BY <1>1, GateAssumption DEF Init
<1>3. pc \in [Calls -> Steps] /\ tool \in [Calls -> Tools]
  BY DEF Init, Steps
<1>4. held \in [Calls -> 0 .. Len(grants)] /\ direct \in [Calls -> BOOLEAN]
  BY <1>1 DEF Init
<1>5. eff \in [Calls -> SUBSET Scopes] /\ attempt \in [Calls -> {1, 2}]
  BY DEF Init
<1>6. outcome \in [Calls -> Results] /\ runs \in [Calls -> Nat]
  BY DEF Init, Results
<1>7. seen \in [Calls -> Sight]
  BY DEF Init, Sight
<1>. QED
  BY <1>1, <1>2, <1>3, <1>4, <1>5, <1>6, <1>7 DEF TypeOK, Results, Sight

LEMMA NextTypeOK == TypeOK /\ [Next]_vars => TypeOK'
<1>. SUFFICES ASSUME TypeOK, [Next]_vars PROVE TypeOK'
  OBVIOUS
<1>. USE TypeFacts
<1>1. ASSUME NEW sp \in SPs, NEW u \in Users, NEW S \in SUBSET Scopes, Accept(sp, u, S)
      PROVE TypeOK'
  <2>1. Issue(sp, u, S) /\ UNCHANGED <<revoked, callVars>>
    BY <1>1 DEF Accept
  <2>2. grants' \in Seq(Grant) /\ Len(grants') <= MaxGrants /\ Len(grants') = Len(grants) + 1
    BY <2>1, IssueFacts
  <2>3. revoked' \subseteq GrantIds'
    BY <2>1, <2>2 DEF TypeOK, GrantIds
  <2>4. held' \in [Calls -> 0 .. Len(grants')]
    BY <2>1, <2>2 DEF callVars
  <2>. QED BY <2>1, <2>2, <2>3, <2>4 DEF TypeOK, callVars
<1>2. ASSUME NEW g \in GrantIds, RevokeGrant(g) PROVE TypeOK'
  BY <1>2 DEF TypeOK, RevokeGrant, GrantIds, callVars
<1>3. ASSUME NEW c \in Calls, BeginCall(c) \/ BeginDirect(c) \/ Lookup(c) \/ CallFails(c)
      PROVE TypeOK'
  <2>1. CASE BeginCall(c)
    <3>1. pc' \in [Calls -> Steps]
      BY <2>1, GotoType DEF BeginCall, Steps
    <3>. QED BY <2>1, <3>1 DEF BeginCall, TypeOK, GrantIds
  <2>2. CASE BeginDirect(c)
    <3>1. pc' \in [Calls -> Steps] /\ seen' \in [Calls -> Sight]
      BY <2>2, GotoType, SeeType DEF BeginDirect, Steps
    <3>2. held' \in [Calls -> 0 .. Len(grants)]
      BY <2>2 DEF BeginDirect
    <3>3. direct' \in [Calls -> BOOLEAN]
      BY <2>2 DEF BeginDirect, TypeOK
    <3>. QED BY <2>2, <3>1, <3>2, <3>3 DEF BeginDirect, TypeOK, GrantIds, Sight
  <2>3. CASE Lookup(c)
    <3>1. pc' \in [Calls -> Steps] /\ seen' \in [Calls -> Sight]
      BY <2>3, GotoType, SeeType DEF Lookup, Steps
    <3>2. held' \in [Calls -> 0 .. Len(grants)]
      BY <2>3 DEF Lookup, Matching
    <3>. QED BY <2>3, <3>1, <3>2 DEF Lookup, TypeOK, GrantIds, Sight
  <2>4. CASE CallFails(c)
    <3>1. pc' \in [Calls -> Steps] /\ outcome' \in [Calls -> Results]
      BY <2>4, EndType DEF CallFails, Results
    <3>. QED BY <2>4, <3>1 DEF CallFails, TypeOK, GrantIds, Results
  <2>. QED BY <1>3, <2>1, <2>2, <2>3, <2>4
<1>4. ASSUME NEW c \in Calls, Gate(c) PROVE TypeOK'
  <2>1. ASSUME Run(c)
        PROVE  /\ pc' \in [Calls -> Steps] /\ outcome' \in [Calls -> Results]
               /\ runs' \in [Calls -> Nat]
    <3>1. PICK result \in {"ok", "error"} : End(c, result)
      BY <2>1 DEF Run
    <3>2. result \in Results
      BY <3>1 DEF Results
    <3>3. runs' = [runs EXCEPT ![c] = runs[c] + 1] /\ runs \in [Calls -> Nat]
      BY <2>1 DEF Run, TypeOK
    <3>4. runs' \in [Calls -> Nat]
      BY <3>3
    <3>. QED BY <3>1, <3>2, <3>4, EndType
  <2>2. ASSUME ConsentRequired(c)
        PROVE  pc' \in [Calls -> Steps] /\ outcome' \in [Calls -> Results]
    <3>1. CASE End(c, "consent_required")
      BY <3>1, EndType DEF Results
    <3>2. CASE End(c, "error")
      BY <3>2, EndType DEF Results
    <3>3. CASE Goto(c, "prompt") /\ UNCHANGED outcome
      BY <3>3, GotoType DEF Steps
    <3>. QED BY <2>2, <3>1, <3>2, <3>3 DEF ConsentRequired
  <2>3. CASE RunOpenTool(c)
    BY <2>3, <2>1 DEF RunOpenTool, TypeOK, GrantIds, Results
  <2>4. CASE NoPresentation(c)
    BY <2>4, <2>2 DEF NoPresentation, TypeOK, GrantIds, Results
  <2>5. CASE VerifyVP(c)
    <3>1. pc' \in [Calls -> Steps]
      BY <2>5, GotoType DEF VerifyVP, Steps
    <3>2. EffectiveScopes(c) \in SUBSET Scopes
      BY GateAssumption DEF EffectiveScopes
    <3>3. eff' \in [Calls -> SUBSET Scopes]
      BY <2>5, <3>2 DEF VerifyVP, TypeOK
    <3>. QED BY <2>5, <3>1, <3>3 DEF VerifyVP, TypeOK, GrantIds
  <2>6. CASE RejectVP(c)
    <3>1. pc' \in [Calls -> Steps] /\ outcome' \in [Calls -> Results]
      BY <2>6, EndType DEF RejectVP, Results
    <3>. QED BY <2>6, <3>1 DEF RejectVP, TypeOK, GrantIds, Results
  <2>7. CASE DenyPolicy(c)
    BY <2>7, <2>2 DEF DenyPolicy, TypeOK, GrantIds, Results
  <2>8. CASE RunTool(c)
    BY <2>8, <2>1 DEF RunTool, TypeOK, GrantIds, Results
  <2>. QED BY <1>4, <2>3, <2>4, <2>5, <2>6, <2>7, <2>8 DEF Gate
<1>5. ASSUME NEW c \in Calls, Prompted(c) PROVE TypeOK'
  <2>1. CASE ConsentRefused(c)
    <3>1. pc' \in [Calls -> Steps] /\ outcome' \in [Calls -> Results]
      BY <2>1, EndType DEF ConsentRefused, Results
    <3>. QED BY <2>1, <3>1 DEF ConsentRefused, TypeOK, GrantIds, Results
  <2>2. ASSUME NEW S \in SUBSET Scopes, ConsentObtained(c, S) PROVE TypeOK'
    <3>1. Service[tool[c]] \in SPs /\ User \in Users
      BY GateAssumption DEF TypeOK
    <3>2. grants' \in Seq(Grant) /\ Len(grants') <= MaxGrants /\ Len(grants') = Len(grants) + 1
      BY <2>2, <3>1, IssueFacts DEF ConsentObtained
    <3>3. revoked' \subseteq GrantIds'
      BY <2>2, <3>2 DEF ConsentObtained, TypeOK, GrantIds
    <3>4. held' \in [Calls -> 0 .. Len(grants')]
      BY <2>2, <3>2 DEF ConsentObtained
    <3>5. pc' \in [Calls -> Steps] /\ seen' \in [Calls -> Sight]
      BY <2>2, GotoType, SeeType DEF ConsentObtained, Steps
    <3>6. eff' \in [Calls -> SUBSET Scopes] /\ attempt' \in [Calls -> {1, 2}]
      BY <2>2 DEF ConsentObtained, TypeOK
    <3>. QED BY <2>2, <3>2, <3>3, <3>4, <3>5, <3>6 DEF ConsentObtained, TypeOK, Sight
  <2>. QED BY <1>5, <2>1, <2>2 DEF Prompted
<1>6. CASE UNCHANGED vars
  BY <1>6 DEF vars, TypeOK, GrantIds
<1>. QED
  BY <1>1, <1>2, <1>3, <1>4, <1>5, <1>6 DEF Next

(***************************************************************************)
(* Every variable of the gate keeps its type, in every behaviour.          *)
(***************************************************************************)
THEOREM GateTypeCorrect == Spec => []TypeOK
BY InitTypeOK, NextTypeOK, PTL DEF Spec

(***************************************************************************)
(* The inductive invariant, one conjunct per step of the argument: eff is  *)
(* empty until the presentation has been verified; what was verified lies  *)
(* within the agent's authority and the presented grant, which is for the  *)
(* agent's user; a protected tool has run only after it was let through.   *)
(***************************************************************************)
Unverified(c) == pc[c] \in {"idle", "lookup", "posted"} => eff[c] = {}

EffWithinGrant(c) ==
    /\ eff[c] \subseteq Ceiling
    /\ (eff[c] # {} /\ held[c] # 0) =>
          grants[held[c]].user = User /\ eff[c] \subseteq grants[held[c]].scopes

RunsLast(c) ==
    /\ runs[c] <= 1
    /\ pc[c] # "done" => runs[c] = 0 /\ outcome[c] = "none"
    /\ outcome[c] = "consent_required" => runs[c] = 0

DeniedBefore(c) == pc[c] = "prompt" => ~LetThrough(c)

CallInv(c) ==
    /\ Unverified(c)
    /\ EffWithinGrant(c)
    /\ RunsLast(c)
    /\ DeniedBefore(c)
    /\ Ran(c) => LetThrough(c)

IInv == TypeOK /\ \A c \in Calls : CallInv(c)

LEMMA InitIInv == Init => IInv
<1>. SUFFICES ASSUME Init PROVE IInv
  OBVIOUS
<1>1. TypeOK
  BY InitTypeOK
<1>2. ASSUME NEW c \in Calls PROVE CallInv(c)
  <2>1. /\ pc[c] = "idle" /\ eff[c] = {} /\ runs[c] = 0
        /\ outcome[c] = "none" /\ held[c] = 0
    BY DEF Init
  <2>. QED BY <2>1 DEF CallInv, Unverified, EffWithinGrant, RunsLast, DeniedBefore, Ran
<1>. QED BY <1>1, <1>2 DEF IInv

(***************************************************************************)
(* Grants are never changed, so a call that does not move keeps CallInv.   *)
(***************************************************************************)
Same(d) ==
    /\ pc'[d] = pc[d] /\ tool'[d] = tool[d] /\ held'[d] = held[d]
    /\ eff'[d] = eff[d] /\ outcome'[d] = outcome[d] /\ runs'[d] = runs[d]

GrantsKept == \A g \in GrantIds : grants'[g] = grants[g]

LEMMA LetThroughKept ==
  ASSUME TypeOK, GrantsKept, NEW d \in Calls,
         tool'[d] = tool[d], held'[d] = held[d], eff'[d] = eff[d]
  PROVE  /\ LetThrough(d)' = LetThrough(d)
         /\ EffWithinGrant(d)' = EffWithinGrant(d)
         /\ Protected(d)' = Protected(d)
<1>1. held[d] # 0 => grants'[held[d]] = grants[held[d]]
  BY TypeFacts DEF GrantsKept
<1>. QED
  BY <1>1 DEF LetThrough, GrantFromThisSp, Protected, EffWithinGrant

LEMMA SameCall ==
  ASSUME TypeOK, GrantsKept, NEW d \in Calls, CallInv(d), Same(d)
  PROVE  CallInv(d)'
<1>1. LetThrough(d)' = LetThrough(d) /\ EffWithinGrant(d)' = EffWithinGrant(d)
      /\ Protected(d)' = Protected(d)
  BY LetThroughKept DEF Same
<1>2. Unverified(d)' /\ RunsLast(d)'
  BY DEF Same, CallInv, Unverified, RunsLast
<1>3. DeniedBefore(d)' /\ (Ran(d)' => LetThrough(d)')
  BY <1>1 DEF Same, CallInv, DeniedBefore, Ran
<1>. QED BY <1>1, <1>2, <1>3 DEF CallInv

(***************************************************************************)
(* What a step of call c does to its own invariant.                        *)
(***************************************************************************)
LEMMA EndKeepsInv ==
  ASSUME TypeOK, NEW c \in Calls, CallInv(c), NEW result \in Results, End(c, result),
         UNCHANGED <<grants, revoked, runs, tool, held, eff>>,
         result = "consent_required" => runs[c] = 0
  PROVE  CallInv(c)' /\ GrantsKept /\ \A d \in Calls \ {c} : Same(d)
<1>1. /\ pc'[c] = "done" /\ outcome'[c] = result
      /\ \A d \in Calls \ {c} : pc'[d] = pc[d] /\ outcome'[d] = outcome[d]
  BY TypeFacts, EndType
<1>2. GrantsKept /\ \A d \in Calls \ {c} : Same(d)
  BY <1>1 DEF GrantsKept, Same
<1>3. LetThrough(c)' = LetThrough(c) /\ EffWithinGrant(c)' = EffWithinGrant(c)
      /\ Protected(c)' = Protected(c)
  BY <1>2, LetThroughKept
<1>. QED
  BY <1>1, <1>2, <1>3
     DEF CallInv, Unverified, RunsLast, DeniedBefore, Ran

LEMMA DenialKeepsInv ==
  ASSUME TypeOK, NEW c \in Calls, CallInv(c), ConsentRequired(c),
         pc[c] # "done", ~LetThrough(c),
         UNCHANGED <<grants, revoked, runs, tool, held, eff>>
  PROVE  CallInv(c)' /\ GrantsKept /\ \A d \in Calls \ {c} : Same(d)
<1>1. runs[c] = 0
  BY DEF CallInv, RunsLast
<1>2. CASE End(c, "consent_required")
  BY <1>1, <1>2, EndKeepsInv DEF Results
<1>3. CASE End(c, "error")
  BY <1>1, <1>3, EndKeepsInv DEF Results
<1>4. CASE Goto(c, "prompt") /\ UNCHANGED outcome
  <2>1. pc'[c] = "prompt" /\ \A d \in Calls \ {c} : pc'[d] = pc[d]
    BY <1>4, TypeFacts, GotoType DEF Steps
  <2>2. GrantsKept /\ \A d \in Calls \ {c} : Same(d)
    BY <1>4, <2>1 DEF GrantsKept, Same
  <2>3. LetThrough(c)' = LetThrough(c) /\ EffWithinGrant(c)' = EffWithinGrant(c)
        /\ Protected(c)' = Protected(c)
    BY <2>2, LetThroughKept
  <2>. QED
    BY <1>4, <2>1, <2>2, <2>3
       DEF CallInv, Unverified, RunsLast, DeniedBefore, Ran
<1>. QED BY <1>2, <1>3, <1>4 DEF ConsentRequired

LEMMA RunKeepsInv ==
  ASSUME TypeOK, NEW c \in Calls, CallInv(c), Run(c), pc[c] # "done",
         Protected(c) => LetThrough(c),
         UNCHANGED <<grants, revoked, tool, held, eff>>
  PROVE  CallInv(c)' /\ GrantsKept /\ \A d \in Calls \ {c} : Same(d)
<1>1. PICK result \in {"ok", "error"} : End(c, result)
  BY DEF Run
<1>2. /\ pc'[c] = "done" /\ outcome'[c] = result
      /\ \A d \in Calls \ {c} : pc'[d] = pc[d] /\ outcome'[d] = outcome[d]
  BY <1>1, TypeFacts, EndType DEF Results
<1>3. runs[c] = 0
  BY DEF CallInv, RunsLast
<1>4. runs'[c] = 1 /\ \A d \in Calls \ {c} : runs'[d] = runs[d]
  BY <1>3 DEF Run, TypeOK
<1>5. GrantsKept /\ \A d \in Calls \ {c} : Same(d)
  BY <1>2, <1>4 DEF GrantsKept, Same
<1>6. LetThrough(c)' = LetThrough(c) /\ EffWithinGrant(c)' = EffWithinGrant(c)
      /\ Protected(c)' = Protected(c)
  BY <1>5, LetThroughKept
<1>7. RunsLast(c)'
  BY <1>1, <1>2, <1>4 DEF RunsLast
<1>. QED
  BY <1>2, <1>4, <1>5, <1>6, <1>7
     DEF CallInv, Unverified, DeniedBefore, Ran

(***************************************************************************)
(* A call that has not been verified, is not over and has just moved.      *)
(***************************************************************************)
LEMMA MoveKeepsInv ==
  ASSUME NEW c \in Calls, CallInv(c),
         pc[c] \in {"idle", "lookup", "prompt"}, pc'[c] \in {"lookup", "posted"},
         eff'[c] = {}, runs'[c] = runs[c], outcome'[c] = outcome[c]
  PROVE  CallInv(c)'
BY DEF CallInv, Unverified, EffWithinGrant, RunsLast, DeniedBefore, Ran

LEMMA VerifyKeepsInv ==
  ASSUME TypeOK, NEW c \in Calls, CallInv(c), VerifyVP(c)
  PROVE  CallInv(c)' /\ GrantsKept /\ \A d \in Calls \ {c} : Same(d)
<1>1. pc'[c] = "verified" /\ \A d \in Calls \ {c} : pc'[d] = pc[d]
  BY TypeFacts, GotoType DEF VerifyVP, Steps
<1>2. eff'[c] = EffectiveScopes(c) /\ \A d \in Calls \ {c} : eff'[d] = eff[d]
  BY DEF VerifyVP, TypeOK
<1>3. GrantsKept /\ \A d \in Calls \ {c} : Same(d)
  BY <1>1, <1>2 DEF VerifyVP, GrantsKept, Same
<1>4. EffWithinGrant(c)'
  <2>1. held[c] # 0 => grants[held[c]].user = User
    BY DEF VerifyVP, Verifiable
  <2>2. EffectiveScopes(c) \subseteq Ceiling
    BY DEF EffectiveScopes
  <2>3. held[c] # 0 => EffectiveScopes(c) \subseteq grants[held[c]].scopes
    BY DEF EffectiveScopes
  <2>. QED BY <1>2, <2>1, <2>2, <2>3 DEF EffWithinGrant, VerifyVP
<1>5. RunsLast(c)' /\ runs'[c] = 0
  BY <1>1 DEF VerifyVP, CallInv, RunsLast
<1>. QED
  BY <1>1, <1>3, <1>4, <1>5 DEF CallInv, Unverified, DeniedBefore, Ran

LEMMA NextIInv == IInv /\ [Next]_vars => IInv'
<1>. SUFFICES ASSUME IInv, [Next]_vars PROVE IInv'
  OBVIOUS
<1>1. TypeOK /\ TypeOK' /\ \A d \in Calls : CallInv(d)
  BY NextTypeOK DEF IInv
<1>. USE <1>1
<1>2. ASSUME GrantsKept, \A d \in Calls : Same(d) PROVE IInv'
  BY <1>2, SameCall DEF IInv
<1>3. ASSUME NEW c \in Calls, CallInv(c)' /\ GrantsKept /\ \A d \in Calls \ {c} : Same(d)
      PROVE IInv'
  BY <1>3, SameCall DEF IInv
<1>4. ASSUME NEW sp \in SPs, NEW u \in Users, NEW S \in SUBSET Scopes, Accept(sp, u, S)
      PROVE IInv'
  <2>1. GrantsKept
    BY <1>4, TypeFacts, IssueFacts DEF Accept, GrantsKept
  <2>. QED BY <1>4, <1>2, <2>1 DEF Accept, callVars, Same
<1>5. ASSUME NEW g \in GrantIds, RevokeGrant(g) PROVE IInv'
  BY <1>5, <1>2 DEF RevokeGrant, callVars, Same, GrantsKept
<1>6. ASSUME NEW c \in Calls, BeginCall(c) \/ BeginDirect(c) \/ Lookup(c) \/ CallFails(c)
      PROVE IInv'
  <2>1. CASE BeginCall(c)
    <3>1. pc'[c] = "lookup" /\ \A d \in Calls \ {c} : pc'[d] = pc[d]
      BY <2>1, TypeFacts, GotoType DEF BeginCall, Steps
    <3>2. eff[c] = {}
      BY <2>1 DEF BeginCall, CallInv, Unverified
    <3>3. CallInv(c)'
      BY <2>1, <3>1, <3>2, MoveKeepsInv DEF BeginCall
    <3>. QED BY <2>1, <3>1, <3>3, <1>3 DEF BeginCall, Same, GrantsKept
  <2>2. CASE BeginDirect(c)
    <3>1. pc'[c] = "posted" /\ \A d \in Calls \ {c} : pc'[d] = pc[d]
      BY <2>2, TypeFacts, GotoType DEF BeginDirect, Steps
    <3>2. eff[c] = {}
      BY <2>2 DEF BeginDirect, CallInv, Unverified
    <3>3. CallInv(c)'
      BY <2>2, <3>1, <3>2, MoveKeepsInv DEF BeginDirect
    <3>4. \A d \in Calls \ {c} : held'[d] = held[d]
      BY <2>2, TypeFacts DEF BeginDirect
    <3>. QED BY <2>2, <3>1, <3>3, <3>4, <1>3 DEF BeginDirect, Same, GrantsKept
  <2>3. CASE Lookup(c)
    <3>1. pc'[c] = "posted" /\ \A d \in Calls \ {c} : pc'[d] = pc[d]
      BY <2>3, TypeFacts, GotoType DEF Lookup, Steps
    <3>2. eff[c] = {}
      BY <2>3 DEF Lookup, CallInv, Unverified
    <3>3. CallInv(c)'
      BY <2>3, <3>1, <3>2, MoveKeepsInv DEF Lookup
    <3>4. \A d \in Calls \ {c} : held'[d] = held[d]
      BY <2>3, TypeFacts DEF Lookup
    <3>. QED BY <2>3, <3>1, <3>3, <3>4, <1>3 DEF Lookup, Same, GrantsKept
  <2>4. CASE CallFails(c)
    BY <2>4, <1>3, EndKeepsInv DEF CallFails, Results
  <2>. QED BY <1>6, <2>1, <2>2, <2>3, <2>4
<1>7. ASSUME NEW c \in Calls, Gate(c) PROVE IInv'
  <2>1. CASE RunOpenTool(c)
    BY <2>1, <1>3, RunKeepsInv DEF RunOpenTool
  <2>2. CASE NoPresentation(c)
    <3>1. ~LetThrough(c)
      BY <2>2 DEF NoPresentation, LetThrough, GrantFromThisSp
    <3>. QED BY <2>2, <3>1, <1>3, DenialKeepsInv DEF NoPresentation
  <2>3. CASE VerifyVP(c)
    BY <2>3, <1>3, VerifyKeepsInv
  <2>4. CASE RejectVP(c)
    BY <2>4, <1>3, EndKeepsInv DEF RejectVP, Results
  <2>5. CASE DenyPolicy(c)
    <3>1. ~LetThrough(c)
      BY <2>5 DEF DenyPolicy, LetThrough
    <3>. QED BY <2>5, <3>1, <1>3, DenialKeepsInv DEF DenyPolicy
  <2>6. CASE RunTool(c)
    <3>1. Protected(c) => LetThrough(c)
      BY <2>6 DEF RunTool, LetThrough
    <3>. QED BY <2>6, <3>1, <1>3, RunKeepsInv DEF RunTool
  <2>. QED BY <1>7, <2>1, <2>2, <2>3, <2>4, <2>5, <2>6 DEF Gate
<1>8. ASSUME NEW c \in Calls, Prompted(c) PROVE IInv'
  <2>1. CASE ConsentRefused(c)
    <3>1. runs[c] = 0
      BY <2>1 DEF ConsentRefused, CallInv, RunsLast
    <3>. QED BY <2>1, <3>1, <1>3, EndKeepsInv DEF ConsentRefused, Results
  <2>2. ASSUME NEW S \in SUBSET Scopes, ConsentObtained(c, S) PROVE IInv'
    <3>1. pc'[c] = "posted" /\ \A d \in Calls \ {c} : pc'[d] = pc[d]
      BY <2>2, TypeFacts, GotoType DEF ConsentObtained, Steps
    <3>2. eff'[c] = {} /\ \A d \in Calls \ {c} : eff'[d] = eff[d]
      BY <2>2 DEF ConsentObtained, TypeOK
    <3>3. \A d \in Calls \ {c} : held'[d] = held[d]
      BY <2>2, TypeFacts DEF ConsentObtained
    <3>4. GrantsKept
      <4>1. Service[tool[c]] \in SPs /\ User \in Users
        BY GateAssumption DEF TypeOK
      <4>. QED BY <2>2, <4>1, TypeFacts, IssueFacts DEF ConsentObtained, GrantsKept
    <3>5. CallInv(c)'
      BY <2>2, <3>1, <3>2, MoveKeepsInv DEF ConsentObtained
    <3>. QED BY <2>2, <3>1, <3>2, <3>3, <3>4, <3>5, <1>3 DEF ConsentObtained, Same
  <2>. QED BY <1>8, <2>1, <2>2 DEF Prompted
<1>9. CASE UNCHANGED vars
  BY <1>9, <1>2 DEF vars, Same, GrantsKept
<1>. QED
  BY <1>4, <1>5, <1>6, <1>7, <1>8, <1>9 DEF Next

LEMMA Invariance == Spec => []IInv
BY InitIInv, NextIInv, PTL DEF Spec

(***************************************************************************)
(* A protected tool has run only with a grant of its SP for the agent's    *)
(* user that covers it.                                                    *)
(***************************************************************************)
THEOREM RunsOnlyWithConsent == Spec => []RunImpliesConsent
<1>1. IInv => RunImpliesConsent
  <2>. SUFFICES ASSUME IInv, NEW c \in Calls, Ran(c)
                PROVE  held[c] \in Matching(c, Len(grants)) /\ Covers(held[c], c)
    BY DEF RunImpliesConsent, Ran
  <2>1. TypeOK /\ LetThrough(c) /\ EffWithinGrant(c)
    BY DEF IInv, CallInv
  <2>2. held[c] \in 1 .. Len(grants)
    BY <2>1, TypeFacts DEF LetThrough, GrantFromThisSp
  <2>. QED
    BY <2>1, <2>2
       DEF LetThrough, GrantFromThisSp, EffWithinGrant, Matching, Covers
<1>. QED BY <1>1, Invariance, PTL

(***************************************************************************)
(* Every call runs its tool at most once, and not before asking.           *)
(***************************************************************************)
THEOREM RunsOnce == Spec => []RunsAtMostOnce
<1>1. IInv => RunsAtMostOnce
  BY DEF IInv, CallInv, RunsLast, RunsAtMostOnce
<1>. QED BY <1>1, Invariance, PTL

(***************************************************************************)
(* What a call knew when it chose its grant.  A call that holds a grant    *)
(* that was revoked by then gets no further than its post; one that found  *)
(* grants of its SP holds one of them, and what it was verified for        *)
(* follows from that grant.                                                *)
(***************************************************************************)
Chosen(c) ==
    \/ held[c] = 0 /\ Matching(c, seen[c].grants) = {}
    \/ held[c] \in Matching(c, seen[c].grants)

RevokedStops(c) ==
    (Protected(c) /\ held[c] \in seen[c].revoked) =>
        /\ pc[c] \notin {"verified", "prompt"}
        /\ outcome[c] # "consent_required" /\ runs[c] = 0

NotCovered(c) ==
    LET standing == Matching(c, seen[c].grants)
    IN  standing = {} \/ \E g \in standing : ~Covers(g, c)

SightInv(c) ==
    /\ seen[c].revoked \subseteq revoked
    /\ seen[c].grants <= Len(grants)
    /\ RevokedStops(c)
    /\ ~direct[c] /\ attempt[c] = 1 /\ pc[c] \in {"posted", "verified"} => Chosen(c)
    /\ pc[c] = "verified" => eff[c] = EffectiveScopes(c)
    /\ pc[c] = "prompt" => NotCovered(c)

LEMMA InitSight == Init => \A c \in Calls : SightInv(c)
<1>. SUFFICES ASSUME Init, NEW c \in Calls PROVE SightInv(c)
  OBVIOUS
<1>1. /\ pc[c] = "idle" /\ seen[c].grants = 0 /\ seen[c].revoked = {} /\ runs[c] = 0
      /\ outcome[c] = "none" /\ Len(grants) = 0
  BY DEF Init
<1>. QED BY <1>1 DEF SightInv, RevokedStops

\* The platform's grants only grow.
Grows ==
    /\ GrantsKept /\ revoked \subseteq revoked'
    /\ Len(grants') \in Nat /\ Len(grants) <= Len(grants')

LEMMA IssueGrows ==
  ASSUME TypeOK, NEW sp \in SPs, NEW u \in Users, NEW S \in SUBSET Scopes,
         Issue(sp, u, S), revoked' = revoked
  PROVE  Grows /\ Len(grants') = Len(grants) + 1
<1>1. /\ Len(grants') = Len(grants) + 1 /\ Len(grants) \in Nat
      /\ \A g \in GrantIds : grants'[g] = grants[g]
  BY TypeFacts, IssueFacts
<1>. QED BY <1>1 DEF Grows, GrantsKept

\* What the choice was made from, and what was chosen.
SameChoice(d) ==
    /\ tool'[d] = tool[d] /\ held'[d] = held[d] /\ seen'[d] = seen[d] /\ direct'[d] = direct[d]
    /\ attempt'[d] = attempt[d]

LEMMA ChoiceKept ==
  ASSUME TypeOK, Grows, NEW d \in Calls, SightInv(d), SameChoice(d)
  PROVE  /\ seen'[d].revoked \subseteq revoked' /\ seen'[d].grants <= Len(grants')
         /\ Protected(d)' = Protected(d)
         /\ Chosen(d)' = Chosen(d)
         /\ EffectiveScopes(d)' = EffectiveScopes(d)
         /\ NotCovered(d)' = NotCovered(d)
<1>1. held[d] # 0 => grants'[held[d]] = grants[held[d]]
  BY TypeFacts DEF Grows, GrantsKept
<1>2. seen[d].grants \in Nat /\ Len(grants) \in Nat
  BY TypeFacts DEF Sight
<1>3. seen'[d].revoked \subseteq revoked' /\ seen'[d].grants <= Len(grants')
  BY <1>2 DEF SightInv, Grows, SameChoice
<1>4. \A g \in 1 .. seen[d].grants : grants'[g] = grants[g]
  BY <1>2, TypeFacts DEF SightInv, Grows, GrantsKept
<1>5. Matching(d, seen[d].grants)' = Matching(d, seen[d].grants)
  BY <1>4 DEF Matching, SameChoice
<1>6. \A g \in Matching(d, seen[d].grants) : Covers(g, d)' = Covers(g, d)
  BY <1>4 DEF Matching, Covers, SameChoice
<1>. QED
  BY <1>1, <1>3, <1>5, <1>6 DEF Protected, Chosen, EffectiveScopes, NotCovered, SameChoice

LEMMA SameSight ==
  ASSUME TypeOK, Grows, NEW d \in Calls, SightInv(d), SameChoice(d), Same(d)
  PROVE  SightInv(d)'
BY ChoiceKept DEF SightInv, RevokedStops, Same, SameChoice

\* The call ends, without having run its tool or without having chosen a
\* revoked grant.
LEMMA EndSight ==
  ASSUME TypeOK, Grows, NEW c \in Calls, SightInv(c), SameChoice(c),
         pc'[c] = "done",
         Protected(c) /\ held[c] \in seen[c].revoked =>
            outcome'[c] # "consent_required" /\ runs'[c] = 0
  PROVE  SightInv(c)'
BY ChoiceKept DEF SightInv, RevokedStops, SameChoice

LEMMA PromptSight ==
  ASSUME TypeOK, Grows, NEW c \in Calls, SightInv(c), SameChoice(c),
         pc'[c] = "prompt", NotCovered(c),
         ~(Protected(c) /\ held[c] \in seen[c].revoked)
  PROVE  SightInv(c)'
BY ChoiceKept DEF SightInv, RevokedStops, SameChoice

\* A grant is chosen and posted: the call has not run, nor asked.
LEMMA PostSight ==
  ASSUME Grows, NEW c \in Calls, pc'[c] = "posted", outcome'[c] = "none", runs'[c] = 0,
         seen'[c].revoked \subseteq revoked', seen'[c].grants <= Len(grants'),
         ~direct'[c] /\ attempt'[c] = 1 => Chosen(c)'
  PROVE  SightInv(c)'
BY DEF SightInv, RevokedStops

LEMMA NextSight ==
  ASSUME IInv, \A d \in Calls : SightInv(d), [Next]_vars
  PROVE  \A d \in Calls : SightInv(d)'
<1>1. TypeOK /\ \A d \in Calls : CallInv(d)
  BY DEF IInv
<1>. USE <1>1
<1>2. Len(grants) \in Nat /\ revoked \subseteq GrantIds /\ 0 \notin GrantIds
  BY TypeFacts DEF TypeOK
<1>3. ASSUME Grows, \A d \in Calls : Same(d) /\ SameChoice(d)
      PROVE  \A d \in Calls : SightInv(d)'
  BY <1>3, SameSight
<1>4. ASSUME NEW c \in Calls, Grows, SightInv(c)',
             \A d \in Calls \ {c} : Same(d) /\ SameChoice(d)
      PROVE  \A d \in Calls : SightInv(d)'
  BY <1>4, SameSight
<1>5. UNCHANGED <<grants, revoked>> => Grows
  BY <1>2 DEF Grows, GrantsKept
<1>6. ASSUME NEW c \in Calls, NEW result \in Results, End(c, result),
             UNCHANGED <<grants, revoked, tool, held, direct, eff, attempt, seen>>,
             \A d \in Calls \ {c} : runs'[d] = runs[d],
             Protected(c) /\ held[c] \in seen[c].revoked =>
                result # "consent_required" /\ runs'[c] = 0
      PROVE  \A d \in Calls : SightInv(d)'
  <2>1. /\ pc'[c] = "done" /\ outcome'[c] = result
        /\ \A d \in Calls \ {c} : pc'[d] = pc[d] /\ outcome'[d] = outcome[d]
    BY <1>6, TypeFacts, EndType
  <2>2. SameChoice(c) /\ \A d \in Calls \ {c} : Same(d) /\ SameChoice(d)
    BY <1>6, <2>1 DEF Same, SameChoice
  <2>3. SightInv(c)'
    BY <1>5, <1>6, <2>1, <2>2, EndSight
  <2>. QED BY <1>4, <1>5, <1>6, <2>2, <2>3
<1>7. ASSUME NEW c \in Calls, ConsentRequired(c), pc[c] # "done",
             UNCHANGED <<grants, revoked, runs, tool, held, direct, eff, attempt, seen>>,
             ~(Protected(c) /\ held[c] \in seen[c].revoked),
             ~direct[c] /\ attempt[c] = 1 => NotCovered(c)
      PROVE  \A d \in Calls : SightInv(d)'
  <2>1. CASE End(c, "consent_required") \/ End(c, "error")
    BY <1>6, <1>7, <2>1 DEF Results
  <2>2. CASE Goto(c, "prompt") /\ UNCHANGED outcome /\ ~direct[c] /\ attempt[c] # 2
    <3>1. pc'[c] = "prompt" /\ \A d \in Calls \ {c} : pc'[d] = pc[d]
      BY <2>2, TypeFacts, GotoType DEF Steps
    <3>2. SameChoice(c) /\ \A d \in Calls \ {c} : Same(d) /\ SameChoice(d)
      BY <1>7, <2>2, <3>1 DEF Same, SameChoice
    <3>3. attempt[c] = 1
      BY <2>2 DEF TypeOK
    <3>4. SightInv(c)'
      BY <1>5, <1>7, <2>2, <3>1, <3>2, <3>3, PromptSight
    <3>. QED BY <1>4, <1>5, <1>7, <3>2, <3>4
  <2>. QED BY <1>7, <2>1, <2>2 DEF ConsentRequired
<1>8. ASSUME NEW sp \in SPs, NEW u \in Users, NEW S \in SUBSET Scopes, Accept(sp, u, S)
      PROVE  \A d \in Calls : SightInv(d)'
  <2>1. Issue(sp, u, S) /\ revoked' = revoked
    BY <1>8 DEF Accept
  <2>2. Grows
    BY <2>1, IssueGrows
  <2>. QED BY <2>2, <1>3, <1>8, <2>1 DEF Accept, callVars, Same, SameChoice
<1>9. ASSUME NEW g \in GrantIds, RevokeGrant(g)
      PROVE  \A d \in Calls : SightInv(d)'
  BY <1>2, <1>3, <1>9 DEF RevokeGrant, callVars, Same, SameChoice, GrantsKept, Grows
<1>10. ASSUME NEW c \in Calls, BeginCall(c) \/ BeginDirect(c) \/ Lookup(c) \/ CallFails(c)
       PROVE  \A d \in Calls : SightInv(d)'
  <2>1. CASE BeginCall(c)
    <3>1. pc'[c] = "lookup" /\ \A d \in Calls \ {c} : pc'[d] = pc[d]
      BY <2>1, TypeFacts, GotoType DEF BeginCall, Steps
    <3>2. Grows /\ SameChoice(c) /\ \A d \in Calls \ {c} : Same(d) /\ SameChoice(d)
      BY <1>5, <2>1, <3>1 DEF BeginCall, Same, SameChoice
    <3>3. SightInv(c)'
      BY <2>1, <3>1, <3>2, ChoiceKept DEF BeginCall, SightInv, RevokedStops, SameChoice
    <3>. QED BY <1>4, <3>2, <3>3
  <2>2. CASE BeginDirect(c)
    <3>1. pc'[c] = "posted" /\ \A d \in Calls \ {c} : pc'[d] = pc[d]
      BY <2>2, TypeFacts, GotoType DEF BeginDirect, Steps
    <3>2. /\ \A d \in Calls \ {c} : held'[d] = held[d] /\ direct'[d] = direct[d] /\ seen'[d] = seen[d]
          /\ direct'[c] /\ seen'[c].grants = Len(grants) /\ seen'[c].revoked = revoked
      BY <2>2, TypeFacts DEF BeginDirect, See, TypeOK
    <3>3. outcome'[c] = "none" /\ runs'[c] = 0
      BY <2>2 DEF BeginDirect, CallInv, RunsLast
    <3>4. Grows /\ \A d \in Calls \ {c} : Same(d) /\ SameChoice(d)
      BY <1>5, <2>2, <3>1, <3>2 DEF BeginDirect, Same, SameChoice
    <3>5. SightInv(c)'
      BY <2>2, <3>1, <3>2, <3>3, <3>4, PostSight DEF Grows
    <3>. QED BY <1>4, <3>4, <3>5
  <2>3. CASE Lookup(c)
    <3>1. pc'[c] = "posted" /\ \A d \in Calls \ {c} : pc'[d] = pc[d]
      BY <2>3, TypeFacts, GotoType DEF Lookup, Steps
    <3>2. PICK g \in IF Matching(c, Len(grants)) = {} THEN {0} ELSE Matching(c, Len(grants)) :
                held' = [held EXCEPT ![c] = g]
      BY <2>3 DEF Lookup
    <3>3. /\ held'[c] = g
          /\ \A d \in Calls \ {c} : held'[d] = held[d] /\ seen'[d] = seen[d]
          /\ seen'[c].grants = Len(grants) /\ seen'[c].revoked = revoked
      BY <2>3, <3>2, TypeFacts DEF Lookup, See
    <3>4. outcome'[c] = "none" /\ runs'[c] = 0
      BY <2>3 DEF Lookup, CallInv, RunsLast
    <3>5. Grows /\ \A d \in Calls \ {c} : Same(d) /\ SameChoice(d)
      BY <1>5, <2>3, <3>1, <3>3 DEF Lookup, Same, SameChoice
    <3>6. Matching(c, Len(grants))' = Matching(c, Len(grants)) /\ grants' = grants
      BY <2>3 DEF Lookup, Matching
    <3>7. Chosen(c)'
      BY <3>2, <3>3, <3>6 DEF Chosen
    <3>8. SightInv(c)'
      BY <2>3, <3>1, <3>3, <3>4, <3>5, <3>7, PostSight DEF Grows
    <3>. QED BY <1>4, <3>5, <3>8
  <2>4. CASE CallFails(c)
    BY <1>6, <2>4 DEF CallFails, Results, CallInv, RunsLast
  <2>. QED BY <1>10, <2>1, <2>2, <2>3, <2>4
<1>11. ASSUME NEW c \in Calls, Gate(c)
       PROVE  \A d \in Calls : SightInv(d)'
  <2>0. ASSUME Run(c),
               UNCHANGED <<grants, revoked, tool, held, direct, eff, attempt, seen>>,
               ~(Protected(c) /\ held[c] \in seen[c].revoked)
        PROVE  \A d \in Calls : SightInv(d)'
    <3>1. PICK result \in {"ok", "error"} : End(c, result)
      BY <2>0 DEF Run
    <3>2. \A d \in Calls \ {c} : runs'[d] = runs[d]
      BY <2>0 DEF Run, TypeOK
    <3>. QED BY <1>6, <2>0, <3>1, <3>2 DEF Results
  <2>1. CASE RunOpenTool(c)
    BY <2>0, <2>1 DEF RunOpenTool
  <2>2. CASE NoPresentation(c)
    <3>1. held[c] \notin seen[c].revoked
      BY <1>2, <2>2 DEF NoPresentation, SightInv
    <3>. QED BY <1>7, <2>2, <3>1 DEF NoPresentation
  <2>3. CASE VerifyVP(c)
    <3>1. pc'[c] = "verified" /\ \A d \in Calls \ {c} : pc'[d] = pc[d]
      BY <2>3, TypeFacts, GotoType DEF VerifyVP, Steps
    <3>2. eff'[c] = EffectiveScopes(c) /\ \A d \in Calls \ {c} : eff'[d] = eff[d]
      BY <2>3 DEF VerifyVP, TypeOK
    <3>3. Grows /\ SameChoice(c) /\ \A d \in Calls \ {c} : Same(d) /\ SameChoice(d)
      BY <1>5, <2>3, <3>1, <3>2 DEF VerifyVP, Same, SameChoice
    <3>4. held[c] \notin seen[c].revoked
      BY <1>2, <2>3 DEF VerifyVP, Verifiable, SightInv
    <3>5. ~direct[c] /\ attempt[c] = 1 => Chosen(c)
      BY <2>3 DEF VerifyVP, SightInv
    <3>6. SightInv(c)'
      BY <3>1, <3>2, <3>3, <3>4, <3>5, ChoiceKept DEF SightInv, RevokedStops, SameChoice
    <3>. QED BY <1>4, <3>3, <3>6
  <2>4. CASE RejectVP(c)
    BY <1>6, <2>4 DEF RejectVP, Results, CallInv, RunsLast
  <2>5. CASE DenyPolicy(c)
    <3>1. pc[c] = "verified" /\ (~GrantFromThisSp(c) \/ RequiredScope[tool[c]] \notin eff[c])
      BY <2>5 DEF DenyPolicy
    <3>2. ~(Protected(c) /\ held[c] \in seen[c].revoked)
      BY <3>1 DEF SightInv, RevokedStops
    <3>3. ASSUME ~direct[c], attempt[c] = 1
          PROVE  NotCovered(c)
      <4>1. Chosen(c) /\ eff[c] = EffectiveScopes(c)
        BY <3>1, <3>3 DEF SightInv
      <4>2. CASE held[c] \in Matching(c, seen[c].grants)
        <5>1. held[c] # 0 /\ GrantFromThisSp(c)
          BY <4>2 DEF Matching, GrantFromThisSp
        <5>2. ~Covers(held[c], c)
          BY <3>1, <4>1, <5>1 DEF EffectiveScopes, Covers
        <5>. QED BY <4>2, <5>2 DEF NotCovered
      <4>. QED BY <4>1, <4>2 DEF Chosen, NotCovered
    <3>. QED BY <1>7, <2>5, <3>1, <3>2, <3>3 DEF DenyPolicy
  <2>6. CASE RunTool(c)
    <3>1. ~(Protected(c) /\ held[c] \in seen[c].revoked)
      BY <2>6 DEF RunTool, SightInv, RevokedStops
    <3>. QED BY <2>0, <2>6, <3>1 DEF RunTool
  <2>. QED BY <1>11, <2>1, <2>2, <2>3, <2>4, <2>5, <2>6 DEF Gate
<1>12. ASSUME NEW c \in Calls, Prompted(c)
       PROVE  \A d \in Calls : SightInv(d)'
  <2>1. CASE ConsentRefused(c)
    <3>1. ~(Protected(c) /\ held[c] \in seen[c].revoked)
      BY <2>1 DEF ConsentRefused, SightInv, RevokedStops
    <3>. QED BY <1>6, <2>1, <3>1 DEF ConsentRefused, Results
  <2>2. ASSUME NEW S \in SUBSET Scopes, ConsentObtained(c, S)
        PROVE  \A d \in Calls : SightInv(d)'
    <3>1. pc'[c] = "posted" /\ \A d \in Calls \ {c} : pc'[d] = pc[d]
      BY <2>2, TypeFacts, GotoType DEF ConsentObtained, Steps
    <3>2. Service[tool[c]] \in SPs /\ User \in Users
      BY GateAssumption DEF TypeOK
    <3>3. Grows /\ Len(grants') = Len(grants) + 1
      <4>1. Issue(Service[tool[c]], User, S) /\ revoked' = revoked
        BY <2>2 DEF ConsentObtained
      <4>. QED BY <3>2, <4>1, IssueGrows
    <3>4. /\ \A d \in Calls \ {c} : /\ held'[d] = held[d] /\ seen'[d] = seen[d]
                                    /\ attempt'[d] = attempt[d] /\ eff'[d] = eff[d]
          /\ attempt'[c] = 2 /\ seen'[c].grants = Len(grants) + 1 /\ seen'[c].revoked = revoked
      BY <2>2, TypeFacts DEF ConsentObtained, See, TypeOK
    <3>5. outcome'[c] = "none" /\ runs'[c] = 0
      BY <2>2 DEF ConsentObtained, CallInv, RunsLast
    <3>6. \A d \in Calls \ {c} : Same(d) /\ SameChoice(d)
      BY <2>2, <3>1, <3>4 DEF ConsentObtained, Same, SameChoice
    <3>7. SightInv(c)'
      BY <3>1, <3>3, <3>4, <3>5, PostSight DEF Grows
    <3>. QED BY <1>4, <3>3, <3>6, <3>7
  <2>. QED BY <1>12, <2>1, <2>2 DEF Prompted
<1>13. CASE UNCHANGED vars
  BY <1>3, <1>5, <1>13 DEF vars, Same, SameChoice
<1>. QED
  BY <1>8, <1>9, <1>10, <1>11, <1>12, <1>13 DEF Next

LEMMA SightInvariance == Spec => [](IInv /\ \A c \in Calls : SightInv(c))
<1>1. IInv /\ (\A c \in Calls : SightInv(c)) /\ [Next]_vars => (\A c \in Calls : SightInv(c))'
  BY NextSight
<1>. QED BY <1>1, InitIInv, NextIInv, InitSight, PTL DEF Spec

(***************************************************************************)
(* The SP's gate never answers a revoked grant with a prompt, nor runs on  *)
(* it, whatever else is issued and revoked while the call is on its way.   *)
(***************************************************************************)
THEOREM RevocationIsFinal == Spec => []RevokedIsFinal
<1>1. (\A c \in Calls : SightInv(c)) => RevokedIsFinal
  BY DEF SightInv, RevokedStops, RevokedIsFinal
<1>. QED BY <1>1, SightInvariance, PTL

(***************************************************************************)
(* callSpTool asks the user only when some grant that it could have chosen *)
(* does not cover the tool, or there was none.                             *)
(***************************************************************************)
THEOREM GrantsAreReused == Spec => []StandingGrantReused
<1>1. (\A c \in Calls : SightInv(c)) => StandingGrantReused
  BY DEF SightInv, NotCovered, StandingGrantReused
<1>. QED BY <1>1, SightInvariance, PTL

(***************************************************************************)
(* The gate implements the policy.  A step that changes neither grants nor *)
(* what is let through or has run stutters; acceptances and revocations    *)
(* change the consent, VerifyVP authorizes and RunTool executes.           *)
(***************************************************************************)
Standing(d) ==
    tool'[d] = tool[d] /\ (LetThrough(d)' <=> LetThrough(d)) /\ (Ran(d)' <=> Ran(d))

LEMMA AllStanding ==
  ASSUME \A d \in Calls : Standing(d)
  PROVE  Authorized' = Authorized /\ Executed' = Executed
<1>1. \A d \in Calls : Need(d)' = Need(d)
  BY DEF Standing, Need
<1>. QED BY <1>1 DEF Standing, Authorized, Executed

LEMMA SameStanding ==
  ASSUME TypeOK, GrantsKept, NEW d \in Calls, Same(d)
  PROVE  Standing(d)
BY LetThroughKept DEF Same, Standing, Ran

LEMMA MoreConsent ==
  ASSUME TypeOK, GrantsKept, revoked' = revoked, Len(grants) <= Len(grants'),
         Len(grants') \in Nat
  PROVE  Consented \subseteq Consented'
<1>1. GrantIds \subseteq GrantIds'
  BY TypeFacts DEF GrantIds
<1>. QED BY <1>1 DEF Consented, GrantsKept

LEMMA AgreeStep ==
  ASSUME Consented \subseteq Consented', Authorized' = Authorized, Executed' = Executed
  PROVE  Policy!Next
<1>1. Consented' \in SUBSET (SPs \X Scopes) /\ Consented' = Consented \cup Consented'
  BY DEF Consented
<1>2. Policy!Agree(Consented')
  BY <1>1 DEF Policy!Agree
<1>. QED BY <1>1, <1>2 DEF Policy!Next

LEMMA WithdrawStep ==
  ASSUME Consented' \subseteq Consented, Authorized' = Authorized, Executed' = Executed
  PROVE  Policy!Next
<1>. DEFINE S == Consented \ Consented'
<1>1. S \in SUBSET (SPs \X Scopes) /\ Consented' = Consented \ S
  BY DEF Consented
<1>2. Policy!Withdraw(S)
  BY <1>1 DEF Policy!Withdraw
<1>. QED BY <1>1, <1>2 DEF Policy!Next

\* A step of c at which neither verification nor the tool changes its standing.
LEMMA EndStutters ==
  ASSUME IInv, NEW c \in Calls, UNCHANGED <<grants, revoked, tool, held, eff>>,
         \A d \in Calls : runs'[d] = runs[d] \/ ~Protected(d)
  PROVE  Consented' = Consented /\ Authorized' = Authorized /\ Executed' = Executed
<1>1. \A d \in Calls : Standing(d)
  BY DEF Standing, LetThrough, Ran, GrantFromThisSp, Protected
<1>. QED BY <1>1, AllStanding DEF Consented, GrantIds

LEMMA VerifyStep ==
  ASSUME IInv, IInv', NEW c \in Calls, VerifyVP(c)
  PROVE  [Policy!Next]_Policy!vars
<1>1. TypeOK /\ CallInv(c) /\ CallInv(c)' /\ GrantsKept /\ \A d \in Calls \ {c} : Same(d)
  BY VerifyKeepsInv DEF IInv
<1>2. \A d \in Calls \ {c} : Standing(d)
  BY <1>1, SameStanding
<1>3. Consented' = Consented
  BY DEF VerifyVP, Consented, GrantIds
<1>4. /\ ~LetThrough(c) /\ tool'[c] = tool[c] /\ Ran(c)' = Ran(c)
      /\ \A d \in Calls : Need(d)' = Need(d)
  BY <1>1 DEF VerifyVP, CallInv, Unverified, LetThrough, Ran, Protected, Need
<1>5. Executed' = Executed
  BY <1>2, <1>4 DEF Executed, Standing
<1>6. CASE ~LetThrough(c)'
  <2>1. \A d \in Calls : Standing(d)
    BY <1>2, <1>4, <1>6 DEF Standing
  <2>. QED BY <2>1, <1>3, AllStanding DEF Policy!vars
<1>7. CASE LetThrough(c)'
  <2>1. Authorized' = Authorized \cup {<<c, Need(c)>>}
    BY <1>2, <1>4, <1>7 DEF Authorized, Standing
  <2>2. Need(c) \in Consented
    <3>1. held[c] \in GrantIds /\ held[c] # 0
      BY <1>1, <1>7, TypeFacts DEF LetThrough, GrantFromThisSp, VerifyVP
    <3>2. held[c] \notin revoked /\ grants[held[c]].user = User
      BY <3>1 DEF VerifyVP, Verifiable
    <3>3. /\ grants[held[c]].sp = Service[tool[c]]
          /\ RequiredScope[tool[c]] \in Ceiling \cap grants[held[c]].scopes
      BY <1>1, <1>7, <3>1
         DEF LetThrough, GrantFromThisSp, EffWithinGrant, CallInv, VerifyVP
    <3>4. Need(c) \in SPs \X Scopes
      BY <1>1, <3>3, GateAssumption DEF Need, TypeOK
    <3>. QED BY <3>1, <3>2, <3>3, <3>4 DEF Consented, Need
  <2>3. Policy!Authorize(c, Need(c))
    BY <1>3, <1>5, <2>1, <2>2 DEF Policy!Authorize
  <2>. QED BY <2>2, <2>3 DEF Policy!Next, Consented
<1>. QED BY <1>6, <1>7

LEMMA RunStep ==
  ASSUME IInv, IInv', NEW c \in Calls, RunTool(c)
  PROVE  [Policy!Next]_Policy!vars
<1>1. TypeOK /\ CallInv(c) /\ Consented' = Consented
  BY DEF IInv, RunTool, Consented, GrantIds
<1>2. runs'[c] = runs[c] + 1 /\ \A d \in Calls \ {c} : runs'[d] = runs[d]
  BY <1>1 DEF RunTool, Run, TypeOK
<1>3. \A d \in Calls : /\ LetThrough(d)' = LetThrough(d) /\ Need(d)' = Need(d)
                       /\ Protected(d)' = Protected(d)
  BY DEF RunTool, LetThrough, GrantFromThisSp, Protected, Need
<1>4. Authorized' = Authorized
  BY <1>3 DEF Authorized
<1>5. CASE ~Protected(c)
  <2>1. \A d \in Calls : Ran(d)' = Ran(d)
    BY <1>2, <1>3, <1>5 DEF Ran
  <2>. QED BY <1>1, <1>3, <1>4, <2>1 DEF Executed, Policy!vars
<1>6. CASE Protected(c)
  <2>1. LetThrough(c)
    BY <1>6 DEF RunTool, LetThrough
  <2>2. Ran(c)'
    <3>1. runs[c] \in Nat
      BY <1>1 DEF TypeOK
    <3>. QED BY <3>1, <1>2, <1>3, <1>6 DEF Ran
  <2>3. \A d \in Calls \ {c} : Ran(d)' = Ran(d)
    BY <1>2, <1>3 DEF Ran
  <2>4. Executed' = Executed \cup {<<c, Need(c)>>}
    BY <1>3, <2>2, <2>3 DEF Executed
  <2>5. <<c, Need(c)>> \in Authorized
    BY <2>1 DEF Authorized
  <2>6. Policy!Execute(c, Need(c))
    BY <1>1, <1>4, <2>4, <2>5 DEF Policy!Execute
  <2>7. Need(c) \in SPs \X Scopes
    <3>1. RequiredScope[tool[c]] \in Scopes /\ Service[tool[c]] \in SPs
      BY <1>1, <1>6, GateAssumption DEF Protected, TypeOK
    <3>. QED BY <3>1 DEF Need
  <2>. QED BY <2>6, <2>7 DEF Policy!Next
<1>. QED BY <1>5, <1>6

LEMMA AgreementStep ==
  ASSUME IInv, IInv', NEW c \in Calls, NEW S \in SUBSET Scopes, ConsentObtained(c, S)
  PROVE  Policy!Next
<1>1. TypeOK /\ CallInv(c) /\ Service[tool[c]] \in SPs /\ User \in Users
  BY GateAssumption DEF IInv, TypeOK
<1>2. GrantsKept /\ Len(grants') = Len(grants) + 1 /\ Len(grants) \in Nat
  BY <1>1, TypeFacts, IssueFacts DEF ConsentObtained, GrantsKept
<1>3. Consented \subseteq Consented'
  BY <1>1, <1>2, MoreConsent DEF ConsentObtained
<1>4. pc'[c] = "posted" /\ \A d \in Calls \ {c} : pc'[d] = pc[d]
  BY <1>1, TypeFacts, GotoType DEF ConsentObtained, Steps
<1>5. eff'[c] = {} /\ \A d \in Calls \ {c} : eff'[d] = eff[d] /\ held'[d] = held[d]
  BY <1>1, TypeFacts DEF ConsentObtained, TypeOK
<1>6. \A d \in Calls \ {c} : Standing(d)
  BY <1>1, <1>2, <1>4, <1>5, SameStanding DEF ConsentObtained, Same
<1>7. Standing(c)
  <2>1. ~LetThrough(c)
    BY <1>1 DEF ConsentObtained, CallInv, DeniedBefore
  <2>2. ~LetThrough(c)'
    BY <1>5 DEF LetThrough
  <2>. QED BY <2>1, <2>2 DEF ConsentObtained, Standing, Ran, Protected
<1>. QED BY <1>3, <1>6, <1>7, AllStanding, AgreeStep

LEMMA PolicyInit == Init => Policy!Init
<1>. SUFFICES ASSUME Init PROVE Policy!Init
  OBVIOUS
<1>1. GrantIds = {}
  BY DEF Init, GrantIds
<1>2. Consented = {}
  BY <1>1 DEF Consented
<1>3. \A c \in Calls : ~LetThrough(c) /\ ~Ran(c)
  BY DEF Init, LetThrough, GrantFromThisSp, Ran
<1>. QED BY <1>2, <1>3 DEF Authorized, Executed, Policy!Init

LEMMA PolicyNext == IInv /\ IInv' /\ [Next]_vars => [Policy!Next]_Policy!vars
<1>. SUFFICES ASSUME IInv, IInv', [Next]_vars PROVE [Policy!Next]_Policy!vars
  OBVIOUS
<1>. USE DEF Policy!vars
<1>1. TypeOK /\ \A d \in Calls : CallInv(d)
  BY DEF IInv
<1>2. ASSUME NEW sp \in SPs, NEW u \in Users, NEW S \in SUBSET Scopes, Accept(sp, u, S)
      PROVE Policy!Next
  <2>1. GrantsKept /\ Len(grants') = Len(grants) + 1 /\ Len(grants) \in Nat
    BY <1>1, <1>2, TypeFacts, IssueFacts DEF Accept, GrantsKept
  <2>2. Consented \subseteq Consented'
    BY <1>1, <1>2, <2>1, MoreConsent DEF Accept
  <2>3. \A d \in Calls : Standing(d)
    BY <1>1, <1>2, <2>1, SameStanding DEF Accept, callVars, Same
  <2>. QED BY <2>2, <2>3, AllStanding, AgreeStep
<1>3. ASSUME NEW g \in GrantIds, RevokeGrant(g) PROVE Policy!Next
  <2>1. Consented' \subseteq Consented
    BY <1>3 DEF RevokeGrant, Consented, GrantIds
  <2>2. \A d \in Calls : Standing(d)
    BY <1>1, <1>3, SameStanding DEF RevokeGrant, callVars, Same, GrantsKept
  <2>. QED BY <2>1, <2>2, AllStanding, WithdrawStep
<1>4. ASSUME NEW c \in Calls, BeginCall(c) \/ BeginDirect(c) \/ Lookup(c)
      PROVE UNCHANGED Policy!vars
  <2>1. eff[c] = {} /\ eff' = eff /\ tool' = tool /\ runs' = runs
    BY <1>1, <1>4 DEF BeginCall, BeginDirect, Lookup, CallInv, Unverified
  <2>2. UNCHANGED <<grants, revoked>> /\ \A d \in Calls \ {c} : held'[d] = held[d]
    BY <1>1, <1>4, TypeFacts DEF BeginCall, BeginDirect, Lookup
  <2>3. Standing(c)
    BY <2>1 DEF Standing, LetThrough, Ran, Protected
  <2>4. \A d \in Calls \ {c} : Standing(d)
    BY <2>1, <2>2 DEF Standing, LetThrough, GrantFromThisSp, Ran, Protected
  <2>. QED BY <2>2, <2>3, <2>4, AllStanding DEF Consented, GrantIds
<1>5. ASSUME NEW c \in Calls,
             CallFails(c) \/ NoPresentation(c) \/ RejectVP(c) \/ DenyPolicy(c)
               \/ ConsentRefused(c)
      PROVE UNCHANGED Policy!vars
  <2>1. UNCHANGED <<grants, revoked, tool, held, eff, runs>>
    BY <1>5 DEF CallFails, NoPresentation, RejectVP, DenyPolicy, ConsentRefused
  <2>. QED BY <2>1, EndStutters
<1>6. ASSUME NEW c \in Calls, RunOpenTool(c) PROVE UNCHANGED Policy!vars
  <2>1. UNCHANGED <<grants, revoked, tool, held, eff>> /\ ~Protected(c)
    BY <1>6 DEF RunOpenTool
  <2>2. \A d \in Calls \ {c} : runs'[d] = runs[d]
    BY <1>1, <1>6 DEF RunOpenTool, Run, TypeOK
  <2>. QED BY <2>1, <2>2, EndStutters
<1>7. ASSUME NEW c \in Calls, VerifyVP(c) PROVE [Policy!Next]_Policy!vars
  BY <1>7, VerifyStep
<1>8. ASSUME NEW c \in Calls, RunTool(c) PROVE [Policy!Next]_Policy!vars
  BY <1>8, RunStep
<1>9. ASSUME NEW c \in Calls, NEW S \in SUBSET Scopes, ConsentObtained(c, S)
      PROVE Policy!Next
  BY <1>9, AgreementStep
<1>10. CASE UNCHANGED vars
  <2>1. \A d \in Calls : Standing(d)
    BY <1>10, <1>1, SameStanding DEF vars, Same, GrantsKept
  <2>. QED BY <1>10, <2>1, AllStanding DEF vars, Consented, GrantIds
<1>. QED
  BY <1>2, <1>3, <1>4, <1>5, <1>6, <1>7, <1>8, <1>9, <1>10 DEF Next, Gate, Prompted

(***************************************************************************)
(* The gate implements the consent policy.                                 *)
(***************************************************************************)
THEOREM GateImplementsPolicy == Spec => ImplementsPolicy
BY PolicyInit, PolicyNext, Invariance, PTL DEF Spec, ImplementsPolicy, Policy!Spec
===============================================================================
