--------------------------- MODULE SpStore_proofs ---------------------------
(***************************************************************************)
(* Proofs about SpStore, for every set of requests, every number of status *)
(* list positions and crashes, both ports, overlapping or not.             *)
(***************************************************************************)
EXTENDS SpStore, TLAPS

(***************************************************************************)
(* Types of the values the actions build.                                  *)
(***************************************************************************)
LEMMA StateType ==
    /\ Fresh \in SpState
    /\ \A st \in SpState : st.list \in SUBSET Indices /\ st.grants \in SUBSET Accepts
    /\ \A l \in SUBSET Indices, g \in SUBSET Accepts :
          [list |-> l, grants |-> g] \in SpState
BY DEF Fresh, SpState

LEMMA FileType ==
    /\ \A st \in SpState : /\ File(st) \in Files
                           /\ File(st).st = st
                           /\ Readable(File(st))
                           /\ File(st).kind = "state"
    /\ \A k \in FileKinds : /\ NoText(k) \in Files
                            /\ NoText(k).st = Fresh
                            /\ NoText(k).kind = k
    /\ \A f \in Files : f.st \in SpState /\ f.kind \in FileKinds
BY StateType DEF File, NoText, Files, FileKinds, Readable

LEMMA HandlerFacts ==
    /\ \A a \in Accepts : a \in Requests /\ a \in Handlers /\ a # Boot /\ a \notin Revokes
    /\ \A r \in Revokes : r \in Requests /\ r \in Handlers /\ r # Boot /\ r \notin Accepts
    /\ \A h \in Requests : h \in Handlers /\ h # Boot
    /\ \A h \in Handlers : h \in Requests \/ h = Boot
    /\ Boot \in Handlers
BY ConstantsAssumption DEF Requests, Handlers

LEMMA ProgressFacts ==
    /\ {"idle", "resolving", "issuing", "finalized", "signing",
        "flush", "open", "write", "acked", "failed"} = Progress
BY DEF Progress, Waiting, FlushSteps, Ended

LEMMA AfterWriteOutcomes ==
  ASSUME NEW f \in Files, NEW st \in SpState
  PROVE  /\ AfterWrite(f, st) \subseteq {File(st), NoText("torn")}
         /\ f.kind = "empty" => AfterWrite(f, st) = {File(st)}
BY Zenon DEF AfterWrite

LEMMA InitTypeOK == Init => TypeOK
<1>. SUFFICES ASSUME Init PROVE TypeOK
  OBVIOUS
<1>1. index \in [Accepts -> Indices] /\ target \in [Revokes -> Accepts]
  <2>. DEFINE i0 == CHOOSE i \in Indices : TRUE
              a0 == CHOOSE a \in Accepts : TRUE
  <2>1. i0 \in Indices /\ a0 \in Accepts
    BY ConstantsAssumption
  <2>2. index = [a \in Accepts |-> i0] /\ target = [r \in Revokes |-> a0]
    BY DEF Init
  <2>. HIDE DEF i0, a0
  <2>. QED BY <2>1, <2>2
<1>2. crashes \in 0 .. MaxCrashes
  BY ConstantsAssumption DEF Init
<1>3. mem \in SpState /\ disk \in Files
  BY StateType, FileType DEF Init, FileKinds
<1>4. pc \in [Handlers -> Progress]
  BY ProgressFacts DEF Init
<1>5. snap \in [Requests -> SUBSET Indices] /\ payload \in [Handlers -> SpState]
  BY StateType DEF Init
<1>6. platform \in SUBSET Accepts /\ forgot \in BOOLEAN
  BY DEF Init
<1>7. port \in Ports /\ overlapped \in BOOLEAN
  BY DEF Init
<1>. QED
  BY <1>1, <1>2, <1>3, <1>4, <1>5, <1>6, <1>7 DEF TypeOK

LEMMA NextTypeOK == TypeOK /\ [Next]_vars => TypeOK'
<1>. SUFFICES ASSUME TypeOK, [Next]_vars PROVE TypeOK'
  OBVIOUS
<1>. USE HandlerFacts, ProgressFacts DEF TypeOK
<1>1. CASE OpenReads
  BY <1>1, FileType DEF OpenReads
<1>2. CASE OpenFresh
  BY <1>2, StateType DEF OpenFresh
<1>3. ASSUME NEW a \in Accepts, AcceptBegin(a) \/ AcceptSteps(a)
      PROVE TypeOK'
  <2>1. CASE AcceptBegin(a)
    BY <2>1 DEF AcceptBegin, BeginNow
  <2>2. CASE AcceptRejected(a)
    BY <2>2 DEF AcceptRejected
  <2>3. CASE IssueGrant(a)
    <3>1. PICK i \in Indices : index' = [index EXCEPT ![a] = i]
      BY <2>3 DEF IssueGrant
    <3>2. index' \in [Accepts -> Indices]
      BY <3>1
    <3>3. mem.list \in SUBSET Indices
      BY StateType
    <3>4. snap' \in [Requests -> SUBSET Indices]
      BY <2>3, <3>3 DEF IssueGrant
    <3>5. pc' \in [Handlers -> Progress]
      BY <2>3 DEF IssueGrant
    <3>. QED BY <2>3, <3>2, <3>4, <3>5 DEF IssueGrant
  <2>4. CASE Finalize(a)
    BY <2>4 DEF Finalize
  <2>5. CASE IssueFails(a)
    BY <2>5 DEF IssueFails
  <2>6. CASE RecordGrant(a)
    BY <2>6, StateType DEF RecordGrant
  <2>. QED BY <1>3, <2>1, <2>2, <2>3, <2>4, <2>5, <2>6 DEF AcceptSteps
<1>4. ASSUME NEW r \in Revokes,
             RevokeBegin(r) \/ ReplaceStatusList(r) \/ RevokeFails(r)
      PROVE TypeOK'
  <2>1. CASE RevokeBegin(r)
    <3>1. PICK g \in mem.grants : target' = [target EXCEPT ![r] = g]
      BY <2>1 DEF RevokeBegin
    <3>2. target' \in [Revokes -> Accepts]
      BY <3>1, StateType
    <3>3. mem.list \in SUBSET Indices
      BY StateType
    <3>4. snap' \in [Requests -> SUBSET Indices]
      BY <2>1, <3>3 DEF RevokeBegin
    <3>5. pc' \in [Handlers -> Progress]
      BY <2>1 DEF RevokeBegin
    <3>. QED BY <2>1, <3>2, <3>4, <3>5 DEF RevokeBegin, BeginNow
  <2>2. CASE ReplaceStatusList(r)
    <3>1. mem' = [list |-> snap[r] \cup {index[target[r]]}, grants |-> mem.grants]
      BY <2>2 DEF ReplaceStatusList, SpState
    <3>2. mem' \in SpState
      <4>1. /\ snap[r] \cup {index[target[r]]} \in SUBSET Indices
            /\ mem.grants \in SUBSET Accepts
        BY StateType
      <4>. QED BY <3>1, <4>1, StateType
    <3>3. pc' \in [Handlers -> Progress]
      BY <2>2 DEF ReplaceStatusList
    <3>. QED BY <2>2, <3>2, <3>3 DEF ReplaceStatusList
  <2>3. CASE RevokeFails(r)
    BY <2>3 DEF RevokeFails
  <2>. QED BY <1>4, <2>1, <2>2, <2>3
<1>5. ASSUME NEW h \in Handlers, FlushStep(h) \/ FlushFails(h)
      PROVE TypeOK'
  <2>1. CASE Serialize(h)
    BY <2>1 DEF Serialize
  <2>2. CASE Truncate(h)
    BY <2>2, FileType DEF Truncate, FileKinds
  <2>3. CASE WriteText(h)
    BY <2>3, AfterWriteOutcomes, FileType DEF WriteText, FileKinds
  <2>4. CASE FlushFails(h)
    BY <2>4 DEF FlushFails
  <2>. QED BY <1>5, <2>1, <2>2, <2>3, <2>4 DEF FlushStep
<1>6. CASE Crash
  BY <1>6, StateType, ConstantsAssumption DEF Crash, InFlight
<1>7. CASE UNCHANGED vars
  BY <1>7 DEF vars
<1>. QED
  BY <1>1, <1>2, <1>3, <1>4, <1>5, <1>6, <1>7 DEF Next

(***************************************************************************)
(* Every variable of the ledger keeps its type, in every behaviour.        *)
(***************************************************************************)
THEOREM TypeCorrect == Spec => []TypeOK
BY InitTypeOK, NextTypeOK, PTL DEF Spec

(***************************************************************************)
(* What is in the ledger is finalized, wherever the ledger is.             *)
(***************************************************************************)
Finalized ==
    /\ mem.grants \subseteq platform
    /\ disk.st.grants \subseteq platform
    /\ \A h \in Handlers : payload[h].grants \subseteq platform
    /\ \A a \in Accepts : pc[a] = "finalized" => a \in platform

LEMMA InitFinalized == Init => Finalized
BY DEF Init, Finalized, Fresh, NoText, File, Handlers, Requests

LEMMA NextFinalized == TypeOK /\ Finalized /\ [Next]_vars => Finalized'
<1>. SUFFICES ASSUME TypeOK, Finalized, [Next]_vars PROVE Finalized'
  OBVIOUS
<1>. USE HandlerFacts DEF TypeOK, Finalized
<1>1. CASE OpenReads
  BY <1>1 DEF OpenReads
<1>2. CASE OpenFresh
  BY <1>2 DEF OpenFresh, Fresh
<1>3. ASSUME NEW a \in Accepts, AcceptBegin(a) \/ AcceptSteps(a)
      PROVE Finalized'
  <2>1. CASE AcceptBegin(a)
    BY <2>1 DEF AcceptBegin
  <2>2. CASE AcceptRejected(a)
    BY <2>2 DEF AcceptRejected
  <2>3. CASE IssueGrant(a)
    BY <2>3 DEF IssueGrant
  <2>4. CASE Finalize(a)
    BY <2>4 DEF Finalize
  <2>5. CASE IssueFails(a)
    BY <2>5 DEF IssueFails
  <2>6. CASE RecordGrant(a)
    <3>1. mem'.grants = mem.grants \cup {a} /\ a \in platform
      BY <2>6 DEF RecordGrant
    <3>. QED BY <2>6, <3>1 DEF RecordGrant
  <2>. QED BY <1>3, <2>1, <2>2, <2>3, <2>4, <2>5, <2>6 DEF AcceptSteps
<1>4. ASSUME NEW r \in Revokes,
             RevokeBegin(r) \/ ReplaceStatusList(r) \/ RevokeFails(r)
      PROVE Finalized'
  <2>1. CASE RevokeBegin(r)
    BY <2>1 DEF RevokeBegin
  <2>2. CASE ReplaceStatusList(r)
    <3>1. mem'.grants = mem.grants
      BY <2>2 DEF ReplaceStatusList, SpState
    <3>. QED BY <2>2, <3>1 DEF ReplaceStatusList
  <2>3. CASE RevokeFails(r)
    BY <2>3 DEF RevokeFails
  <2>. QED BY <1>4, <2>1, <2>2, <2>3
<1>5. ASSUME NEW h \in Handlers, FlushStep(h) \/ FlushFails(h)
      PROVE Finalized'
  <2>1. CASE Serialize(h)
    BY <2>1 DEF Serialize
  <2>2. CASE Truncate(h)
    BY <2>2 DEF Truncate, NoText, Fresh
  <2>3. CASE WriteText(h)
    <3>1. disk' = File(payload[h]) \/ disk' = NoText("torn")
      BY <2>3, AfterWriteOutcomes DEF WriteText
    <3>2. disk'.st.grants \subseteq platform
      BY <3>1 DEF File, NoText, Fresh
    <3>. QED BY <2>3, <3>2 DEF WriteText
  <2>4. CASE FlushFails(h)
    BY <2>4 DEF FlushFails
  <2>. QED BY <1>5, <2>1, <2>2, <2>3, <2>4 DEF FlushStep
<1>6. CASE Crash
  BY <1>6 DEF Crash, InFlight, Waiting, FlushSteps, Fresh
<1>7. CASE UNCHANGED vars
  BY <1>7 DEF vars
<1>. QED
  BY <1>1, <1>2, <1>3, <1>4, <1>5, <1>6, <1>7 DEF Next

(***************************************************************************)
(* A set bit, wherever the list is, is the position of a grant that a      *)
(* revocation names.  The position of a finalized grant does not change.   *)
(***************************************************************************)
Named(i) == \E r \in Revokes : pc[r] # "idle" /\ index[target[r]] = i

Positions ==
    /\ \A i \in mem.list : Named(i)
    /\ \A i \in disk.st.list : Named(i)
    /\ \A h \in Handlers : \A i \in payload[h].list : Named(i)
    /\ \A h \in Requests : \A i \in snap[h] : Named(i)
    /\ \A r \in Revokes : pc[r] # "idle" => target[r] \in platform
    /\ \A a \in platform : pc[a] \notin {"idle", "resolving", "issuing"}

LEMMA InitPositions == Init => Positions
BY HandlerFacts DEF Init, Positions, Fresh, NoText, File

LEMMA NextPositions == TypeOK /\ Finalized /\ Positions /\ [Next]_vars => Positions'
<1>. SUFFICES ASSUME TypeOK, Finalized, Positions, [Next]_vars PROVE Positions'
  OBVIOUS
<1>. USE HandlerFacts DEF TypeOK
<1>1. CASE OpenReads
  <2>1. \A i : Named(i) => Named(i)'
    BY <1>1 DEF OpenReads, Named
  <2>. QED BY <1>1, <2>1 DEF OpenReads, Positions
<1>2. CASE OpenFresh
  <2>1. \A i : Named(i) => Named(i)'
    BY <1>2 DEF OpenFresh, Named
  <2>. QED BY <1>2, <2>1 DEF OpenFresh, Positions, Fresh
<1>3. ASSUME NEW a \in Accepts, AcceptBegin(a) \/ AcceptSteps(a)
      PROVE Positions'
  <2>1. CASE AcceptBegin(a)
    <3>1. \A i : Named(i) => Named(i)'
      BY <2>1 DEF AcceptBegin, Named
    <3>2. a \notin platform
      BY <2>1 DEF AcceptBegin, Positions
    <3>. QED BY <2>1, <3>1, <3>2 DEF AcceptBegin, Positions
  <2>2. CASE AcceptRejected(a)
    <3>1. \A i : Named(i) => Named(i)'
      BY <2>2 DEF AcceptRejected, Named
    <3>. QED BY <2>2, <3>1 DEF AcceptRejected, Positions
  <2>3. CASE IssueGrant(a)
    <3>1. a \notin platform
      BY <2>3 DEF IssueGrant, Positions
    <3>2. PICK j \in Indices : index' = [index EXCEPT ![a] = j]
      BY <2>3 DEF IssueGrant
    <3>3. \A g \in Accepts : g # a => index'[g] = index[g]
      BY <3>2
    <3>4. \A r \in Revokes : pc[r] # "idle" => /\ pc'[r] = pc[r] /\ target'[r] = target[r]
                                               /\ index'[target[r]] = index[target[r]]
      BY <2>3, <3>1, <3>3 DEF IssueGrant, Positions
    <3>5. \A i : Named(i) => Named(i)'
      BY <3>4 DEF Named
    <3>6. \A h \in Requests : snap'[h] = snap[h] \/ snap'[h] = mem.list
      BY <2>3 DEF IssueGrant
    <3>7. \A h \in Requests : \A i \in snap'[h] : Named(i)'
      BY <3>5, <3>6 DEF Positions
    <3>8. \A b \in platform : pc'[b] = pc[b]
      BY <2>3, <3>1 DEF IssueGrant
    <3>9. \A r \in Revokes : pc'[r] = pc[r]
      BY <2>3 DEF IssueGrant
    <3>. QED BY <2>3, <3>5, <3>7, <3>8, <3>9 DEF IssueGrant, Positions
  <2>4. CASE Finalize(a)
    <3>1. \A i : Named(i) => Named(i)'
      BY <2>4 DEF Finalize, Named
    <3>. QED BY <2>4, <3>1 DEF Finalize, Positions
  <2>5. CASE IssueFails(a)
    <3>1. \A i : Named(i) => Named(i)'
      BY <2>5 DEF IssueFails, Named
    <3>. QED BY <2>5, <3>1 DEF IssueFails, Positions
  <2>6. CASE RecordGrant(a)
    <3>1. \A i : Named(i) => Named(i)'
      BY <2>6 DEF RecordGrant, Named
    <3>2. mem'.list = snap[a]
      BY <2>6 DEF RecordGrant
    <3>. QED BY <2>6, <3>1, <3>2 DEF RecordGrant, Positions
  <2>. QED BY <1>3, <2>1, <2>2, <2>3, <2>4, <2>5, <2>6 DEF AcceptSteps
<1>4. ASSUME NEW r \in Revokes,
             RevokeBegin(r) \/ ReplaceStatusList(r) \/ RevokeFails(r)
      PROVE Positions'
  <2>1. CASE RevokeBegin(r)
    <3>1. PICK g \in mem.grants : target' = [target EXCEPT ![r] = g]
      BY <2>1 DEF RevokeBegin
    <3>2. g \in platform
      BY DEF Finalized
    <3>3. \A q \in Revokes : pc[q] # "idle" => pc'[q] # "idle" /\ target'[q] = target[q]
      BY <2>1, <3>1 DEF RevokeBegin
    <3>4. \A i : Named(i) => Named(i)'
      BY <2>1, <3>3 DEF RevokeBegin, Named
    <3>5. \A h \in Requests : snap'[h] = snap[h] \/ snap'[h] = mem.list
      BY <2>1 DEF RevokeBegin
    <3>6. \A h \in Requests : \A i \in snap'[h] : Named(i)'
      BY <3>4, <3>5 DEF Positions
    <3>7. \A q \in Revokes : pc'[q] # "idle" => target'[q] \in platform
      BY <2>1, <3>1, <3>2 DEF RevokeBegin, Positions
    <3>8. \A b \in platform : pc'[b] = pc[b]
      BY <2>1 DEF RevokeBegin
    <3>. QED BY <2>1, <3>4, <3>6, <3>7, <3>8 DEF RevokeBegin, Positions
  <2>2. CASE ReplaceStatusList(r)
    <3>1. \A i : Named(i) => Named(i)'
      BY <2>2 DEF ReplaceStatusList, Named
    <3>2. mem'.list = snap[r] \cup {index[target[r]]}
      BY <2>2 DEF ReplaceStatusList, SpState
    <3>3. Named(index[target[r]])
      BY <2>2 DEF ReplaceStatusList, Named
    <3>4. \A i \in mem'.list : Named(i)'
      BY <3>1, <3>2, <3>3 DEF Positions
    <3>. QED BY <2>2, <3>1, <3>4 DEF ReplaceStatusList, Positions
  <2>3. CASE RevokeFails(r)
    <3>1. \A i : Named(i) => Named(i)'
      BY <2>3 DEF RevokeFails, Named
    <3>. QED BY <2>3, <3>1 DEF RevokeFails, Positions
  <2>. QED BY <1>4, <2>1, <2>2, <2>3
<1>5. ASSUME NEW h \in Handlers, FlushStep(h) \/ FlushFails(h)
      PROVE Positions'
  <2>. DEFINE Flushes == pc[h] \in FlushSteps /\ \E p \in {"open", "write", "acked", "failed"} :
                            pc' = [pc EXCEPT ![h] = p]
  <2>0. /\ Flushes
        /\ index' = index /\ target' = target /\ snap' = snap /\ platform' = platform /\ mem' = mem
    BY <1>5 DEF FlushStep, FlushFails, Serialize, Truncate, WriteText, FlushSteps
  <2>1. /\ \A g \in Handlers : pc[g] # "idle" => pc'[g] # "idle"
        /\ \A b \in platform : pc'[b] \notin {"idle", "resolving", "issuing"}
        /\ \A g \in Handlers : pc'[g] # "idle" => pc[g] # "idle"
    BY <2>0 DEF Positions, FlushSteps
  <2>2. \A i : Named(i) => Named(i)'
    BY <2>0, <2>1 DEF Named
  <2>3. \A g \in Handlers : payload'[g] = payload[g] \/ payload'[g] = mem
    BY <1>5 DEF FlushStep, FlushFails, Serialize, Truncate, WriteText
  <2>4. \A g \in Handlers : \A i \in payload'[g].list : Named(i)'
    BY <2>2, <2>3 DEF Positions
  <2>5. disk'.st = disk.st \/ disk'.st = Fresh \/ disk'.st = payload[h]
    <3>1. CASE Serialize(h) \/ FlushFails(h)
      BY <3>1 DEF Serialize, FlushFails
    <3>2. CASE Truncate(h)
      BY <3>2 DEF Truncate, NoText
    <3>3. CASE WriteText(h)
      BY <3>3, AfterWriteOutcomes DEF WriteText, File, NoText
    <3>. QED BY <1>5, <3>1, <3>2, <3>3 DEF FlushStep
  <2>6. \A i \in disk'.st.list : Named(i)'
    BY <2>2, <2>5 DEF Positions, Fresh
  <2>. QED BY <2>0, <2>1, <2>2, <2>4, <2>6 DEF Positions
<1>6. CASE Crash
  <2>1. \A g \in Handlers : g # Boot => (pc'[g] # "idle" <=> pc[g] # "idle")
    BY <1>6 DEF Crash, InFlight, Waiting, FlushSteps
  <2>2. \A i : Named(i) => Named(i)'
    BY <1>6, <2>1 DEF Crash, Named
  <2>3. \A b \in platform : pc'[b] \notin {"idle", "resolving", "issuing"}
    BY <1>6 DEF Crash, InFlight, Waiting, FlushSteps, Positions
  <2>. QED BY <1>6, <2>1, <2>2, <2>3 DEF Crash, Positions, Fresh
<1>7. CASE UNCHANGED vars
  BY <1>7 DEF vars, Positions, Named
<1>. QED
  BY <1>1, <1>2, <1>3, <1>4, <1>5, <1>6, <1>7 DEF Next

(***************************************************************************)
(* Up to the first crash, what is recorded stays in memory: no request is  *)
(* handled before the boot is over, and no other step replaces the ledger. *)
(***************************************************************************)
Recorded ==
    crashes = 0 =>
        /\ ~Serving => \A h \in Requests : pc[h] = "idle"
        /\ \A a \in Accepts : pc[a] \in FlushSteps \cup {"acked"} => a \in mem.grants

LEMMA InitRecorded == Init => Recorded
BY HandlerFacts DEF Init, Recorded, FlushSteps

LEMMA NextRecorded == TypeOK /\ Recorded /\ [Next]_vars => Recorded'
<1>. SUFFICES ASSUME TypeOK, Recorded, [Next]_vars, crashes' = 0
     PROVE  /\ ~Serving' => \A h \in Requests : pc'[h] = "idle"
            /\ \A a \in Accepts : pc'[a] \in FlushSteps \cup {"acked"} => a \in mem'.grants
  BY DEF Recorded, Serving
<1>. USE HandlerFacts DEF TypeOK, Recorded, Serving, FlushSteps
<1>1. CASE OpenReads
  BY <1>1 DEF OpenReads
<1>2. CASE OpenFresh
  BY <1>2 DEF OpenFresh
<1>3. ASSUME NEW a \in Accepts, AcceptBegin(a) \/ AcceptSteps(a)
      PROVE  /\ ~Serving' => \A h \in Requests : pc'[h] = "idle"
             /\ \A b \in Accepts : pc'[b] \in FlushSteps \cup {"acked"} => b \in mem'.grants
  <2>1. CASE AcceptBegin(a)
    BY <2>1 DEF AcceptBegin
  <2>2. CASE AcceptRejected(a)
    BY <2>2 DEF AcceptRejected
  <2>3. CASE IssueGrant(a)
    BY <2>3 DEF IssueGrant
  <2>4. CASE Finalize(a)
    BY <2>4 DEF Finalize
  <2>5. CASE IssueFails(a)
    BY <2>5 DEF IssueFails
  <2>6. CASE RecordGrant(a)
    <3>1. mem'.grants = mem.grants \cup {a}
      BY <2>6 DEF RecordGrant
    <3>. QED BY <2>6, <3>1 DEF RecordGrant
  <2>. QED BY <1>3, <2>1, <2>2, <2>3, <2>4, <2>5, <2>6 DEF AcceptSteps
<1>4. ASSUME NEW r \in Revokes,
             RevokeBegin(r) \/ ReplaceStatusList(r) \/ RevokeFails(r)
      PROVE  /\ ~Serving' => \A h \in Requests : pc'[h] = "idle"
             /\ \A b \in Accepts : pc'[b] \in FlushSteps \cup {"acked"} => b \in mem'.grants
  <2>1. CASE RevokeBegin(r)
    BY <2>1 DEF RevokeBegin
  <2>2. CASE ReplaceStatusList(r)
    <3>1. mem'.grants = mem.grants
      BY <2>2 DEF ReplaceStatusList, SpState
    <3>. QED BY <2>2, <3>1 DEF ReplaceStatusList
  <2>3. CASE RevokeFails(r)
    BY <2>3 DEF RevokeFails
  <2>. QED BY <1>4, <2>1, <2>2, <2>3
<1>5. ASSUME NEW h \in Handlers, FlushStep(h) \/ FlushFails(h)
      PROVE  /\ ~Serving' => \A g \in Requests : pc'[g] = "idle"
             /\ \A b \in Accepts : pc'[b] \in FlushSteps \cup {"acked"} => b \in mem'.grants
  BY <1>5 DEF FlushStep, FlushFails, Serialize, Truncate, WriteText
<1>6. ~Crash
  BY DEF Crash
<1>7. CASE UNCHANGED vars
  BY <1>7 DEF vars
<1>. QED
  BY <1>1, <1>2, <1>3, <1>4, <1>5, <1>6, <1>7 DEF Next

(***************************************************************************)
(* One request at a time.  A flush then finds the file as it left it and   *)
(* writes the memory as it is, and a list captured before an await is      *)
(* still the list when it is installed.                                    *)
(***************************************************************************)
Truncated(h)  == pc[h] = "write" \/ (port = "py" /\ pc[h] = "open")
Serialized(h) == pc[h] = "write" \/ (port = "ts" /\ pc[h] = "open")

BootFirst ==
    /\ pc[Boot] \in {"idle", "acked"} \cup FlushSteps
    /\ ~Serving => \A h \in Requests : ~InFlight(h)
    /\ port = "py" => ~forgot

OneAtATime ==
    ~overlapped =>
        /\ \A g, h \in Requests : InFlight(g) /\ InFlight(h) => g = h
        /\ \A h \in Handlers : Truncated(h) => disk.kind = "empty"
        /\ \A h \in Handlers : Serialized(h) => payload[h] = mem
        /\ \A h \in Requests :
              pc[h] \in {"issuing", "finalized", "signing"} => snap[h] = mem.list

LEMMA SoleHandler ==
  ASSUME BootFirst, OneAtATime, ~overlapped, NEW g \in Handlers, InFlight(g)
  PROVE  \A h \in Handlers : h # g => ~InFlight(h)
BY HandlerFacts DEF BootFirst, OneAtATime, InFlight, Serving, Waiting, FlushSteps

\* What a step of a flush does, whichever it is.
LEMMA FlushEffect ==
  ASSUME TypeOK, NEW h \in Handlers, FlushStep(h) \/ FlushFails(h)
  PROVE  /\ pc[h] \in FlushSteps
         /\ \E p \in {"open", "write", "acked", "failed"} :
               /\ pc' = [pc EXCEPT ![h] = p]
               /\ p = "failed" => h # Boot
         /\ mem' = mem /\ snap' = snap /\ index' = index /\ target' = target
         /\ platform' = platform /\ forgot' = forgot /\ port' = port
         /\ overlapped' = overlapped
BY DEF FlushStep, FlushFails, Serialize, Truncate, WriteText, FlushSteps, TypeOK

LEMMA InitBootFirst == Init => BootFirst
BY HandlerFacts DEF Init, BootFirst, InFlight, Waiting, FlushSteps

LEMMA NextBootFirst == TypeOK /\ BootFirst /\ [Next]_vars => BootFirst'
<1>. SUFFICES ASSUME TypeOK, BootFirst, [Next]_vars PROVE BootFirst'
  OBVIOUS
<1>. USE HandlerFacts DEF TypeOK, BootFirst, Serving, InFlight, Waiting, FlushSteps
<1>1. CASE OpenReads
  BY <1>1 DEF OpenReads
<1>2. CASE OpenFresh
  BY <1>2 DEF OpenFresh, StartsFreshTs, StartsFreshPy
<1>3. ASSUME NEW a \in Accepts, AcceptBegin(a) \/ AcceptSteps(a)
      PROVE BootFirst'
  <2>1. CASE AcceptBegin(a)
    BY <2>1 DEF AcceptBegin
  <2>2. CASE AcceptRejected(a)
    BY <2>2 DEF AcceptRejected
  <2>3. CASE IssueGrant(a)
    BY <2>3 DEF IssueGrant
  <2>4. CASE Finalize(a)
    BY <2>4 DEF Finalize
  <2>5. CASE IssueFails(a)
    BY <2>5 DEF IssueFails
  <2>6. CASE RecordGrant(a)
    BY <2>6 DEF RecordGrant
  <2>. QED BY <1>3, <2>1, <2>2, <2>3, <2>4, <2>5, <2>6 DEF AcceptSteps
<1>4. ASSUME NEW r \in Revokes,
             RevokeBegin(r) \/ ReplaceStatusList(r) \/ RevokeFails(r)
      PROVE BootFirst'
  <2>1. CASE RevokeBegin(r)
    BY <2>1 DEF RevokeBegin
  <2>2. CASE ReplaceStatusList(r)
    BY <2>2 DEF ReplaceStatusList
  <2>3. CASE RevokeFails(r)
    BY <2>3 DEF RevokeFails
  <2>. QED BY <1>4, <2>1, <2>2, <2>3
<1>5. ASSUME NEW h \in Handlers, FlushStep(h) \/ FlushFails(h)
      PROVE BootFirst'
  BY <1>5, FlushEffect
<1>6. CASE Crash
  BY <1>6 DEF Crash
<1>7. CASE UNCHANGED vars
  BY <1>7 DEF vars
<1>. QED
  BY <1>1, <1>2, <1>3, <1>4, <1>5, <1>6, <1>7 DEF Next

LEMMA InitOneAtATime == Init => OneAtATime
BY HandlerFacts DEF Init, OneAtATime, Truncated, Serialized, InFlight, Waiting, FlushSteps

LEMMA NextOneAtATime ==
    TypeOK /\ BootFirst /\ OneAtATime /\ [Next]_vars => OneAtATime'
<1>. SUFFICES ASSUME TypeOK, BootFirst, OneAtATime, [Next]_vars, ~overlapped'
     PROVE  /\ \A g, h \in Requests : InFlight(g)' /\ InFlight(h)' => g = h
            /\ \A h \in Handlers : Truncated(h)' => disk'.kind = "empty"
            /\ \A h \in Handlers : Serialized(h)' => payload'[h] = mem'
            /\ \A h \in Requests :
                  pc'[h] \in {"issuing", "finalized", "signing"} => snap'[h] = mem'.list
  BY DEF OneAtATime
<1>. DEFINE Goal ==
       /\ \A g, h \in Requests : InFlight(g)' /\ InFlight(h)' => g = h
       /\ \A h \in Handlers : Truncated(h)' => disk'.kind = "empty"
       /\ \A h \in Handlers : Serialized(h)' => payload'[h] = mem'
       /\ \A h \in Requests :
             pc'[h] \in {"issuing", "finalized", "signing"} => snap'[h] = mem'.list
<1>0. ~overlapped
  BY DEF Next, OpenReads, OpenFresh, AcceptBegin, BeginNow, AcceptSteps, AcceptRejected,
         IssueGrant, Finalize, IssueFails, RecordGrant, RevokeBegin, ReplaceStatusList,
         RevokeFails, FlushStep, Serialize, Truncate, WriteText, FlushFails, Crash, vars
<1>. USE <1>0, HandlerFacts
         DEF TypeOK, OneAtATime, InFlight, Waiting, FlushSteps, Truncated, Serialized
<1>1. CASE OpenReads
  BY <1>1 DEF OpenReads, BootFirst, Serving
<1>2. CASE OpenFresh
  BY <1>2 DEF OpenFresh, BootFirst, Serving
<1>3. ASSUME NEW a \in Accepts, AcceptBegin(a) \/ AcceptSteps(a)
      PROVE Goal
  <2>1. CASE AcceptBegin(a)
    BY <2>1 DEF AcceptBegin, BeginNow
  <2>2. CASE AcceptRejected(a)
    BY <2>2 DEF AcceptRejected
  <2>3. CASE IssueGrant(a)
    <3>1. snap'[a] = mem.list
      BY <2>3 DEF IssueGrant
    <3>. QED BY <2>3, <3>1 DEF IssueGrant
  <2>4. CASE Finalize(a)
    BY <2>4 DEF Finalize
  <2>5. CASE IssueFails(a)
    BY <2>5 DEF IssueFails
  <2>6. CASE RecordGrant(a)
    <3>1. \A h \in Handlers : h # a => ~InFlight(h)
      BY <2>6, SoleHandler DEF RecordGrant
    <3>. QED BY <2>6, <3>1 DEF RecordGrant
  <2>. QED BY <1>3, <2>1, <2>2, <2>3, <2>4, <2>5, <2>6 DEF AcceptSteps
<1>4. ASSUME NEW r \in Revokes,
             RevokeBegin(r) \/ ReplaceStatusList(r) \/ RevokeFails(r)
      PROVE Goal
  <2>1. CASE RevokeBegin(r)
    <3>1. snap'[r] = mem.list
      BY <2>1 DEF RevokeBegin
    <3>. QED BY <2>1, <3>1 DEF RevokeBegin, BeginNow
  <2>2. CASE ReplaceStatusList(r)
    <3>1. \A h \in Handlers : h # r => ~InFlight(h)
      BY <2>2, SoleHandler DEF ReplaceStatusList
    <3>. QED BY <2>2, <3>1 DEF ReplaceStatusList
  <2>3. CASE RevokeFails(r)
    BY <2>3 DEF RevokeFails
  <2>. QED BY <1>4, <2>1, <2>2, <2>3
<1>5. ASSUME NEW h \in Handlers, FlushStep(h) \/ FlushFails(h)
      PROVE Goal
  <2>0. \A g \in Handlers : g # h => ~InFlight(g)
    BY <1>5, FlushEffect, SoleHandler
  <2>1. CASE Serialize(h)
    <3>1. port \in {"ts", "py"} /\ payload'[h] = mem
      BY <2>1, ConstantsAssumption DEF Serialize
    <3>. QED BY <2>0, <2>1, <3>1 DEF Serialize
  <2>2. CASE Truncate(h)
    <3>1. disk'.kind = "empty"
      BY <2>2 DEF Truncate, NoText
    <3>. QED BY <2>0, <2>2, <3>1 DEF Truncate
  <2>3. CASE WriteText(h)
    BY <2>0, <2>3 DEF WriteText
  <2>4. CASE FlushFails(h)
    BY <2>0, <2>4 DEF FlushFails
  <2>. QED BY <1>5, <2>1, <2>2, <2>3, <2>4 DEF FlushStep
<1>6. CASE Crash
  BY <1>6 DEF Crash
<1>7. CASE UNCHANGED vars
  BY <1>7 DEF vars
<1>. QED
  BY <1>1, <1>2, <1>3, <1>4, <1>5, <1>6, <1>7 DEF Next

(***************************************************************************)
(* As long as nothing has failed, the file follows the memory: they differ *)
(* only while a request is flushing.                                       *)
(***************************************************************************)
FileFollows ==
    (~overlapped /\ Serving /\ \A h \in Requests : pc[h] \notin FlushSteps \cup {"failed"})
        => disk = File(mem)

LEMMA InitFileFollows == Init => FileFollows
BY HandlerFacts DEF Init, FileFollows, Serving

\* The text a flush wrote is the memory: it was alone.
LEMMA WriteIsMemory ==
  ASSUME TypeOK, OneAtATime, ~overlapped, NEW h \in Handlers, WriteText(h)
  PROVE  disk' = File(mem)
<1>1. disk.kind = "empty" /\ payload[h] = mem
  BY DEF WriteText, OneAtATime, Truncated, Serialized
<1>2. disk \in Files /\ mem \in SpState
  BY DEF TypeOK
<1>. QED BY <1>1, <1>2, AfterWriteOutcomes DEF WriteText

LEMMA NextFileFollows ==
    TypeOK /\ BootFirst /\ OneAtATime /\ FileFollows /\ [Next]_vars => FileFollows'
<1>. SUFFICES ASSUME TypeOK, BootFirst, OneAtATime, FileFollows, [Next]_vars,
                     ~overlapped', Serving',
                     \A h \in Requests : pc'[h] \notin FlushSteps \cup {"failed"}
     PROVE  disk' = File(mem')
  BY DEF FileFollows, File
<1>0. ~overlapped
  BY DEF Next, OpenReads, OpenFresh, AcceptBegin, BeginNow, AcceptSteps, AcceptRejected,
         IssueGrant, Finalize, IssueFails, RecordGrant, RevokeBegin, ReplaceStatusList,
         RevokeFails, FlushStep, Serialize, Truncate, WriteText, FlushFails, Crash, vars
<1>. USE <1>0, HandlerFacts DEF TypeOK, Serving, FlushSteps
<1>1. CASE OpenReads
  BY <1>1 DEF OpenReads, Files, File, Readable
<1>2. ~OpenFresh /\ ~Crash
  BY DEF OpenFresh, Crash
<1>3. ASSUME NEW a \in Accepts, AcceptBegin(a) \/ AcceptSteps(a)
      PROVE disk' = File(mem')
  <2>1. CASE AcceptBegin(a)
    BY <2>1 DEF AcceptBegin, FileFollows
  <2>2. ~AcceptRejected(a) /\ ~IssueFails(a) /\ ~RecordGrant(a)
    BY DEF AcceptRejected, IssueFails, RecordGrant
  <2>3. CASE IssueGrant(a)
    BY <2>3 DEF IssueGrant, FileFollows
  <2>4. CASE Finalize(a)
    BY <2>4 DEF Finalize, FileFollows
  <2>. QED BY <1>3, <2>1, <2>2, <2>3, <2>4 DEF AcceptSteps
<1>4. ASSUME NEW r \in Revokes,
             RevokeBegin(r) \/ ReplaceStatusList(r) \/ RevokeFails(r)
      PROVE disk' = File(mem')
  <2>1. ~ReplaceStatusList(r) /\ ~RevokeFails(r)
    BY DEF ReplaceStatusList, RevokeFails
  <2>2. CASE RevokeBegin(r)
    BY <2>2 DEF RevokeBegin, FileFollows
  <2>. QED BY <1>4, <2>1, <2>2
<1>5. ASSUME NEW h \in Handlers, FlushStep(h) \/ FlushFails(h)
      PROVE disk' = File(mem')
  <2>1. ~Serialize(h) /\ ~Truncate(h) /\ ~FlushFails(h)
    BY DEF Serialize, Truncate, FlushFails
  <2>2. CASE WriteText(h)
    BY <2>2, WriteIsMemory DEF WriteText
  <2>. QED BY <1>5, <2>1, <2>2 DEF FlushStep
<1>6. CASE UNCHANGED vars
  BY <1>6 DEF vars, FileFollows
<1>. QED
  BY <1>1, <1>2, <1>3, <1>4, <1>5, <1>6 DEF Next

(***************************************************************************)
(* What has been answered is in memory while the server serves, and in the *)
(* file whenever the file is readable; until something has been written,   *)
(* nothing has been answered.                                              *)
(***************************************************************************)
AnsweredIn(st) ==
    /\ Acknowledged \subseteq st.grants
    /\ \A g \in Revoked : index[g] \in st.list

NothingAnswered == Acknowledged = {} /\ Revoked = {}

Kept ==
    ~overlapped /\ ~forgot =>
        /\ Serving => AnsweredIn(mem)
        /\ Readable(disk) => AnsweredIn(disk.st)
        /\ disk.kind = "absent" \/ pc[Boot] \in FlushSteps => NothingAnswered
        /\ \A a \in Accepts : pc[a] \in FlushSteps => a \in mem.grants
        /\ \A r \in Revokes : pc[r] \in FlushSteps => index[target[r]] \in mem.list

LEMMA InitKept == Init => Kept
BY HandlerFacts
   DEF Init, Kept, AnsweredIn, NothingAnswered, Acknowledged, Revoked, Serving, FlushSteps

\* A step that answers nobody, and leaves alone the positions and targets of
\* the answers already given, leaves alone what has been answered.
LEMMA SameAnswers ==
  ASSUME \A h \in Requests : pc[h] = "acked" <=> pc'[h] = "acked",
         \A r \in Revokes : pc[r] = "acked" =>
             target'[r] = target[r] /\ index'[target[r]] = index[target[r]]
  PROVE  /\ NothingAnswered <=> NothingAnswered'
         /\ \A st : AnsweredIn(st) <=> /\ Acknowledged' \subseteq st.grants
                                       /\ \A g \in Revoked' : index'[g] \in st.list
<1>1. Acknowledged' = Acknowledged
  BY HandlerFacts DEF Acknowledged
<1>2. Revoked' = Revoked /\ \A g \in Revoked : index'[g] = index[g]
  BY HandlerFacts DEF Revoked
<1>. QED BY <1>1, <1>2 DEF NothingAnswered, AnsweredIn

LEMMA NextKept ==
    TypeOK /\ Finalized /\ Positions /\ BootFirst /\ OneAtATime /\ Kept /\ [Next]_vars
        => Kept'
<1>. SUFFICES ASSUME TypeOK, Finalized, Positions, BootFirst, OneAtATime, Kept,
                     [Next]_vars, ~overlapped', ~forgot'
     PROVE  /\ Serving' => AnsweredIn(mem)'
            /\ Readable(disk)' => AnsweredIn(disk.st)'
            /\ disk'.kind = "absent" \/ pc'[Boot] \in FlushSteps => NothingAnswered'
            /\ \A a \in Accepts : pc'[a] \in FlushSteps => a \in mem'.grants
            /\ \A r \in Revokes : pc'[r] \in FlushSteps => index'[target'[r]] \in mem'.list
  BY DEF Kept, FlushSteps
<1>. DEFINE Goal ==
       /\ Serving' => AnsweredIn(mem)'
       /\ Readable(disk)' => AnsweredIn(disk.st)'
       /\ disk'.kind = "absent" \/ pc'[Boot] \in FlushSteps => NothingAnswered'
       /\ \A a \in Accepts : pc'[a] \in FlushSteps => a \in mem'.grants
       /\ \A r \in Revokes : pc'[r] \in FlushSteps => index'[target'[r]] \in mem'.list
     Same == /\ \A h \in Requests : pc[h] = "acked" <=> pc'[h] = "acked"
             /\ \A r \in Revokes : pc[r] = "acked" =>
                   target'[r] = target[r] /\ index'[target[r]] = index[target[r]]
<1>0. ~overlapped /\ ~forgot
  BY DEF TypeOK, Next, OpenReads, OpenFresh, AcceptBegin, BeginNow, AcceptSteps, AcceptRejected,
         IssueGrant, Finalize, IssueFails, RecordGrant, RevokeBegin, ReplaceStatusList,
         RevokeFails, FlushStep, Serialize, Truncate, WriteText, FlushFails, Crash, vars
\* What Kept says of this state, to be cited in place of its definition.
<1>k. /\ Serving => AnsweredIn(mem)
      /\ Readable(disk) => AnsweredIn(disk.st)
      /\ disk.kind = "absent" \/ pc[Boot] \in FlushSteps => NothingAnswered
      /\ \A a \in Accepts : pc[a] \in FlushSteps => a \in mem.grants
      /\ \A r \in Revokes : pc[r] \in FlushSteps => index[target[r]] \in mem.list
  BY <1>0 DEF Kept
\* A step that answers nobody: what was answered is what is to be kept.
<1>s. ASSUME Same
      PROVE  /\ NothingAnswered <=> NothingAnswered'
             /\ AnsweredIn(mem)' <=> AnsweredIn(mem')
             /\ AnsweredIn(disk.st)' <=> AnsweredIn(disk'.st)
  <2>1. \A st : AnsweredIn(st) <=> /\ Acknowledged' \subseteq st.grants
                                  /\ \A g \in Revoked' : index'[g] \in st.list
    BY <1>s, SameAnswers
  <2>2. NothingAnswered <=> NothingAnswered'
    BY <1>s, SameAnswers
  <2>3. AnsweredIn(mem)' <=> AnsweredIn(mem')
    BY <2>1 DEF AnsweredIn
  <2>4. AnsweredIn(disk.st)' <=> AnsweredIn(disk'.st)
    BY <2>1 DEF AnsweredIn
  <2>. QED BY <2>2, <2>3, <2>4
\* A state that holds what another holds has been answered as much.
<1>m. ASSUME NEW s, NEW t, s.grants \subseteq t.grants, s.list \subseteq t.list, AnsweredIn(s)
      PROVE  AnsweredIn(t)
  BY <1>m DEF AnsweredIn
<1>. HIDE DEF Same
<1>. USE <1>0, HandlerFacts DEF TypeOK, Serving, FlushSteps, Readable
<1>1. CASE OpenReads
  <2>1. Same
    BY <1>1 DEF OpenReads, Same
  <2>2. AnsweredIn(mem') /\ disk' = disk
    BY <1>1, <1>k DEF OpenReads
  <2>. QED BY <1>1, <1>k, <1>s, <2>1, <2>2 DEF OpenReads, BootFirst, InFlight, Waiting
<1>2. CASE OpenFresh
  <2>1. Same
    BY <1>2 DEF OpenFresh, Same
  <2>2. disk.kind = "absent"
    BY <1>2 DEF OpenFresh
  <2>3. NothingAnswered'
    BY <2>1, <2>2, <1>k, <1>s
  <2>. QED BY <1>2, <2>2, <2>3 DEF OpenFresh, BootFirst, InFlight, Waiting
<1>3. ASSUME NEW a \in Accepts, AcceptBegin(a) \/ AcceptSteps(a)
      PROVE Goal
  <2>1. CASE AcceptBegin(a)
    <3>1. Same
      BY <2>1 DEF AcceptBegin, Same
    <3>. QED BY <2>1, <3>1, <1>k, <1>s DEF AcceptBegin
  <2>2. CASE AcceptRejected(a)
    <3>1. Same
      BY <2>2 DEF AcceptRejected, Same
    <3>. QED BY <2>2, <3>1, <1>k, <1>s DEF AcceptRejected
  <2>3. CASE IssueGrant(a)
    <3>1. PICK i \in Indices : index' = [index EXCEPT ![a] = i]
      BY <2>3 DEF IssueGrant
    <3>2. \A r \in Revokes : pc[r] # "idle" => index'[target[r]] = index[target[r]]
      BY <2>3, <3>1 DEF IssueGrant, Positions
    <3>3. Same
      BY <2>3, <3>2 DEF IssueGrant, Same
    <3>4. \A r \in Revokes : pc'[r] \in FlushSteps => index'[target'[r]] \in mem'.list
      BY <2>3, <3>2, <1>k DEF IssueGrant
    <3>. QED BY <2>3, <3>3, <3>4, <1>k, <1>s DEF IssueGrant
  <2>4. CASE Finalize(a)
    <3>1. Same
      BY <2>4 DEF Finalize, Same
    <3>. QED BY <2>4, <3>1, <1>k, <1>s DEF Finalize
  <2>5. CASE IssueFails(a)
    <3>1. Same
      BY <2>5 DEF IssueFails, Same
    <3>. QED BY <2>5, <3>1, <1>k, <1>s DEF IssueFails
  <2>6. CASE RecordGrant(a)
    <3>1. Same
      BY <2>6 DEF RecordGrant, Same
    <3>2. mem'.list = mem.list /\ mem'.grants = mem.grants \cup {a}
      BY <2>6 DEF RecordGrant, OneAtATime
    <3>3. AnsweredIn(mem) => AnsweredIn(mem')
      BY <3>2, <1>m
    <3>. QED BY <2>6, <3>1, <3>2, <3>3, <1>k, <1>s DEF RecordGrant
  <2>. QED BY <1>3, <2>1, <2>2, <2>3, <2>4, <2>5, <2>6 DEF AcceptSteps
<1>4. ASSUME NEW r \in Revokes,
             RevokeBegin(r) \/ ReplaceStatusList(r) \/ RevokeFails(r)
      PROVE Goal
  <2>1. CASE RevokeBegin(r)
    <3>1. PICK g \in mem.grants : target' = [target EXCEPT ![r] = g]
      BY <2>1 DEF RevokeBegin
    <3>2. \A q \in Revokes : q # r => target'[q] = target[q] /\ pc'[q] = pc[q]
      BY <2>1, <3>1 DEF RevokeBegin
    <3>3. Same
      BY <2>1, <3>2 DEF RevokeBegin, Same
    <3>4. \A q \in Revokes : pc'[q] \in FlushSteps => index'[target'[q]] \in mem'.list
      BY <2>1, <3>2, <1>k DEF RevokeBegin
    <3>. QED BY <2>1, <3>3, <3>4, <1>k, <1>s DEF RevokeBegin
  <2>2. CASE ReplaceStatusList(r)
    <3>1. Same
      BY <2>2 DEF ReplaceStatusList, Same
    <3>2. mem'.list = mem.list \cup {index[target[r]]} /\ mem'.grants = mem.grants
      BY <2>2 DEF ReplaceStatusList, OneAtATime, SpState
    <3>3. AnsweredIn(mem) => AnsweredIn(mem')
      BY <3>2, <1>m
    <3>. QED BY <2>2, <3>1, <3>2, <3>3, <1>k, <1>s DEF ReplaceStatusList
  <2>3. CASE RevokeFails(r)
    <3>1. Same
      BY <2>3 DEF RevokeFails, Same
    <3>. QED BY <2>3, <3>1, <1>k, <1>s DEF RevokeFails
  <2>. QED BY <1>4, <2>1, <2>2, <2>3
<1>5. ASSUME NEW h \in Handlers, FlushStep(h) \/ FlushFails(h)
      PROVE Goal
  <2>0. /\ pc[h] \in FlushSteps
        /\ mem' = mem /\ index' = index /\ target' = target
    BY <1>5, FlushEffect
  <2>1. CASE Serialize(h)
    <3>1. Same
      BY <2>1 DEF Serialize, Same
    <3>. QED BY <2>1, <3>1, <1>k, <1>s DEF Serialize
  <2>2. CASE Truncate(h)
    <3>1. Same
      BY <2>2 DEF Truncate, Same
    <3>2. disk'.kind = "empty"
      BY <2>2 DEF Truncate, NoText
    <3>. QED BY <2>2, <3>1, <3>2, <1>k, <1>s DEF Truncate
  <2>3. CASE WriteText(h)
    <3>1. disk' = File(mem)
      BY <2>3, WriteIsMemory
    <3>2. disk'.kind = "state" /\ disk'.st = mem /\ mem' = mem
      BY <2>0, <3>1 DEF File
    <3>3. CASE h = Boot
      <4>1. Same
        BY <2>3, <3>3 DEF WriteText, Same
      <4>2. NothingAnswered /\ NothingAnswered'
        BY <2>0, <3>3, <4>1, <1>k, <1>s
      <4>3. AnsweredIn(mem)' /\ AnsweredIn(disk.st)'
        BY <4>2 DEF AnsweredIn, NothingAnswered
      <4>. QED BY <2>3, <3>2, <3>3, <4>2, <4>3, <1>k DEF WriteText
    <3>4. CASE h # Boot
      <4>1. Serving
        BY <2>0, <3>4 DEF BootFirst, InFlight, Waiting
      <4>2. Acknowledged' \subseteq Acknowledged \cup {h}
        BY <2>3 DEF WriteText, Acknowledged
      <4>3. \A g \in Revoked' : g \in Revoked \/ (h \in Revokes /\ g = target[h])
        BY <2>3, <2>0 DEF WriteText, Revoked
      <4>4. AnsweredIn(mem)'
        BY <2>0, <4>1, <4>2, <4>3, <1>k DEF AnsweredIn, Acknowledged
      <4>5. AnsweredIn(disk.st)'
        BY <4>4, <3>2 DEF AnsweredIn
      <4>. QED BY <2>3, <3>2, <3>4, <4>1, <4>4, <4>5, <1>k DEF WriteText
    <3>. QED BY <3>3, <3>4
  <2>4. CASE FlushFails(h)
    <3>1. Same
      BY <2>4 DEF FlushFails, Same
    <3>. QED BY <2>4, <3>1, <1>k, <1>s DEF FlushFails
  <2>. QED BY <1>5, <2>1, <2>2, <2>3, <2>4 DEF FlushStep
<1>6. CASE Crash
  <2>1. Same
    BY <1>6 DEF Crash, InFlight, Waiting, Same
  <2>. QED BY <1>6, <2>1, <1>k, <1>s DEF Crash, InFlight, Waiting
<1>7. CASE UNCHANGED vars
  <2>1. Same
    BY <1>7 DEF vars, Same
  <2>. QED BY <1>7, <2>1, <1>k, <1>s DEF vars
<1>. QED
  BY <1>1, <1>2, <1>3, <1>4, <1>5, <1>6, <1>7 DEF Next

(***************************************************************************)
(* The theorems.                                                           *)
(***************************************************************************)
LEMMA Invariance == Spec => [](TypeOK /\ Finalized /\ Positions /\ Recorded)
BY InitTypeOK, InitFinalized, InitPositions, InitRecorded,
   NextTypeOK, NextFinalized, NextPositions, NextRecorded, PTL DEF Spec

LEMMA SequentialInvariance == Spec => [](BootFirst /\ OneAtATime /\ FileFollows /\ Kept)
BY Invariance, InitBootFirst, InitOneAtATime, InitFileFollows, InitKept,
   NextBootFirst, NextOneAtATime, NextFileFollows, NextKept, PTL DEF Spec

\* recordGrant comes after issueGrant: whatever overlaps, fails or crashes, no
\* grant that the HelixID API has not finalized reaches the ledger or its file.
THEOREM FinalizedLedger == Spec => []LedgerIsFinalized
<1>1. ASSUME Finalized
      PROVE  LedgerIsFinalized
  BY <1>1 DEF Finalized, LedgerIsFinalized
<1>. QED
  BY <1>1, Invariance, PTL

\* replaceStatusList installs a list captured before an await: it may drop a
\* bit, but never sets one that no revocation asked for.
THEOREM NobodyElseRevoked == Spec => []BitsAreRevocations
<1>1. ASSUME Positions
      PROVE  BitsAreRevocations
  BY <1>1 DEF Positions, Named, BitsAreRevocations, RevokeBegun
<1>. QED
  BY <1>1, Invariance, PTL

\* recordGrant pushes onto the live ledger: until a crash, an answered accept
\* stays in it whatever else runs.
THEOREM AnsweredAreRecorded == Spec => []AckedGrantsInLedger
<1>1. ASSUME Recorded
      PROVE  AckedGrantsInLedger
  BY <1>1 DEF Recorded, AckedGrantsInLedger, Acknowledged
<1>. QED
  BY <1>1, Invariance, PTL

\* One request at a time, over any number of crashes and failed flushes: while
\* the server serves, answered accepts are in the ledger and the bits of
\* answered revocations are set, unless SpStore.open has started fresh on a
\* file it could not read (TypeScript); the Python port never does.
THEOREM AnswersKept == Spec => []KeptUnlessForgotten
<1>1. ASSUME BootFirst, Kept, port \in Ports
      PROVE  KeptUnlessForgotten
  BY <1>1, ConstantsAssumption
     DEF BootFirst, Kept, KeptUnlessForgotten, AnswersAreKept, AnsweredIn
<1>2. TypeOK => port \in Ports
  BY DEF TypeOK
<1>. QED
  BY <1>1, <1>2, Invariance, SequentialInvariance, PTL

\* One request at a time and none failed: between requests the file is the
\* ledger, so that a restart loses nothing.
THEOREM QuietFile == Spec => []QuietFileIsLedger
<1>1. ASSUME FileFollows
      PROVE  QuietFileIsLedger
  BY <1>1 DEF FileFollows, QuietFileIsLedger, InFlight, Waiting
<1>. QED
  BY <1>1, SequentialInvariance, PTL
=============================================================================
