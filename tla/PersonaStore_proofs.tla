------------------------- MODULE PersonaStore_proofs -------------------------
(***************************************************************************)
(* Proofs about PersonaStore, for every set of personas, processes, calls  *)
(* and any number of crashes.  The types hold always; that the store is    *)
(* one atomic registry, and keeps what it has answered for, holds as long  *)
(* as calls do not race and no write is cut short, and neither condition   *)
(* can be dropped.                                                         *)
(***************************************************************************)
EXTENDS PersonaStore, TLAPS

LEMMA EntryFacts ==
    /\ \A o \in Ops : o.id \in Ids /\ o.entry \in Entry /\ o.kind \in {"add", "update"}
    /\ \A e \in Entry : e.did \in Dids /\ e.link \in Links
    /\ \A e \in Entry, l \in Links : [e EXCEPT !.link = l] \in Entry
    /\ None \notin Entry
    /\ Empty \in Registry
    /\ Down \notin Registry
BY StoreAssumption DEF Ops, Entry, Empty, Registry

LEMMA ApplyType ==
    ASSUME NEW o \in Ops, NEW reg \in Registry, Applies(o, reg)
    PROVE  /\ Apply(o, reg) \in Registry
           /\ Apply(o, reg)[o.id] \in Entry
           /\ \A i \in Ids : reg[i] # None => Apply(o, reg)[i] # None
BY EntryFacts DEF Apply, Applies, Registry

LEMMA GotoType ==
    ASSUME TypeOK, NEW w \in Writers, NEW s \in Steps, Goto(w, s)
    PROVE  /\ step' \in [Writers -> Steps]
           /\ step'[w] = s
           /\ \A v \in Writers : v # w => step'[v] = step[v]
BY DEF TypeOK, Goto

LEMMA IdleType ==
    ASSUME TypeOK, NEW w \in Writers, Idle(w)
    PROVE  /\ step' \in [Writers -> Steps]
           /\ step'[w] = "idle"
           /\ \A v \in Writers : v # w => step'[v] = step[v]
           /\ op' \in [Writers -> Ops \cup {None}]
           /\ \A v \in Writers : v # w => op'[v] = op[v]
           /\ merged' \in [Writers -> Registry]
           /\ \A v \in Writers : v # w => merged'[v] = merged[v]
<1>1. "idle" \in Steps
  BY DEF Steps
<1>2. Goto(w, "idle") /\ op' = [op EXCEPT ![w] = None] /\ merged' = [merged EXCEPT ![w] = Empty]
  BY DEF Idle
<1>3. step' \in [Writers -> Steps] /\ step'[w] = "idle" /\ \A v \in Writers : v # w => step'[v] = step[v]
  BY <1>1, <1>2, GotoType
<1>4. op \in [Writers -> Ops \cup {None}] /\ merged \in [Writers -> Registry] /\ Empty \in Registry
  BY EntryFacts DEF TypeOK
<1> QED BY <1>2, <1>3, <1>4

(***************************************************************************)
(* Types.                                                                  *)
(***************************************************************************)
LEMMA TypeInit == Init => TypeOK
<1> SUFFICES ASSUME Init PROVE TypeOK
  OBVIOUS
<1>1. /\ file \in Registry
      /\ mem \in [Procs -> Registry \cup {Down}]
      /\ merged \in [Writers -> Registry]
  BY EntryFacts DEF Init
<1>2. /\ step \in [Writers -> Steps]
      /\ op \in [Writers -> Ops \cup {None}]
      /\ \A w \in Writers : step[w] = "idle"
  BY DEF Init, Steps
<1>3. failures \in 0 .. MaxFailures
  BY StoreAssumption DEF Init
<1>4. answered = {} /\ cut \in BOOLEAN
  BY DEF Init
<1> QED BY <1>1, <1>2, <1>3, <1>4 DEF TypeOK

LEMMA TypeNext ==
    ASSUME TypeOK, [Next]_vars
    PROVE  TypeOK'
<1> USE DEF TypeOK
<1>1. ASSUME NEW w \in Writers, NEW o \in Ops, Begin(w, o)
      PROVE  TypeOK'
  <2>1. "read" \in Steps
    BY DEF Steps
  <2>2. step' \in [Writers -> Steps] /\ \A v \in Writers : v # w => step'[v] = step[v]
    BY <1>1, <2>1, GotoType DEF Begin
  <2>3. op' \in [Writers -> Ops \cup {None}] /\ op'[w] = o /\ \A v \in Writers : v # w => op'[v] = op[v]
    BY <1>1 DEF Begin
  <2> QED BY <1>1, <2>2, <2>3 DEF Begin
<1>2. ASSUME NEW w \in Writers, Read(w)
      PROVE  TypeOK'
  <2>1. "open" \in Steps /\ step[w] = "read" /\ step[w] # "idle"
    BY <1>2 DEF Read, Steps
  <2>2. op[w] \in Ops /\ Applies(op[w], file)
    BY <1>2, <2>1 DEF Read
  <2>3. Apply(op[w], file) \in Registry
    BY <2>2, ApplyType
  <2>4. step' \in [Writers -> Steps] /\ \A v \in Writers : v # w => step'[v] = step[v]
    BY <1>2, <2>1, GotoType DEF Read
  <2>5. merged' \in [Writers -> Registry]
    BY <1>2, <2>3 DEF Read
  <2> QED BY <1>2, <2>2, <2>4, <2>5 DEF Read
<1>3. ASSUME NEW w \in Writers, Unknown(w)
      PROVE  TypeOK'
  BY <1>3, IdleType DEF Unknown
<1>4. ASSUME NEW w \in Writers, Open(w)
      PROVE  TypeOK'
  <2>1. "write" \in Steps /\ step[w] # "idle"
    BY <1>4 DEF Open, Steps
  <2>2. step' \in [Writers -> Steps] /\ \A v \in Writers : v # w => step'[v] = step[v]
    BY <1>4, <2>1, GotoType DEF Open
  <2> QED BY <1>4, <2>1, <2>2, EntryFacts DEF Open
<1>5. ASSUME NEW w \in Writers, Write(w)
      PROVE  TypeOK'
  <2>1. "install" \in Steps /\ step[w] # "idle"
    BY <1>5 DEF Write, Steps
  <2>2. step' \in [Writers -> Steps] /\ \A v \in Writers : v # w => step'[v] = step[v]
    BY <1>5, <2>1, GotoType DEF Write
  <2>3. file' \in Registry
    BY <1>5, EntryFacts DEF Write
  <2> QED BY <1>5, <2>1, <2>2, <2>3 DEF Write
<1>6. ASSUME NEW w \in Writers, Install(w)
      PROVE  TypeOK'
  <2>1. op[w] \in Ops
    BY <1>6 DEF Install
  <2>2. op[w].id \in Ids
    BY <2>1, EntryFacts
  <2>3. mem' \in [Procs -> Registry \cup {Down}]
    BY <1>6 DEF Install
  <2> QED BY <1>6, <2>2, <2>3, IdleType DEF Install
<1>7. ASSUME NEW w \in Writers, WriteFails(w)
      PROVE  TypeOK'
  BY <1>7, IdleType, StoreAssumption DEF WriteFails
<1>8. ASSUME NEW p \in Procs, Crash(p)
      PROVE  TypeOK'
  <2>1. step' \in [Writers -> Steps]
    BY <1>8 DEF Crash, Steps
  <2>2. op' \in [Writers -> Ops \cup {None}] /\ \A w \in Writers : step'[w] # "idle" => op'[w] \in Ops
    BY <1>8 DEF Crash
  <2>3. merged' \in [Writers -> Registry] /\ mem' \in [Procs -> Registry \cup {Down}]
    BY <1>8, EntryFacts DEF Crash
  <2>4. failures' \in 0 .. MaxFailures /\ cut' \in BOOLEAN
    BY <1>8, StoreAssumption DEF Crash
  <2> QED BY <1>8, <2>1, <2>2, <2>3, <2>4 DEF Crash
<1>9. ASSUME NEW p \in Procs, LoadPersonas(p)
      PROVE  TypeOK'
  BY <1>9 DEF LoadPersonas
<1>10. CASE UNCHANGED vars
  BY <1>10 DEF vars
<1> QED
  BY <1>1, <1>2, <1>3, <1>4, <1>5, <1>6, <1>7, <1>8, <1>9, <1>10 DEF Next, Call

\* The types of the store hold in every behaviour, with any failures and any
\* overlap.
THEOREM StoreTypeCorrect == Spec => []TypeOK
BY TypeInit, TypeNext, PTL DEF Spec

(***************************************************************************)
(* Calls that do not race.  The invariant: of two calls in progress one    *)
(* waits for the other's lock, so at most one is past its read; and unless *)
(* a write was cut short, what that call is about to write is the manifest *)
(* with its own entry merged in, the manifest is empty only under its      *)
(* hands, and manifest and maps have what was answered for.                *)
(***************************************************************************)
Busy == {"open", "write", "install"}

Disciplined ==
    \A v, w \in Writers :
        v # w /\ step[v] # "idle" /\ step[w] # "idle" => SameLock(v, w)

Alone ==
    \A v, w \in Writers : step[w] \in Busy /\ v # w => step[v] \in {"idle", "read"}

MergedIsCurrent ==
    \A w \in Writers :
        /\ step[w] = "open" => Applies(op[w], file) /\ merged[w] = Apply(op[w], file)
        /\ step[w] = "write" => file = Empty
        /\ step[w] = "install" => file = merged[w]
        /\ step[w] \in Busy => merged[w][op[w].id] \in Entry

AnswersCommitted == \A a \in answered : committed[a[2]] # None

AnswersKnown ==
    \A a \in answered : mem[a[1]] = Down \/ mem[a[1]][a[2]] # None

Data == MergedIsCurrent /\ AnswersCommitted /\ AnswersKnown

IInv ==
    /\ TypeOK
    /\ Disciplined
    /\ Alone
    /\ ~cut => Data

LEMMA StepFacts ==
    /\ "open" \in Busy /\ "write" \in Busy /\ "install" \in Busy
    /\ "idle" \notin Busy /\ "read" \notin Busy
    /\ "idle" # "read" /\ "open" # "write" /\ "install" # "write" /\ "open" # "install"
    /\ Busy \subseteq Steps /\ "idle" \in Steps /\ "read" \in Steps
BY DEF Busy, Steps

LEMMA InvInit == Init => IInv
<1> SUFFICES ASSUME Init PROVE IInv
  OBVIOUS
<1>1. TypeOK
  BY TypeInit
<1>2. (\A w \in Writers : step[w] = "idle") /\ answered = {}
  BY DEF Init
<1> QED BY <1>1, <1>2, StepFacts
    DEF IInv, Data, Alone, Disciplined, MergedIsCurrent, AnswersCommitted, AnswersKnown

(***************************************************************************)
(* Which calls are where.                                                  *)
(***************************************************************************)
\* How the steps of a call move it.
LEMMA MovesOf ==
    ASSUME TypeOK, NEW w \in Writers, Call(w)
    PROVE  /\ \A v \in Writers : v # w => step'[v] = step[v]
           /\ \/ step[w] = "idle" /\ step'[w] = "read"
              \/ step[w] = "read" /\ step'[w] \in {"open", "idle"} /\ Admitted(w)
              \/ step[w] \in Busy /\ step'[w] \in Busy \cup {"idle"}
<1>1. ASSUME NEW o \in Ops, Begin(w, o)
      PROVE  step[w] = "idle" /\ step'[w] = "read" /\ \A v \in Writers : v # w => step'[v] = step[v]
  BY <1>1, StepFacts, GotoType DEF Begin
<1>2. ASSUME Read(w)
      PROVE  /\ step[w] = "read" /\ step'[w] = "open" /\ Admitted(w)
             /\ \A v \in Writers : v # w => step'[v] = step[v]
  BY <1>2, StepFacts, GotoType DEF Read
<1>3. ASSUME Unknown(w)
      PROVE  /\ step[w] = "read" /\ step'[w] = "idle" /\ Admitted(w)
             /\ \A v \in Writers : v # w => step'[v] = step[v]
  BY <1>3, IdleType DEF Unknown
<1>4. ASSUME Open(w) \/ Write(w)
      PROVE  step[w] \in Busy /\ step'[w] \in Busy /\ \A v \in Writers : v # w => step'[v] = step[v]
  BY <1>4, StepFacts, GotoType DEF Open, Write
<1>5. ASSUME Install(w) \/ WriteFails(w)
      PROVE  step[w] \in Busy /\ step'[w] = "idle" /\ \A v \in Writers : v # w => step'[v] = step[v]
  BY <1>5, StepFacts, IdleType DEF Install, WriteFails
<1> QED BY <1>1, <1>2, <1>3, <1>4, <1>5 DEF Call

LEMMA DisciplineNext ==
    ASSUME ~Racing, TypeOK, Disciplined, Alone, [Next]_vars
    PROVE  Disciplined' /\ Alone'
<1>1. ASSUME NEW w \in Writers, Call(w)
      PROVE  Disciplined' /\ Alone'
  <2>1. \A v \in Writers : v # w => step'[v] = step[v]
    BY <1>1, MovesOf
  <2>2. CASE step[w] = "idle" /\ step'[w] = "read"
    <3>1. PICK o \in Ops : Begin(w, o)
      BY <1>1, <2>2, StepFacts DEF Call, Read, Unknown, Open, Write, Install, WriteFails
    <3>2. \A v \in Writers : step[v] = "idle" \/ SameLock(v, w)
      BY <3>1 DEF Begin
    <3>3. \A v \in Writers : SameLock(v, w) <=> SameLock(w, v)
      BY DEF SameLock
    <3> QED BY <2>1, <2>2, <3>2, <3>3, StepFacts DEF Disciplined, Alone
  <2>3. CASE step[w] = "read" /\ step'[w] \in {"open", "idle"} /\ Admitted(w)
    <3>1. \A v \in Writers : v # w => step[v] \in {"idle", "read"}
      BY <2>3, StepFacts DEF Disciplined, Admitted
    <3> QED BY <2>1, <2>3, <3>1, StepFacts DEF Disciplined, Alone
  <2>4. CASE step[w] \in Busy /\ step'[w] \in Busy \cup {"idle"}
    BY <2>1, <2>4, StepFacts DEF Disciplined, Alone
  <2> QED BY <1>1, <2>2, <2>3, <2>4, MovesOf
<1>2. ASSUME NEW p \in Procs, Crash(p)
      PROVE  Disciplined' /\ Alone'
  <2>1. \A v \in Writers : step'[v] = step[v] \/ step'[v] = "idle"
    BY <1>2 DEF Crash
  <2> QED BY <2>1, StepFacts DEF Disciplined, Alone
<1>3. CASE UNCHANGED step
  BY <1>3 DEF Disciplined, Alone
<1>4. CASE \E p \in Procs : LoadPersonas(p)
  BY <1>3, <1>4 DEF LoadPersonas
<1> QED BY <1>1, <1>2, <1>3, <1>4 DEF Next, vars

(***************************************************************************)
(* What the store has committed to, by what its calls are doing.           *)
(***************************************************************************)
CommittedCases ==
    /\ \A w \in Writers : step[w] = "write" => committed = merged[w]
    /\ (\A w \in Writers : step[w] # "write") => committed = file

LEMMA CommittedFacts == Alone => CommittedCases
<1> SUFFICES ASSUME Alone PROVE CommittedCases
  OBVIOUS
<1>1. ASSUME NEW w \in Writers, step[w] = "write"
      PROVE  committed = merged[w]
  <2>1. \A v \in Writers : step[v] = "write" => v = w
    BY <1>1, StepFacts DEF Alone
  <2>2. (CHOOSE v \in Writers : step[v] = "write") = w
    BY <1>1, <2>1
  <2> QED BY <1>1, <2>2 DEF committed, Quiet
<1> QED BY <1>1 DEF committed, Quiet, CommittedCases

LEMMA CommittedFactsNext == Alone' => CommittedCases'
BY CommittedFacts, PTL

\* If no writer begins or ends and the rest is as it was, the commitment is.
LEMMA CommittedSame ==
    ASSUME Alone, Alone', file' = file,
           \A v \in Writers : /\ step[v] = "write" <=> step'[v] = "write"
                              /\ step[v] = "write" => merged'[v] = merged[v]
    PROVE  committed' = committed
<1>1. CASE \E v \in Writers : step[v] = "write"
  <2>1. PICK v \in Writers : step[v] = "write"
    BY <1>1
  <2>2. committed = merged[v] /\ committed' = merged'[v]
    BY <2>1, CommittedFacts, CommittedFactsNext DEF CommittedCases
  <2> QED BY <2>1, <2>2
<1>2. CASE \A v \in Writers : step[v] # "write"
  <2>1. committed = file /\ committed' = file'
    BY <1>2, CommittedFacts, CommittedFactsNext DEF CommittedCases
  <2> QED BY <2>1
<1> QED BY <1>1, <1>2

(***************************************************************************)
(* What the data are.  Each lemma is one step of a call.                   *)
(***************************************************************************)
\* A call at work leaves the others at rest.
LEMMA OthersRest ==
    ASSUME Alone, NEW w \in Writers, step[w] \in Busy
    PROVE  \A v \in Writers : v # w => step[v] \notin Busy
BY StepFacts DEF Alone

LEMMA PromiseStep ==
    ASSUME NEW o \in Ops, file \in Registry, Applies(o, file),
           committed = file, committed' = Apply(o, file)
    PROVE  Promise!Next
<1>1. o.id \in Ids /\ o.entry \in Entry /\ o.kind \in {"add", "update"} /\ o.entry.link \in Links
  BY EntryFacts
<1>2. Entry = Promise!Entry
  BY DEF Entry, Promise!Entry
<1>3. CASE o.kind = "add"
  <2>1. Promise!Add(o.id, o.entry)
    BY <1>3 DEF Apply, Promise!Add
  <2> QED BY <1>1, <1>2, <2>1 DEF Promise!Next
<1>4. CASE o.kind = "update"
  <2>1. file[o.id] # None
    BY <1>4 DEF Applies
  <2>2. Promise!Update(o.id, o.entry.link)
    BY <1>4, <2>1 DEF Apply, Promise!Update
  <2> QED BY <1>1, <2>2 DEF Promise!Next
<1> QED BY <1>1, <1>3, <1>4

LEMMA BeginKeeps ==
    ASSUME TypeOK, Alone, Alone', Data, NEW w \in Writers, NEW o \in Ops, Begin(w, o)
    PROVE  Data' /\ committed' = committed
<1>1. /\ step[w] = "idle" /\ step'[w] = "read"
      /\ \A v \in Writers : v # w => step'[v] = step[v]
  BY StepFacts, GotoType DEF Begin
<1>2. /\ file' = file /\ merged' = merged /\ mem' = mem /\ answered' = answered
      /\ \A v \in Writers : v # w => op'[v] = op[v]
  BY DEF Begin, TypeOK
<1>3. committed' = committed
  BY <1>1, <1>2, CommittedSame
<1>4. MergedIsCurrent'
  BY <1>1, <1>2, StepFacts DEF Data, MergedIsCurrent
<1> QED BY <1>2, <1>3, <1>4 DEF Data, AnswersCommitted, AnswersKnown

LEMMA ReadKeeps ==
    ASSUME TypeOK, Alone, Alone', Data, NEW w \in Writers, Read(w)
    PROVE  Data' /\ committed' = committed
<1>1. /\ step[w] = "read" /\ step'[w] = "open"
      /\ \A v \in Writers : v # w => step'[v] = step[v]
  BY StepFacts, GotoType DEF Read
<1>2. \A v \in Writers : v # w => step'[v] \notin Busy
  BY <1>1, StepFacts DEF Alone
<1>3. /\ file' = file /\ op' = op /\ mem' = mem /\ answered' = answered
      /\ op[w] \in Ops /\ file \in Registry /\ Applies(op[w], file)
      /\ merged'[w] = Apply(op[w], file)
      /\ \A v \in Writers : v # w => merged'[v] = merged[v]
  BY <1>1, StepFacts DEF Read, TypeOK
<1>4. Apply(op[w], file)[op[w].id] \in Entry
  BY <1>3, ApplyType
<1>5. committed' = committed
  BY <1>1, <1>3, StepFacts, CommittedSame
<1>6. MergedIsCurrent'
  BY <1>1, <1>2, <1>3, <1>4, StepFacts DEF MergedIsCurrent
<1> QED BY <1>3, <1>5, <1>6 DEF Data, AnswersCommitted, AnswersKnown

LEMMA UnknownKeeps ==
    ASSUME TypeOK, Alone, Alone', Data, NEW w \in Writers, Unknown(w)
    PROVE  Data' /\ committed' = committed
<1>1. /\ step[w] = "read" /\ step'[w] = "idle"
      /\ \A v \in Writers :
            v # w => step'[v] = step[v] /\ op'[v] = op[v] /\ merged'[v] = merged[v]
  BY IdleType DEF Unknown
<1>2. file' = file /\ mem' = mem /\ answered' = answered
  BY DEF Unknown
<1>3. committed' = committed
  BY <1>1, <1>2, CommittedSame
<1>4. MergedIsCurrent'
  BY <1>1, <1>2, StepFacts DEF Data, MergedIsCurrent
<1> QED BY <1>2, <1>3, <1>4 DEF Data, AnswersCommitted, AnswersKnown

\* The call takes effect here.
LEMMA OpenKeeps ==
    ASSUME TypeOK, Alone, Alone', Data, NEW w \in Writers, Open(w)
    PROVE  Data' /\ Promise!Next
<1>1. /\ step[w] = "open" /\ step'[w] = "write"
      /\ \A v \in Writers : v # w => step'[v] = step[v]
  BY StepFacts, GotoType DEF Open
<1>2. \A v \in Writers : v # w => step[v] \notin Busy
  BY <1>1, StepFacts, OthersRest
<1>3. file' = Empty /\ mem' = mem /\ op' = op /\ merged' = merged /\ answered' = answered
  BY DEF Open
<1>4. /\ op[w] \in Ops /\ file \in Registry
      /\ Applies(op[w], file) /\ merged[w] = Apply(op[w], file)
      /\ merged[w][op[w].id] \in Entry
  BY <1>1, StepFacts DEF TypeOK, Data, MergedIsCurrent
<1>5. committed = file
  BY <1>1, <1>2, StepFacts, CommittedFacts DEF CommittedCases
<1>6. committed' = Apply(op[w], file)
  BY <1>1, <1>3, <1>4, CommittedFactsNext DEF CommittedCases
<1>7. Promise!Next
  BY <1>4, <1>5, <1>6, PromiseStep
<1>8. MergedIsCurrent'
  BY <1>1, <1>2, <1>3, <1>4, StepFacts DEF MergedIsCurrent
<1>9. AnswersCommitted'
  <2>1. \A a \in answered : a[2] \in Ids
    BY DEF TypeOK
  <2> QED BY <1>3, <1>4, <1>5, <1>6, <2>1, ApplyType DEF Data, AnswersCommitted
<1> QED BY <1>3, <1>7, <1>8, <1>9 DEF Data, AnswersKnown

LEMMA WriteKeeps ==
    ASSUME TypeOK, Alone, Alone', Data, NEW w \in Writers, Write(w)
    PROVE  Data' /\ committed' = committed
<1>1. /\ step[w] = "write" /\ step'[w] = "install"
      /\ \A v \in Writers : v # w => step'[v] = step[v]
  BY StepFacts, GotoType DEF Write
<1>2. \A v \in Writers : v # w => step[v] \notin Busy
  BY <1>1, StepFacts, OthersRest
<1>3. file = Empty /\ merged[w][op[w].id] \in Entry
  BY <1>1, StepFacts DEF Data, MergedIsCurrent
<1>4. /\ file' = merged[w] /\ mem' = mem /\ op' = op /\ merged' = merged
      /\ answered' = answered
  BY <1>3 DEF Write
<1>5. committed = merged[w]
  BY <1>1, CommittedFacts DEF CommittedCases
<1>6. committed' = file'
  BY <1>1, <1>2, StepFacts, CommittedFactsNext DEF CommittedCases
<1>7. MergedIsCurrent'
  BY <1>1, <1>2, <1>3, <1>4, StepFacts DEF MergedIsCurrent
<1> QED BY <1>4, <1>5, <1>6, <1>7 DEF Data, AnswersCommitted, AnswersKnown

LEMMA InstallKeeps ==
    ASSUME TypeOK, Alone, Alone', Data, NEW w \in Writers, Install(w)
    PROVE  Data' /\ committed' = committed
<1>1. /\ step[w] = "install" /\ step'[w] = "idle"
      /\ \A v \in Writers : v # w => step'[v] = step[v]
  BY IdleType DEF Install
<1>2. \A v \in Writers : v # w => step[v] \notin Busy
  BY <1>1, StepFacts, OthersRest
<1>3. file = merged[w] /\ merged[w][op[w].id] \in Entry
  BY <1>1, StepFacts DEF Data, MergedIsCurrent
<1>4. /\ file' = file
      /\ mem' = [mem EXCEPT ![ProcOf[w]] = file]
      /\ answered' = answered \cup {<<ProcOf[w], op[w].id>>}
  BY <1>3 DEF Install
<1>5. committed = file /\ committed' = file
  BY <1>1, <1>2, <1>4, StepFacts, CommittedFacts, CommittedFactsNext DEF CommittedCases
<1>6. MergedIsCurrent'
  BY <1>1, <1>2, StepFacts DEF MergedIsCurrent
<1>7. AnswersCommitted'
  <2>1. file[op[w].id] # None
    BY <1>3, EntryFacts
  <2> QED BY <1>4, <1>5, <2>1 DEF Data, AnswersCommitted
<1>8. AnswersKnown'
  <2> SUFFICES ASSUME NEW a \in answered'
               PROVE  mem'[a[1]] = Down \/ mem'[a[1]][a[2]] # None
    BY DEF AnswersKnown
  <2>1. file[a[2]] # None
    BY <1>5, <1>7 DEF AnswersCommitted
  <2>2. mem \in [Procs -> Registry \cup {Down}] /\ ProcOf[w] \in Procs
    BY StoreAssumption DEF TypeOK
  <2>3. CASE a[1] = ProcOf[w]
    BY <1>4, <2>1, <2>2, <2>3
  <2>4. CASE a[1] # ProcOf[w]
    <3>1. a \in answered
      BY <1>4, <2>4
    <3>2. a[1] \in Procs
      BY <3>1 DEF TypeOK
    <3>3. mem'[a[1]] = mem[a[1]]
      BY <1>4, <2>2, <2>4, <3>2
    <3> QED BY <3>1, <3>3 DEF Data, AnswersKnown
  <2> QED BY <2>3, <2>4
<1> QED BY <1>5, <1>6, <1>7, <1>8 DEF Data

\* A crash that interrupts no write.
LEMMA CrashKeeps ==
    ASSUME TypeOK, Alone, Alone', Data, NEW p \in Procs, Crash(p), ~cut'
    PROVE  Data' /\ committed' = committed
<1>1. \A w \in Writers : ProcOf[w] = p => step'[w] = "idle" /\ step[w] # "write"
  BY DEF Crash
<1>2. \A w \in Writers : ProcOf[w] # p =>
        step'[w] = step[w] /\ op'[w] = op[w] /\ merged'[w] = merged[w]
  BY DEF Crash
<1>3. file' = file /\ answered' = answered /\ mem' = [mem EXCEPT ![p] = Down]
  BY DEF Crash
<1>4. committed' = committed
  BY <1>1, <1>2, <1>3, CommittedSame
<1>5. MergedIsCurrent'
  BY <1>1, <1>2, <1>3, StepFacts DEF Data, MergedIsCurrent
<1>6. AnswersKnown'
  <2>1. mem \in [Procs -> Registry \cup {Down}] /\ \A a \in answered : a[1] \in Procs
    BY DEF TypeOK
  <2> QED BY <1>3, <2>1 DEF Data, AnswersKnown
<1> QED BY <1>3, <1>4, <1>5, <1>6 DEF Data, AnswersCommitted

LEMMA LoadKeeps ==
    ASSUME ~Racing, TypeOK, Alone, Alone', Data, NEW p \in Procs, LoadPersonas(p)
    PROVE  Data' /\ committed' = committed
<1>1. /\ file' = file /\ step' = step /\ op' = op /\ merged' = merged /\ answered' = answered
      /\ mem' = [mem EXCEPT ![p] = file]
      /\ \A w \in Writers : step[w] # "write"
  BY DEF LoadPersonas
<1>2. committed' = committed
  BY <1>1, CommittedSame
<1>3. committed = file
  BY <1>1, CommittedFacts DEF CommittedCases
<1>4. AnswersKnown'
  <2>1. mem \in [Procs -> Registry \cup {Down}] /\ \A a \in answered : a[1] \in Procs
    BY DEF TypeOK
  <2>2. \A a \in answered : file[a[2]] # None
    BY <1>3 DEF Data, AnswersCommitted
  <2> QED BY <1>1, <2>1, <2>2 DEF Data, AnswersKnown
<1>5. MergedIsCurrent'
  BY <1>1 DEF Data, MergedIsCurrent
<1> QED BY <1>1, <1>2, <1>4, <1>5 DEF Data, AnswersCommitted

LEMMA DataNext ==
    ASSUME ~Racing, TypeOK, Alone, Alone', Data, ~cut', [Next]_vars
    PROVE  Data' /\ [Promise!Next]_committed
<1>1. ASSUME NEW w \in Writers, Call(w)
      PROVE  Data' /\ (Promise!Next \/ committed' = committed)
  <2>1. ~WriteFails(w)
    BY DEF WriteFails
  <2> QED BY <1>1, <2>1, BeginKeeps, ReadKeeps, UnknownKeeps, OpenKeeps, WriteKeeps,
             InstallKeeps DEF Call
<1>2. ASSUME NEW p \in Procs, Crash(p) \/ LoadPersonas(p)
      PROVE  Data' /\ committed' = committed
  BY <1>2, CrashKeeps, LoadKeeps
<1>3. CASE UNCHANGED vars
  <2>1. /\ file' = file /\ mem' = mem /\ step' = step /\ op' = op /\ merged' = merged
        /\ answered' = answered
    BY <1>3 DEF vars
  <2>2. committed' = committed
    BY <2>1, CommittedSame
  <2> QED BY <2>1, <2>2 DEF Data, MergedIsCurrent, AnswersCommitted, AnswersKnown
<1> QED BY <1>1, <1>2, <1>3 DEF Next

\* Nothing mends a manifest that a cut write has truncated.
LEMMA CutStays ==
    ASSUME TypeOK, [Next]_vars, cut
    PROVE  cut'
<1>1. ASSUME NEW w \in Writers, Call(w)
      PROVE  cut'
  BY <1>1 DEF Call, Begin, Read, Unknown, Open, Write, Install, WriteFails
<1>2. ASSUME NEW p \in Procs, Crash(p) \/ LoadPersonas(p)
      PROVE  cut'
  BY <1>2 DEF Crash, LoadPersonas
<1> QED BY <1>1, <1>2 DEF Next, vars

LEMMA InvNext ==
    ASSUME ~Racing, IInv, [Next]_vars
    PROVE  IInv' /\ (Orderly' => [Promise!Next]_committed)
<1>1. TypeOK' /\ TypeOK /\ Alone
  BY TypeNext DEF IInv
<1>2. Disciplined' /\ Alone'
  BY DisciplineNext DEF IInv
<1>3. ASSUME ~cut'
      PROVE  Data' /\ [Promise!Next]_committed
  <2>1. Data
    BY <1>1, <1>3, CutStays DEF IInv
  <2> QED BY <1>1, <1>2, <1>3, <2>1, DataNext
<1> QED BY <1>1, <1>2, <1>3 DEF IInv, Orderly

LEMMA KeepsFromInv == IInv => AnsweredAreKept /\ AnsweredAreKnown
<1> SUFFICES ASSUME IInv PROVE AnsweredAreKept /\ AnsweredAreKnown
  OBVIOUS
<1>1. ASSUME ~cut, Quiet
      PROVE  \A a \in answered : file[a[2]] # None
  <2>1. committed = file
    BY <1>1 DEF committed
  <2> QED BY <1>1, <2>1 DEF IInv, Data, AnswersCommitted
<1> QED BY <1>1 DEF AnsweredAreKept, AnsweredAreKnown, Orderly, IInv, Data, AnswersKnown

LEMMA PromiseInit == Init => Promise!Init
<1> SUFFICES ASSUME Init PROVE committed \in Registry
  BY DEF Promise!Init, Promise!Entry, Registry, Entry
<1>1. Quiet
  BY DEF Init, Quiet
<1> QED BY <1>1, EntryFacts DEF Init, committed

\* What addPersona has answered for stays in the manifest, through crashes and
\* restarts, and the other process's registrations do not overwrite it.
THEOREM StoreKeepsAnswers == ~Racing => (Spec => []AnsweredAreKept)
<1>1. SUFFICES ASSUME ~Racing PROVE Spec => []AnsweredAreKept
  OBVIOUS
<1>2. IInv /\ [Next]_vars => IInv'
  BY <1>1, InvNext
<1> QED BY <1>2, InvInit, KeepsFromInv, PTL DEF Spec

\* Every process that is up has in its map what it has answered for, whichever
\* process wrote the manifest that it loaded.
THEOREM StoreKnowsAnswers == ~Racing => (Spec => []AnsweredAreKnown)
<1>1. SUFFICES ASSUME ~Racing PROVE Spec => []AnsweredAreKnown
  OBVIOUS
<1>2. IInv /\ [Next]_vars => IInv'
  BY <1>1, InvNext
<1> QED BY <1>2, InvInit, KeepsFromInv, PTL DEF Spec

\* Calls that do not race, of one process under its lock or one at a time, make
\* of a file that is read, truncated and written one atomic registry.
THEOREM StoreImplementsRegistry == ~Racing => (Spec => ImplementsRegistry)
<1>1. SUFFICES ASSUME ~Racing PROVE Spec => ImplementsRegistry
  OBVIOUS
<1>2. IInv /\ [Next]_vars => IInv' /\ (Orderly' => [Promise!Next]_committed)
  BY <1>1, InvNext
<1> QED BY <1>2, InvInit, PromiseInit, PTL DEF Spec, ImplementsRegistry
=============================================================================
