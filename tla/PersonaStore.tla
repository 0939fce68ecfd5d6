---------------------------- MODULE PersonaStore ----------------------------
(***************************************************************************)
(* The travel concierge's persona registry: personas/store.ts and its      *)
(* Python port.  A JSON manifest on a volume that the seeder and the agent *)
(* share, and a map in each process.  addPersona and updatePersona read    *)
(* the manifest, merge one entry, write the manifest and install what they *)
(* wrote as the process's map; every step is awaited.                      *)
(*                                                                         *)
(* readManifest treats a missing, an empty and an unparseable manifest     *)
(* alike: no personas.  A truncated or garbled file is therefore Empty.    *)
(***************************************************************************)
EXTENDS Naturals

CONSTANTS
    Ids, Dids, Links, None,
    Procs,        \* the processes: agent, seeder
    Writers,      \* calls of addPersona and updatePersona
    ProcOf,       \* the process of each
    Down,         \* the map of a process that is not running
    Lockers,      \* the processes whose lock excludes their calls (Python port)
    Racing,       \* may calls overlap that no lock excludes, or a process load
                  \* the manifest while another writes it?
    MaxFailures   \* bound on crashes and failed writes

ASSUME StoreAssumption ==
    /\ ProcOf \in [Writers -> Procs]
    /\ Racing \in BOOLEAN
    /\ MaxFailures \in Nat
    /\ None \notin [did : Dids, link : Links]
    /\ Down \notin [Ids -> [did : Dids, link : Links] \cup {None}]

VARIABLES
    file,      \* what readManifest would return
    mem,       \* each process's map, or Down
    step,      \* each call's next step
    op,        \* what it was called with
    merged,    \* what it is about to write
    answered,  \* <<process, id>> of the calls that have returned
    cut,       \* has a write been cut short after it truncated the manifest?
    failures   \* crashes and failed writes so far

vars == <<file, mem, step, op, merged, answered, cut, failures>>

Entry    == [did : Dids, link : Links]
Registry == [Ids -> Entry \cup {None}]
Empty    == [i \in Ids |-> None]

\* An update leaves the DID of its entry alone.
Ops   == [kind : {"add", "update"}, id : Ids, entry : Entry]
Steps == {"idle", "read", "open", "write", "install"}

TypeOK ==
    /\ file \in Registry
    /\ mem \in [Procs -> Registry \cup {Down}]
    /\ step \in [Writers -> Steps]
    /\ op \in [Writers -> Ops \cup {None}]
    /\ \A w \in Writers : step[w] # "idle" => op[w] \in Ops
    /\ merged \in [Writers -> Registry]
    /\ answered \subseteq Procs \X Ids
    /\ cut \in BOOLEAN
    /\ failures \in 0 .. MaxFailures

Init ==
    /\ file = Empty
    /\ mem = [p \in Procs |-> Empty]
    /\ step = [w \in Writers |-> "idle"]
    /\ op = [w \in Writers |-> None]
    /\ merged = [w \in Writers |-> Empty]
    /\ answered = {}
    /\ cut = FALSE
    /\ failures = 0

Goto(w, s) == step' = [step EXCEPT ![w] = s]

Idle(w) ==
    /\ Goto(w, "idle")
    /\ op' = [op EXCEPT ![w] = None]
    /\ merged' = [merged EXCEPT ![w] = Empty]

\* Mutant: an update replaces the entry by the patch.
Apply_PatchOnly(o, reg) ==
    [reg EXCEPT ![o.id] =
        IF o.kind = "add" THEN o.entry ELSE [link |-> o.entry.link]]

\* The merge of one call with what it has read.
Apply(o, reg) ==
    [reg EXCEPT ![o.id] =
        IF o.kind = "add" THEN o.entry ELSE [@ EXCEPT !.link = o.entry.link]]

Applies(o, reg) == o.kind = "add" \/ reg[o.id] # None
-----------------------------------------------------------------------------
SameLock(v, w) == ProcOf[v] = ProcOf[w] /\ ProcOf[w] \in Lockers

Begin(w, o) ==
    /\ step[w] = "idle"
    /\ mem[ProcOf[w]] # Down
    /\ Racing \/ \A v \in Writers : step[v] = "idle" \/ SameLock(v, w)
    /\ Goto(w, "read")
    /\ op' = [op EXCEPT ![w] = o]
    /\ UNCHANGED <<file, mem, merged, answered, cut, failures>>

\* Mutant: the lock covers the write only.
Admitted_Late(w) ==
    \A v \in Writers : SameLock(v, w) => step[v] \in {"idle", "read", "open"}

\* The lock of w's process is free.
Admitted(w) ==
    \A v \in Writers : SameLock(v, w) => step[v] \in {"idle", "read"}

\* Mutant: merge with the map instead of the manifest.
Read_Memory(w) ==
    /\ step[w] = "read"
    /\ Admitted(w)
    /\ Applies(op[w], mem[ProcOf[w]])
    /\ merged' = [merged EXCEPT ![w] = Apply(op[w], mem[ProcOf[w]])]
    /\ Goto(w, "open")
    /\ UNCHANGED <<file, mem, op, answered, cut, failures>>

\* Mutant: the caller is answered before the manifest is written.
Read_Unawaited(w) ==
    /\ step[w] = "read"
    /\ Admitted(w)
    /\ Applies(op[w], file)
    /\ merged' = [merged EXCEPT ![w] = Apply(op[w], file)]
    /\ answered' = answered \cup {<<ProcOf[w], op[w].id>>}
    /\ Goto(w, "open")
    /\ UNCHANGED <<file, mem, op, cut, failures>>

Read(w) ==
    /\ step[w] = "read"
    /\ Admitted(w)
    /\ Applies(op[w], file)
    /\ merged' = [merged EXCEPT ![w] = Apply(op[w], file)]
    /\ Goto(w, "open")
    /\ UNCHANGED <<file, mem, op, answered, cut, failures>>

\* updatePersona of an id that the manifest lacks: "Unknown persona".
Unknown(w) ==
    /\ step[w] = "read"
    /\ Admitted(w)
    /\ ~Applies(op[w], file)
    /\ Idle(w)
    /\ UNCHANGED <<file, mem, answered, cut, failures>>

\* writeFile opens the manifest for writing, which truncates it.
Open(w) ==
    /\ step[w] = "open"
    /\ file' = Empty
    /\ Goto(w, "write")
    /\ UNCHANGED <<mem, op, merged, answered, cut, failures>>

\* Over an empty file the text is the registry; over another writer's text it
\* may leave that text's tail, which is no JSON.
Write(w) ==
    /\ step[w] = "write"
    /\ file' \in IF file = Empty THEN {merged[w]} ELSE {merged[w], Empty}
    /\ Goto(w, "install")
    /\ UNCHANGED <<mem, op, merged, answered, cut, failures>>

\* Mutant: the map is left as it was.
Install_Forgotten(w) ==
    /\ step[w] = "install"
    /\ answered' = answered \cup {<<ProcOf[w], op[w].id>>}
    /\ Idle(w)
    /\ UNCHANGED <<file, mem, cut, failures>>

Install(w) ==
    /\ step[w] = "install"
    /\ mem' = [mem EXCEPT ![ProcOf[w]] = merged[w]]
    /\ answered' = answered \cup {<<ProcOf[w], op[w].id>>}
    /\ Idle(w)
    /\ UNCHANGED <<file, cut, failures>>

WriteFails(w) ==
    /\ step[w] = "write"
    /\ failures < MaxFailures
    /\ failures' = failures + 1
    /\ cut' = TRUE
    /\ Idle(w)
    /\ UNCHANGED <<file, mem, answered>>

Crash(p) ==
    /\ mem[p] # Down
    /\ failures < MaxFailures
    /\ failures' = failures + 1
    /\ cut' = (cut \/ \E w \in Writers : ProcOf[w] = p /\ step[w] = "write")
    /\ mem' = [mem EXCEPT ![p] = Down]
    /\ step' = [w \in Writers |-> IF ProcOf[w] = p THEN "idle" ELSE step[w]]
    /\ op' = [w \in Writers |-> IF ProcOf[w] = p THEN None ELSE op[w]]
    /\ merged' = [w \in Writers |-> IF ProcOf[w] = p THEN Empty ELSE merged[w]]
    /\ UNCHANGED <<file, answered>>

\* loadPersonas, before the process serves anything.
LoadPersonas(p) ==
    /\ mem[p] = Down
    /\ mem' = [mem EXCEPT ![p] = file]
    /\ Racing \/ \A w \in Writers : step[w] # "write"
    /\ UNCHANGED <<file, step, op, merged, answered, cut, failures>>

Call(w) ==
    \/ \E o \in Ops : Begin(w, o)
    \/ Read(w) \/ Unknown(w) \/ Open(w) \/ Write(w) \/ Install(w)
    \/ WriteFails(w)

Next ==
    \/ \E w \in Writers : Call(w)
    \/ \E p \in Procs : Crash(p) \/ LoadPersonas(p)

Spec == Init /\ [][Next]_vars
-----------------------------------------------------------------------------
(***************************************************************************)
(* Properties.                                                             *)
(***************************************************************************)

\* The manifest is not being written.
Quiet == \A w \in Writers : step[w] # "write"

\* No call meets another one in the middle of its work, and no write has been
\* cut short.
Orderly == ~Racing /\ ~cut

\* A persona whose addPersona has returned is in the manifest, so it survives
\* restarts, and neither the other process's entry nor an older one is lost
\* to it, as long as calls do not race and no write is cut short.  A crash
\* anywhere else loses nothing.
AnsweredAreKept == Orderly /\ Quiet => \A a \in answered : file[a[2]] # None

\* A process finds in its map every persona that it has answered for, after a
\* restart too: it can be selected, and its id is not given away again.
AnsweredAreKnown ==
    Orderly => \A a \in answered : mem[a[1]] = Down \/ mem[a[1]][a[2]] # None

\* A call takes effect when it truncates the manifest: nobody reads it before
\* the text is written.
committed ==
    IF Quiet THEN file ELSE merged[CHOOSE w \in Writers : step[w] = "write"]

Promise == INSTANCE PersonaRegistry WITH registry <- committed

\* Until calls race or a write is cut short, every step is one atomic step of
\* one registry, or none.
ImplementsRegistry ==
    Promise!Init /\ [][Orderly' => [Promise!Next]_committed]_vars
=============================================================================
