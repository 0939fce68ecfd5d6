------------------------------- MODULE SpStore -------------------------------
(***************************************************************************)
(* The ledger of one service provider (SP) of the consent demo: the grants *)
(* it has signed, its status list, and the JSON file that carries both     *)
(* over a restart (examples/e2e-consent-demo/sp-shared/store.ts), under    *)
(* the handlers that write it: POST /api/consent/accept (app.ts), the      *)
(* SP's revocation procedure, and the boot of the server (serve.ts).       *)
(*                                                                         *)
(* Every await of those handlers is a step boundary here: other handlers   *)
(* run between two steps of one handler, and the process may be killed     *)
(* there.  The Python port (e2e-consent-demo-py/sp_shared) has the same    *)
(* handlers on threads; it differs in two places only, which the variable  *)
(* port selects: the order of the steps of a flush, and what opening an    *)
(* unreadable file does.                                                   *)
(*                                                                         *)
(* A grant is named by the accept request that issued it.                  *)
(***************************************************************************)
EXTENDS Naturals

CONSTANTS
    Accepts,      \* invocations of POST /api/consent/accept
    Revokes,      \* invocations of the revocation procedure
    Boot,         \* the boot of the server, which may itself flush
    Indices,      \* positions of the status list
    Ports,        \* the ports that may be running: "ts", "py"
    MaxCrashes    \* bound on process crashes

ASSUME ConstantsAssumption ==
    /\ Accepts \cap Revokes = {}
    /\ Boot \notin Accepts \cup Revokes
    /\ Indices # {}
    /\ Accepts # {}
    /\ Ports \subseteq {"ts", "py"}
    /\ MaxCrashes \in Nat

Requests == Accepts \cup Revokes
Handlers == Requests \cup {Boot}

VARIABLES
    mem,       \* SpStore.state: [list: revoked positions, grants: recorded grants]
    disk,      \* the state file
    pc,        \* progress of each handler
    snap,      \* the status list a handler captured before its await
    payload,   \* the JSON text a flush is about to write
    index,     \* status list position of each grant
    target,    \* the grant a revocation is about
    platform,  \* grants the HelixID API has finalized
    forgot,    \* has an unreadable file been replaced by a fresh state?
    crashes,   \* number of crashes so far
    port,      \* which port this is
    overlapped \* has a handler begun while another was in flight?

vars == <<mem, disk, pc, snap, payload, index, target, platform, forgot, crashes,
          port, overlapped>>

SpState == [list : SUBSET Indices, grants : SUBSET Accepts]
Fresh   == [list |-> {}, grants |-> {}]

(***************************************************************************)
(* The state file: absent, emptied by a writer that has opened it, torn by *)
(* two writers, or holding the text of one state.                          *)
(***************************************************************************)
FileKinds == {"absent", "empty", "torn", "state"}
Files     == [kind : FileKinds, st : SpState]
File(st)  == [kind |-> "state", st |-> st]
NoText(k) == [kind |-> k, st |-> Fresh]
Readable(f) == f.kind = "state"

(***************************************************************************)
(* Progress of a handler.                                                  *)
(***************************************************************************)
FlushSteps == {"flush", "open", "write"}
Waiting    == {"resolving", "issuing", "finalized", "signing"} \cup FlushSteps
Ended      == {"acked", "failed"}
Progress   == {"idle"} \cup Waiting \cup Ended

InFlight(h) == pc[h] \in Waiting
Serving     == pc[Boot] = "acked"

\* A handler begins, perhaps while another one is in flight.
BeginNow == overlapped' = (overlapped \/ \E h \in Requests : InFlight(h))

\* The grants whose revocation has been answered, and those still going on.
Revoked      == {target[r] : r \in {x \in Revokes : pc[x] = "acked"}}
RevokeBegun  == {target[r] : r \in {x \in Revokes : pc[x] # "idle"}}
Acknowledged == {a \in Accepts : pc[a] = "acked"}

TypeOK ==
    /\ mem \in SpState
    /\ disk \in Files
    /\ pc \in [Handlers -> Progress]
    /\ snap \in [Requests -> SUBSET Indices]
    /\ payload \in [Handlers -> SpState]
    /\ index \in [Accepts -> Indices]
    /\ target \in [Revokes -> Accepts]
    /\ platform \in SUBSET Accepts
    /\ forgot \in BOOLEAN
    /\ crashes \in 0 .. MaxCrashes
    /\ port \in Ports
    /\ overlapped \in BOOLEAN

\* The seeder has written the initial state file, or the file is missing.
\* The initial values of index and target are placeholders: the steps that
\* draw a position and that choose a grant to revoke set them.
Init ==
    /\ mem = Fresh
    /\ disk \in {NoText("absent"), File(Fresh)}
    /\ pc = [h \in Handlers |-> "idle"]
    /\ snap = [h \in Requests |-> {}]
    /\ payload = [h \in Handlers |-> Fresh]
    /\ index = [a \in Accepts |-> CHOOSE i \in Indices : TRUE]
    /\ target = [r \in Revokes |-> CHOOSE a \in Accepts : TRUE]
    /\ platform = {}
    /\ forgot = FALSE
    /\ crashes = 0
    /\ port \in Ports
    /\ overlapped = FALSE

-----------------------------------------------------------------------------
(***************************************************************************)
(* Boot: SpStore.open.                                                     *)
(***************************************************************************)

\* Mutant: the parsed file is used without taking its state out.
OpenReads_Raw ==
    /\ pc[Boot] = "idle"
    /\ Readable(disk)
    /\ mem' = disk
    /\ pc' = [pc EXCEPT ![Boot] = "acked"]
    /\ UNCHANGED <<disk, snap, payload, index, target, platform, forgot, crashes, port, overlapped>>

\* The file parses: its contents become the state and the server listens.
OpenReads ==
    /\ pc[Boot] = "idle"
    /\ Readable(disk)
    /\ mem' = disk.st
    /\ pc' = [pc EXCEPT ![Boot] = "acked"]
    /\ UNCHANGED <<disk, snap, payload, index, target, platform, forgot, crashes, port, overlapped>>

\* Mutant: only a missing file is replaced.
StartsFreshTs_MissingOnly == port = "ts" /\ disk.kind = "absent"

\* The TypeScript port starts fresh after any failure to read or parse.
StartsFreshTs == port = "ts" /\ ~Readable(disk)

\* Mutant: every failure is caught.
StartsFreshPy_CatchAll == port = "py" /\ ~Readable(disk)

\* The Python port catches FileNotFoundError only; a file it cannot parse
\* ends the process.
StartsFreshPy == port = "py" /\ disk.kind = "absent"

\* A fresh state is flushed before the server listens.
OpenFresh ==
    /\ pc[Boot] = "idle"
    /\ StartsFreshTs \/ StartsFreshPy
    /\ mem' = Fresh
    /\ pc' = [pc EXCEPT ![Boot] = "flush"]
    /\ forgot' = (forgot \/ disk.kind # "absent")
    /\ UNCHANGED <<disk, snap, payload, index, target, platform, crashes, port, overlapped>>

-----------------------------------------------------------------------------
(***************************************************************************)
(* POST /api/consent/accept.                                               *)
(***************************************************************************)

\* A well-formed body: the catalog of scopes is resolved (an await).
AcceptBegin(a) ==
    /\ Serving
    /\ pc[a] = "idle"
    /\ BeginNow
    /\ pc' = [pc EXCEPT ![a] = "resolving"]
    /\ UNCHANGED <<mem, disk, snap, payload, index, target, platform, forgot, crashes, port>>

\* 400: malformed body or a required scope missing; 500: resolution failed.
AcceptRejected(a) ==
    /\ Serving
    /\ \/ pc[a] = "idle"
       \/ pc[a] = "resolving"
    /\ pc' = [pc EXCEPT ![a] = "failed"]
    /\ UNCHANGED <<mem, disk, snap, payload, index, target, platform, forgot, crashes, port, overlapped>>

\* Mutant: drawing a position sets its bit.
IssueGrant_SetsBit(a) ==
    /\ Serving
    /\ pc[a] = "resolving"
    /\ \E i \in Indices : /\ index' = [index EXCEPT ![a] = i]
                          /\ snap' = [snap EXCEPT ![a] = mem.list \cup {i}]
    /\ pc' = [pc EXCEPT ![a] = "issuing"]
    /\ UNCHANGED <<mem, disk, payload, target, platform, forgot, crashes, port, overlapped>>

\* issueGrant is called with the status list as it is now; the SDK draws a
\* random position for the grant and sets no bit.
IssueGrant(a) ==
    /\ Serving
    /\ pc[a] = "resolving"
    /\ \E i \in Indices : index' = [index EXCEPT ![a] = i]
    /\ snap' = [snap EXCEPT ![a] = mem.list]
    /\ pc' = [pc EXCEPT ![a] = "issuing"]
    /\ UNCHANGED <<mem, disk, payload, target, platform, forgot, crashes, port, overlapped>>

\* The HelixID API stores the grant; its answer is still on the way.
Finalize(a) ==
    /\ pc[a] = "issuing"
    /\ platform' = platform \cup {a}
    /\ pc' = [pc EXCEPT ![a] = "finalized"]
    /\ UNCHANGED <<mem, disk, snap, payload, index, target, forgot, crashes, port, overlapped>>

\* 500: the API refused, or its answer was lost after it had finalized.
IssueFails(a) ==
    /\ pc[a] \in {"issuing", "finalized"}
    /\ pc' = [pc EXCEPT ![a] = "failed"]
    /\ UNCHANGED <<mem, disk, snap, payload, index, target, platform, forgot, crashes, port, overlapped>>

\* Mutants: answering before the flush; recording before the API has
\* finalized; pushing onto the ledger of the file.
RecordGrant_NoFlush(a) ==
    /\ pc[a] = "finalized"
    /\ mem' = [list |-> snap[a], grants |-> mem.grants \cup {a}]
    /\ pc' = [pc EXCEPT ![a] = "acked"]
    /\ UNCHANGED <<disk, snap, payload, index, target, platform, forgot, crashes, port, overlapped>>

RecordGrant_Early(a) ==
    /\ pc[a] \in {"issuing", "finalized"}
    /\ mem' = [list |-> snap[a], grants |-> mem.grants \cup {a}]
    /\ pc' = [pc EXCEPT ![a] = "flush"]
    /\ UNCHANGED <<disk, snap, payload, index, target, platform, forgot, crashes, port, overlapped>>

RecordGrant_Reread(a) ==
    /\ pc[a] = "finalized"
    /\ mem' = [list |-> snap[a], grants |-> disk.st.grants \cup {a}]
    /\ pc' = [pc EXCEPT ![a] = "flush"]
    /\ UNCHANGED <<disk, snap, payload, index, target, platform, forgot, crashes, port, overlapped>>

\* recordGrant: push the grant, install the list captured before the await.
RecordGrant(a) ==
    /\ pc[a] = "finalized"
    /\ mem' = [list |-> snap[a], grants |-> mem.grants \cup {a}]
    /\ pc' = [pc EXCEPT ![a] = "flush"]
    /\ UNCHANGED <<disk, snap, payload, index, target, platform, forgot, crashes, port, overlapped>>

-----------------------------------------------------------------------------
(***************************************************************************)
(* The SP's revocation: getStatusList, await revokeGrant, replaceStatusList*)
(* on a grant of its own ledger.                                           *)
(***************************************************************************)
RevokeBegin(r) ==
    /\ Serving
    /\ pc[r] = "idle"
    /\ BeginNow
    /\ \E a \in mem.grants : target' = [target EXCEPT ![r] = a]
    /\ snap' = [snap EXCEPT ![r] = mem.list]
    /\ pc' = [pc EXCEPT ![r] = "signing"]
    /\ UNCHANGED <<mem, disk, payload, index, platform, forgot, crashes, port>>

\* replaceStatusList: the captured list plus the grant's bit.
ReplaceStatusList(r) ==
    /\ pc[r] = "signing"
    /\ mem' = [mem EXCEPT !.list = snap[r] \cup {index[target[r]]}]
    /\ pc' = [pc EXCEPT ![r] = "flush"]
    /\ UNCHANGED <<disk, snap, payload, index, target, platform, forgot, crashes, port, overlapped>>

\* Signing the new list fails; nothing was replaced.
RevokeFails(r) ==
    /\ pc[r] = "signing"
    /\ pc' = [pc EXCEPT ![r] = "failed"]
    /\ UNCHANGED <<mem, disk, snap, payload, index, target, platform, forgot, crashes, port, overlapped>>

-----------------------------------------------------------------------------
(***************************************************************************)
(* SpStore.flush.  TypeScript: mkdir, then the state is serialised and     *)
(* handed to writeFile, which truncates the file and writes the text.      *)
(* Python: open truncates, then json.dump serialises into the file.        *)
(***************************************************************************)
Serialize(h) ==
    /\ pc[h] = IF port = "ts" THEN "flush" ELSE "open"
    /\ payload' = [payload EXCEPT ![h] = mem]
    /\ pc' = [pc EXCEPT ![h] = IF port = "ts" THEN "open" ELSE "write"]
    /\ UNCHANGED <<mem, disk, snap, index, target, platform, forgot, crashes, port, overlapped>>

Truncate(h) ==
    /\ pc[h] = IF port = "ts" THEN "open" ELSE "flush"
    /\ disk' = NoText("empty")
    /\ pc' = [pc EXCEPT ![h] = IF port = "ts" THEN "write" ELSE "open"]
    /\ UNCHANGED <<mem, snap, payload, index, target, platform, forgot, crashes, port, overlapped>>

(***************************************************************************)
(* Every writer writes from offset 0 without truncating again, so writing  *)
(* over the text of another writer leaves the tail of the longer text.     *)
(* Within one process the ledgers are nested, and a grant is far longer    *)
(* than what a status bit changes, so more grants is a longer text; with   *)
(* the same grants and another list either may be the longer one.          *)
(***************************************************************************)
AfterWrite(f, st) ==
    IF \/ f.kind = "empty"
       \/ Readable(f) /\ f.st = st
       \/ Readable(f) /\ f.st.grants # st.grants /\ f.st.grants \subseteq st.grants
    THEN {File(st)}
    ELSE IF Readable(f) /\ ~(f.st.grants \subseteq st.grants)
         THEN {NoText("torn")}
         ELSE {File(st), NoText("torn")}

\* The flush is over: the handler answers (the boot: the server listens).
WriteText(h) ==
    /\ pc[h] = "write"
    /\ disk' \in AfterWrite(disk, payload[h])
    /\ pc' = [pc EXCEPT ![h] = "acked"]
    /\ UNCHANGED <<mem, snap, payload, index, target, platform, forgot, crashes, port, overlapped>>

\* The flush rejects: the request is answered 500, the memory keeps its state.
FlushFails(h) ==
    /\ h # Boot
    /\ pc[h] \in FlushSteps
    /\ pc' = [pc EXCEPT ![h] = "failed"]
    /\ UNCHANGED <<mem, disk, snap, payload, index, target, platform, forgot, crashes, port, overlapped>>

-----------------------------------------------------------------------------
\* The process is killed, or its boot fails: memory and requests are gone.
Crash ==
    /\ pc[Boot] # "idle"
    /\ crashes < MaxCrashes
    /\ mem' = Fresh
    /\ pc' = [h \in Handlers |->
                IF h = Boot THEN "idle"
                ELSE IF InFlight(h) THEN "failed" ELSE pc[h]]
    /\ crashes' = crashes + 1
    /\ UNCHANGED <<disk, snap, payload, index, target, platform, forgot, port, overlapped>>

-----------------------------------------------------------------------------
AcceptSteps(a) ==
    AcceptRejected(a) \/ IssueGrant(a) \/ Finalize(a) \/ IssueFails(a) \/ RecordGrant(a)

FlushStep(h) == Serialize(h) \/ Truncate(h) \/ WriteText(h)

Next ==
    \/ OpenReads
    \/ OpenFresh
    \/ \E a \in Accepts : AcceptBegin(a) \/ AcceptSteps(a)
    \/ \E r \in Revokes : RevokeBegin(r) \/ ReplaceStatusList(r) \/ RevokeFails(r)
    \/ \E h \in Handlers : FlushStep(h) \/ FlushFails(h)
    \/ Crash

Spec == Init /\ [][Next]_vars

(***************************************************************************)
(* The runtime keeps running every handler it has begun and the process    *)
(* manager keeps starting the server; nothing obliges clients to call.     *)
(***************************************************************************)
Fairness ==
    /\ WF_vars(OpenReads) /\ WF_vars(OpenFresh)
    /\ \A a \in Accepts : WF_vars(pc[a] # "idle" /\ AcceptSteps(a))
    /\ \A r \in Revokes : WF_vars(ReplaceStatusList(r))
    /\ \A h \in Handlers : WF_vars(FlushStep(h))

FairSpec == Spec /\ Fairness
-----------------------------------------------------------------------------
(***************************************************************************)
(* Properties.                                                             *)
(***************************************************************************)

\* The ledger, in memory, on its way to the file and in the file, names only
\* grants the API has finalized: recordGrant comes after issueGrant, whatever
\* else runs, fails or crashes.
LedgerIsFinalized ==
    mem.grants \cup disk.st.grants \cup UNION {payload[h].grants : h \in Handlers}
        \subseteq platform

\* A set bit is the position of a grant that some revocation named: no
\* interleaving of captured lists revokes anybody else.
BitsAreRevocations ==
    \A i \in mem.list \cup disk.st.list : \E g \in RevokeBegun : index[g] = i

\* Overlapping accepts never lose a grant in memory: recordGrant pushes onto
\* the live ledger instead of a ledger read before its await.
AckedGrantsInLedger ==
    crashes = 0 => Acknowledged \subseteq mem.grants

\* What has been answered stays in force while the server serves, over
\* crashes and restarts: acknowledged grants are in the ledger and the bits
\* of acknowledged revocations are set.
AnswersAreKept ==
    Serving => /\ Acknowledged \subseteq mem.grants
               /\ \A g \in Revoked : index[g] \in mem.list

\* The same for one handler at a time, in the TypeScript server up to the one
\* event that forgets: SpStore.open starting fresh on a file that a crash or a
\* failed flush left unreadable.  The Python port does not forget: it rather
\* refuses to start.
KeptUnlessForgotten == ~overlapped /\ (port = "ts" => ~forgot) => AnswersAreKept

\* Once every handler has been answered successfully, one at a time, the file
\* holds what the memory holds.
QuietFileIsLedger ==
    (~overlapped /\ Serving /\ \A h \in Requests : ~InFlight(h) /\ pc[h] # "failed")
        => disk = File(mem)

\* Whatever the file looks like after the last crash, the TypeScript server
\* comes back: open falls back to a fresh state instead of refusing to start.
ServesAgain == port = "ts" ~> Serving

=============================================================================
