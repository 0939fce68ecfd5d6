------------------------------- MODULE Seeding -------------------------------
(***************************************************************************)
(* The consent demo's seeder (seed/seed.ts, sp-shared/identity.ts), run    *)
(* before the SPs and the agent and again whenever the demo is started,    *)
(* with the API that it onboards the agent at and the files that it shares *)
(* with the SPs.                                                           *)
(*                                                                         *)
(* Every file is written by truncating it first: a crash in between leaves *)
(* it empty, and so it reads to who comes between.  An SP rewrites its     *)
(* state file while it serves (SpStore), its flushes may overlap, and the  *)
(* seeder may write the same file meanwhile.                               *)
(***************************************************************************)
EXTENDS ApiProcess

CONSTANTS
    SPs,
    MaxRuns,     \* bound on the runs of the seeder
    MaxFlushes   \* bound on the SPs' writes of their state files

ASSUME SeedingAssumption ==
    MaxRuns \in 0 .. MaxAgents /\ MaxFlushes \in Nat

VARIABLES
    identity,   \* each SP's identity file, and how often keys were made for it
    state,      \*   and its state file
    agentFile,  \* the agent's identity file
    seeder,
    sp,         \* each SP's process
    writing,    \* how many of its flushes have truncated the file, and not written
    runs, flushes,
    aborted,    \* runs of the seeder that stopped before their end
    disturbed   \* how often an SP's files were left or read unfinished, or garbled

files == <<identity, state, agentFile>>
spVars == <<sp, writing>>
bounds == <<runs, flushes, aborted, disturbed>>
vars == <<apiVars, files, seeder, spVars, bounds>>

\* "torn": the texts of two writers in one.
File == {"none", "empty", "torn", "whole"}

SeederSteps ==
    {"idle", "done",
     "identity", "state", "keys", "saveKeys", "list", "saveList",  \* for each SP
     "health", "agent", "onboard", "saving", "save"}               \* for the agent

TypeOK ==
    /\ ApiTypeOK
    /\ identity \in [SPs -> [is : File, made : 0 .. MaxRuns]]
    /\ state \in [SPs -> File]
    /\ agentFile \in [is : File, agent : 0 .. MaxAgents]
    /\ seeder \in [at : SeederSteps, todo : SUBSET SPs, sp : SPs \cup {None},
                   agent : 0 .. MaxAgents]
    /\ sp \in [SPs -> {"down", "booting", "up"}]
    /\ writing \in [SPs -> 0 .. MaxFlushes]
    /\ runs \in 0 .. MaxRuns /\ flushes \in 0 .. MaxFlushes /\ aborted \in 0 .. MaxRuns
    /\ disturbed \in [SPs -> Nat]

Idle == [at |-> "idle", todo |-> {}, sp |-> None, agent |-> 0]

Init ==
    /\ ApiInit
    /\ identity = [s \in SPs |-> [is |-> "none", made |-> 0]]
    /\ state = [s \in SPs |-> "none"]
    /\ agentFile = [is |-> "none", agent |-> 0]
    /\ seeder = Idle
    /\ sp = [s \in SPs |-> "down"]
    /\ writing = [s \in SPs |-> 0]
    /\ runs = 0 /\ flushes = 0 /\ aborted = 0
    /\ disturbed = [s \in SPs |-> 0]
-----------------------------------------------------------------------------
(***************************************************************************)
(* The seeder.                                                             *)
(***************************************************************************)
At(step)   == seeder.at = step
Goto(step) == seeder' = [seeder EXCEPT !.at = step]
Running    == seeder.at \notin {"idle", "done"}

\* The next SP, or the agent when there is none left.
NextSp(todo) ==
    IF todo = {}
    THEN seeder' = [Idle EXCEPT !.at = "health"]
    ELSE \E s \in todo : seeder' = [Idle EXCEPT !.at = "identity", !.todo = todo \ {s}, !.sp = s]

Disturb(s) == disturbed' = [disturbed EXCEPT ![s] = @ + 1]

\* An SP has truncated its state file, and goes on to write it.
Unfinished(s) == state[s] = "empty" /\ writing[s] > 0

\* Every write is one from offset 0, and whoever has truncated the file before
\* another's write does not do so again: a text over a longer one leaves the
\* longer one's tail.  Which of two texts is the longer one is left open.
AfterWrite(text) == IF text = "empty" THEN {"whole"} ELSE {"whole", "torn"}

WriteState(s) ==
    /\ \E text \in AfterWrite(state[s]) : state' = [state EXCEPT ![s] = text]
    /\ IF state'[s] = "torn" THEN Disturb(s) ELSE UNCHANGED disturbed

StartSeeder ==
    /\ ~Running
    /\ runs < MaxRuns
    /\ runs' = runs + 1
    /\ NextSp(SPs)
    /\ UNCHANGED <<apiVars, files, spVars, flushes, aborted, disturbed>>

\* The seeder stops before its end: it dies, or "Seeding failed".
Abort ==
    /\ Running
    /\ seeder' = Idle
    /\ aborted' = aborted + 1
    /\ IF \/ At("saveKeys")
          \/ seeder.at \in {"list", "saveList"} /\ state[seeder.sp] # "whole"
       THEN Disturb(seeder.sp)
       ELSE UNCHANGED disturbed
    /\ UNCHANGED <<apiVars, files, spVars, runs, flushes>>

\* provisionSpIdentity: an SP is provisioned if both its files can be read.
ReadIdentity ==
    /\ At("identity")
    /\ Goto(IF identity[seeder.sp].is = "whole" THEN "state" ELSE "keys")
    /\ UNCHANGED <<apiVars, files, spVars, bounds>>

ReadState ==
    /\ At("state")
    /\ IF state[seeder.sp] = "whole"
       THEN NextSp(seeder.todo) /\ UNCHANGED disturbed
       ELSE /\ Goto("keys")
            /\ IF Unfinished(seeder.sp) THEN Disturb(seeder.sp) ELSE UNCHANGED disturbed
    /\ UNCHANGED <<apiVars, files, spVars, runs, flushes, aborted>>

\* New keys, in an identity file that is truncated first ...
MakeKeys ==
    /\ At("keys")
    /\ identity' = [identity EXCEPT ![seeder.sp] = [is |-> "empty", made |-> @.made + 1]]
    /\ Goto("saveKeys")
    /\ UNCHANGED <<apiVars, state, agentFile, spVars, bounds>>

SaveKeys ==
    /\ At("saveKeys")
    /\ identity' = [identity EXCEPT ![seeder.sp].is = "whole"]
    /\ Goto("list")
    /\ UNCHANGED <<apiVars, state, agentFile, spVars, bounds>>

\* ... and a state file with the new status list and no grants.
MakeList ==
    /\ At("list")
    /\ state' = [state EXCEPT ![seeder.sp] = "empty"]
    /\ Goto("saveList")
    /\ UNCHANGED <<apiVars, identity, agentFile, spVars, bounds>>

\* Mutant: the status list is left for the SP to write.
SaveList_Skip ==
    /\ At("saveList")
    /\ NextSp(seeder.todo)
    /\ UNCHANGED <<apiVars, files, spVars, bounds>>

SaveList ==
    /\ At("saveList")
    /\ WriteState(seeder.sp)
    /\ NextSp(seeder.todo)
    /\ UNCHANGED <<apiVars, identity, agentFile, spVars, runs, flushes, aborted>>

Healthy ==
    /\ At("health")
    /\ \E p \in Procs : Serving(p)
    /\ Goto("agent")
    /\ UNCHANGED <<apiVars, files, spVars, bounds>>

\* Mutant: waitForApi waits as long as it takes.
GivesUp_Never == At("health") /\ FALSE /\ UNCHANGED vars

\* waitForApi: sixty attempts, then "did not become healthy in time".
GivesUp == At("health") /\ Abort

ReadAgent ==
    /\ At("agent")
    /\ Goto(IF agentFile.is = "whole" THEN "done" ELSE "onboard")
    /\ UNCHANGED <<apiVars, files, spVars, bounds>>

\* The enrollment token is minted and redeemed.
Onboard ==
    /\ At("onboard")
    /\ \E p \in Procs : OnboardAt(p)
    /\ seeder' = [seeder EXCEPT !.at = "saving", !.agent = Len(agents')]
    /\ UNCHANGED <<files, spVars, bounds>>

OnboardFails == At("onboard") /\ Abort

TruncateAgent ==
    /\ At("saving")
    /\ agentFile' = [agentFile EXCEPT !.is = "empty"]
    /\ Goto("save")
    /\ UNCHANGED <<apiVars, identity, state, spVars, bounds>>

SaveAgent ==
    /\ At("save")
    /\ agentFile' = [is |-> "whole", agent |-> seeder.agent]
    /\ Goto("done")
    /\ UNCHANGED <<apiVars, identity, state, spVars, bounds>>

SeederStep ==
    \/ ReadIdentity \/ ReadState \/ MakeKeys \/ SaveKeys \/ MakeList \/ SaveList
    \/ Healthy \/ GivesUp \/ ReadAgent \/ Onboard \/ OnboardFails \/ TruncateAgent \/ SaveAgent
-----------------------------------------------------------------------------
(***************************************************************************)
(* An SP: serveSp, and the writes of its store.                            *)
(***************************************************************************)
Truncate(s) ==
    /\ flushes < MaxFlushes
    /\ flushes' = flushes + 1
    /\ state' = [state EXCEPT ![s] = "empty"]
    /\ writing' = [writing EXCEPT ![s] = @ + 1]

\* serveSp: without an identity there is no SP.  SpStore.open starts with an
\* empty state, and writes it before the SP serves, if the file cannot be read.
BootSp(s) ==
    /\ sp[s] = "down"
    /\ identity[s].is = "whole"
    /\ IF state[s] = "whole"
       THEN sp' = [sp EXCEPT ![s] = "up"] /\ UNCHANGED <<state, writing, flushes>>
       ELSE sp' = [sp EXCEPT ![s] = "booting"] /\ Truncate(s)
    /\ UNCHANGED <<apiVars, identity, agentFile, seeder, runs, aborted, disturbed>>

\* recordGrant, replaceStatusList: whatever other flushes are under way.
Flush(s) ==
    /\ sp[s] = "up"
    /\ Truncate(s)
    /\ UNCHANGED <<apiVars, identity, agentFile, seeder, sp, runs, aborted, disturbed>>

Flushed(s) ==
    /\ writing[s] > 0
    /\ WriteState(s)
    /\ writing' = [writing EXCEPT ![s] = @ - 1]
    /\ sp' = [sp EXCEPT ![s] = "up"]
    /\ UNCHANGED <<apiVars, identity, agentFile, seeder, runs, flushes, aborted>>

StopSp(s) ==
    /\ sp[s] # "down"
    /\ sp' = [sp EXCEPT ![s] = "down"]
    /\ writing' = [writing EXCEPT ![s] = 0]
    /\ IF Unfinished(s) THEN Disturb(s) ELSE UNCHANGED disturbed
    /\ UNCHANGED <<apiVars, files, seeder, runs, flushes, aborted>>

SpStep(s) == BootSp(s) \/ Flush(s) \/ Flushed(s) \/ StopSp(s)
-----------------------------------------------------------------------------
Database == \E p \in Procs : StartApi(p) \/ ApiStep(p) \/ StopApi(p)

Next ==
    \/ StartSeeder \/ SeederStep \/ Abort
    \/ \E s \in SPs : SpStep(s)
    \/ Database /\ UNCHANGED <<files, seeder, spVars, bounds>>

\* The seeder runs until it ends.  Neither the API nor an SP need ever start.
Spec == Init /\ [][Next]_vars /\ WF_vars(SeederStep)
-----------------------------------------------------------------------------
(***************************************************************************)
(* Properties.                                                             *)
(***************************************************************************)
\* "already provisioned; reusing", "already onboarded; reusing": running the
\* seeder again, at whatever moment of the SPs' and the API's lives, makes no
\* second keys and onboards no second agent, except after a run that did not
\* end, and after an SP's files were left or read in the middle of a write, or
\* garbled by two writes that overlap.
ReseedingReuses ==
    /\ \A s \in SPs : identity[s].made <= 1 + disturbed[s]
    /\ Len(agents) <= 1 + aborted

\* "Seed complete": from then on every SP can boot, and, if the platform has a
\* configured key, whichever API process serves signs for the agent.
SeededIsUsable ==
    At("done") =>
        /\ \A s \in SPs : identity[s].is = "whole"
        /\ agentFile.is = "whole"
        /\ HostedKey # None =>
            \A p \in Procs : Serving(p) => CanSign(p, agentFile.agent)

\* A run of the seeder ends, also when the API never comes up.
SeederEnds == Running ~> ~Running
=============================================================================
