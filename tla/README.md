# HelixID: verification project

TLA+ models of the HelixID repository, TLC configurations that check them on
small instances, and TLAPS proofs of what matters most. The repository is the
HelixID API process (`src/server.ts`), a set of examples in TypeScript, and
Python ports of the two large ones. The library itself (`@helixid/core`, the
SDK, the consent widget, the MCP middleware) is not in the repository: the
models treat it as the **platform**, an external party described by how the
examples call it.

Paths below are relative to the repository root; `consent-demo` stands for
`examples/e2e-consent-demo`, `concierge` for `examples/e2e-travel-concierge`.
Their Python ports are in the directories of the same name with `-py`.

    tlc -workers 2 -config SpStore_handlers.cfg MCSpStore     # one run
    tlapm ConsentGate_proofs.tla                              # one proof module

`PROJECT.json` lists the runs, for every property a mutant of the model that
breaks it, the source lines each definition stands for, the hazards and the
theorems. A definition named `X_Something`, next to `X`, is such a mutant: the
mistake that a change of that code could make. No action uses one.

## 1. The system

### Consent demo

A travel planner (agent) books with two service providers, an airline and a
hotel. An SP runs a protected tool only if the presentation that the agent
posts carries a grant the user gave *that* SP.

| Component | State | Operations | Talks to |
|---|---|---|---|
| SP ledger: `sp-shared/store.ts`, `serve.ts`, accept handler in `app.ts` | grants, status list; the same in one JSON file | open, recordGrant, replaceStatusList, flush; accept; revoke | platform (issueGrant), consent page |
| SP gate: `POST /api/mcp` in `app.ts` | none of its own | verify the presentation, look for a grant of this SP, check the effective scopes, run the tool | platform (verify, status lists), agent |
| Agent's call: `consentAwareCall.ts`, `/api/call`, `/api/grants` | none | find a grant, sign a presentation, post, ask for consent, post once more | platform, gate, page |
| Planner page and popup: `web.ts`, script of `consentPageHtml` | one pending call, one named popup | runCall, renderConsent, message listener; accept, decline | agent by HTTP, popup by postMessage |
| Planner sessions: `agent/server.ts` | sessions, histories, trip profiles | login, logout, plan | planner, phrase cache |
| Conversation: `conversation.ts` | none: pure functions | fill slots, next question | sessions |
| Planners: `gemini.ts` | phrase cache | plan, validate, phrase a question | model providers |
| Seeder: `seed/seed.ts`, `sp-shared/identity.ts` | identity and state files | seed the SPs and the agent | platform, file system |
| Audit trail, identity, did:web, pages | files written once, HTML | | |

### Travel concierge

Personas (agents with a DID and credentials) that a user onboards, delegates
between and revokes, and a chat whose tools sit behind MCP middleware.

| Component | State | Operations | Talks to |
|---|---|---|---|
| Persona store: `personas/store.ts` | JSON manifest shared by seeder and agent, a map in each process | loadPersonas, addPersona, updatePersona | file system |
| Delegation demo: `agent/server.ts` | none beyond the registry and the platform | create the demo agents, delegate, revoke, onboard | persona store, platform |
| Chat turn: `/chat`, `chat/runChatTurn.ts` | conversation histories, one array for each conversation and persona | the tool loop | model provider, tools |
| Tool call: `tools/protectedCall.ts`, `mcpClient.ts` | none | have a presentation signed, post, give up after a timeout | platform, MCP server |
| Guarded tools: `mcp-server/server.ts` | none | verify by API, else by the middleware; run the tool | platform, middleware |

### HelixID API process

`src/server.ts`: configuration, encryption keys, the issuer's DID and the boot
order. The routes are the library's.

### Stand-alone examples

Verifiers of five kinds, each a script or a small server: through the API
(`verify-vp.ts`), self-verifying (`self-verify.ts`), by the status list only
(`revocation-check.ts`), with a cache of the verdicts of the SDK's
`verifyVP` (`verifier-vp-cache-cycle.ts`) and with a session token in exchange for a
presentation (`verify-vp-session-bridge.ts`). State: the cache, and the time.

### What is hard here, and what makes each part correct

* *State read before an await and used after it.* The accept handler captures
  the status list, waits for the platform and installs what it captured; every
  concierge request decides by the persona it read at its start; the page
  reads its pending call after waiting for the agent. Correct: an answer, once
  given, is not undone by another handler; a retry runs the call that was
  consented to.
* *Files rewritten in place.* Both stores truncate and rewrite. Correct: what
  was answered survives a restart, or the loss is explicit.
* *Stale grants and revocation.* Lookup, signature, verification and the tool
  are separate steps. Correct: no tool without consent in force when the call
  was authorized; no prompt that works around a revocation; no tool run twice.
* *A page whose buttons stay enabled.* Correct: nothing booked twice; what the
  user is told was not booked is not booked later.
* *Labels next to authority.* A persona's labels and what its credentials
  allow change in different steps. Correct: the list shows at least what can
  be presented.
* *Arrays shared between turns.* Two turns of a conversation push onto one
  array between each other's awaits, and a turn that throws leaves behind what
  it pushed. Correct: a tool's result follows its call; what was answered is
  remembered.
* *A caller that times out while the server goes on.* Correct: what the model
  is told of a tool is what happened; no tool runs without a credential that
  was good for it.
* *Deployment in steps.* Identity files, state files and an agent's enrollment
  are written one after the other by a script that may die, beside servers
  that write the same files and API processes that may hold different keys.
  Correct: seeding again reuses what there is and repairs what is torn; a
  process serves only with the registered key.
* *Verdicts that outlive what they are about.* Correct: what was revoked or
  had expired when it was presented is granted nowhere but where the examples
  say so.
* *A conversation whose next step depends on what was said before.* The history
  is read before and written after the planner's await; a bare answer says
  nothing of the leg it belongs to; buttons of earlier results stay. Correct:
  the history stays whole, an answer moves the conversation on, only what the
  user asked for is booked, once.

`PROJECT.json` lists each hazard at its line with the properties that cover
it; the four without a property say why.

## 2. The modules

| Module | Models | State and code |
|---|---|---|
| `SpStore` | SP ledger, both ports | `mem` = `SpStore.state`, `disk` = the state file (absent, emptied, torn, or one state's text), `pc[h]` = the await a handler is at, `snap` = the list it captured, `payload` = text about to be written. `port` selects between the two ports where they differ: order of truncation and serialization, and what opening a bad file does. |
| `ConsentPolicy` | what the demo promises, without mechanism | consent in force, calls authorized, calls executed |
| `ConsentGate` | agent's call against the SP's gate | `grants`, `revoked` = the platform's credentials and status bits; per call: `pc`, `held` = the grant in its presentation, `eff` = effective scopes as verified, `attempt`, `runs`. `seen` records what the lookup could have found. The gate's checks are the actions `NoPresentation`, `VerifyVP`, `RejectVP`, `DenyPolicy`, `RunTool`, in the order of the code. |
| `BrowserConsent` | page and popup | `pending`, `popup` = page state in the single popup, `inbox` = posted messages, `waiting` = listeners that await `/api/grants`. The gate is reduced to "is there an adequate grant for this SP". |
| `PersonaRegistry` | what the persona store promises | one registry, atomic Add and Update |
| `PersonaStore` | manifest, maps, processes | `file` = what readManifest would return, `mem[p]` = a process's map, `step[w]` = where a call is, `merged[w]` = what it will write. `Lockers` = processes whose lock excludes their calls (the Python port). |
| `DelegationDemo` | the concierge's requests | `personas` is a `PersonaRegistry`; `creds`, `revoked` = the platform; `req[h]` = a request in progress with what it read at its start |
| `TripConversation` | `conversation.ts` | no state. A message is what the engine's patterns find in it: cities after a preposition or alone, which details it gives, which subjects it mentions. `ExtractSlots`, `ResolveTrack` and the three next-question functions follow the code. |
| `PlanTranscript` | what the planner's sessions promise | a transcript for each live session that grows by whole exchanges |
| `PlanSession` | page, sessions and planners | `sessions`, `history`, `profiles` = the agent's maps; `page` = the page script's variables and which buttons are in its log; `req[q]` = a message in flight with what was read for it. Of the history only the words matter that the scripted planner looks for. `orders` and `found` record bookings set out and searches shown. |
| `GuardedTool` | a tool call and the MCP server | `call[k]` = the call at its caller, `job[k]` = the same call at the server, two processes; `ran` = calls whose tool ran, `revoked` = the platform's. `Delegated` is `isDelegatedVP`; a call's `fresh` records whether its credential was good on arrival. |
| `ChatTurn` | `/chat` and `runChatTurn` | `arrays[a]` = the history that turn `a` created, `stored` = the map `conversations`, `turn[t]` = a request with its persona, array and round. `raced` marks keys whose first two turns overlapped. `toAnthropicMessages` is what a provider is sent. |
| `ConciergeChat` | the concierge's chat | the turns of `ChatTurn` whose tool calls are those of `GuardedTool`. `PresentedBy` gives each persona the credential that it presents. |
| `ApiProcess` | boot of the HelixID API | `api[p]` = a process with its signing key and its custody key, `issuer` = the key registered for the issuer's DID, `agents` = the custody key that each hosted agent's key is encrypted under |
| `Seeding` | seeder, identity, boot of an SP | `identity`, `state`, `agentFile` = files that are absent, emptied, torn or whole, `seeder` = the script's step, `sp` = the SPs' processes, `writing` = their flushes between truncation and write; extends `ApiProcess`. What an SP's state file says is `SpStore`'s matter. |
| `Verifiers` | the stand-alone verifiers | `vp`, `gone`, `now` = presentations with their last instants, revocations, time; `cache` = kept verdicts; `req[r]` = a request on one of five paths, with what was true of its presentation when it began (`late`, `revoked`) |
| `MC...` | instances for TLC | model values, small functions, symmetry |
| `..._proofs` | theorems | section 5 |

Composition. `ConsentGate` implements `ConsentPolicy`, `PersonaStore`
implements `PersonaRegistry` and, one message at a time, `PlanSession`
implements `PlanTranscript`, each by a refinement mapping. `PlanSession` is
built on `TripConversation` and ends where `BrowserConsent` begins, at the
booking that the page sets out to make. `DelegationDemo` is
built on `PersonaRegistry`, so it relies on the conditions under which
`PersonaStore` implements it; in return its requests change the registry only as
`PersonaRegistry` allows, and never meet the store's "Unknown persona"
(`DemoUsesRegistry`). `BrowserConsent` uses the gate's conclusion only.
`ConciergeChat` conjoins each action of a turn with the action of the tool call
that it takes part in, and lets the server and revocations go on by themselves;
that a persona's credential changes while it chats is `DelegationDemo`'s
subject. `Seeding` interleaves the seeder and the SPs with `ApiProcess`, and
meets it where the agent is enrolled at a process that serves.

External assumptions, each read off how the code uses the platform:

* the platform's list of an agent's grants contains revoked ones and has no
  order that the code fixes; verification consults the issuing SP's status
  list and refuses a presentation whose grant is for another user;
* a presentation's effective scopes are the agent's own privilege scopes cut
  down to the grant, or just the former if it carries no grant;
* delegated credentials inherit the revocation of their ancestors, and
  delegateAuthority refuses scopes or depth beyond the parent's;
* a model provider answers with any text or any tool call, late or never;
  what it calls is refused unless it is on offer;
* signVP with no credential named presents the agent's only one;
* `/v1/vp/verify` refuses what is revoked or expired, and may refuse anything
  else; so does the SDK's `verifyVP`, whose verdicts are what is cached, and
  which like the platform looks at the credential's status list; the MCP middleware accepts only what carries the tool's scope, and its
  own look at a revocation is one more moment at which it may be seen;
* a key that a hosted agent was enrolled with can be used only by a process
  with the same custody key, and a session token verified only by the key of
  the process that signed it.

Abstractions. Scopes, tools, personas and calls are model values or small
sets; documents and tokens are what they say; encodings, wording, logging and
layout are left out. Writing over a file that another writer has open is
modelled by what remains: the longer text's tail makes it unparseable.

## 3. The runs

Passing runs, with the number of distinct states.

**`store_handlers`** (`SpStore_handlers.cfg`, 254 000). Two acceptances, one
revocation, two list positions, one crash anywhere, failures of every call,
both ports. Two acceptances and a revocation are the least that has every pair
of handlers overlap; a third acceptance only repeats a pair. Two positions
make a collision of drawn positions possible. One crash after any step, with
the restart and everything that follows, is the whole crash behaviour: a
second crash meets a file in one of the same four conditions.
- `LedgerIsFinalized`: memory, file and text on its way name only grants that
  the platform has finalized.
- `BitsAreRevocations`: no interleaving of captured lists revokes anybody else.
- `AckedGrantsInLedger`: overlapping acceptances do not lose each other's grants.
- `KeptUnlessForgotten`: one handler at a time, what was answered survives a
  crash, except that the TypeScript port starts with an empty ledger when the
  file is unreadable; the Python port refuses to start and forgets nothing.
- `QuietFileIsLedger`: with handlers one at a time, the file is the ledger.
- `ServesAgain`: the TypeScript server comes back whatever the crash left.

**`gate_calls`** (`ConsentGate_calls.cfg`, 227 000). Two SPs, two users, tools
with and without a required scope, an agent whose own credential lacks one of
the scopes, two grants accepted and revoked at any moment, one call. Calls
share nothing but the grants, and everything that another call could do to
them (accept, revoke) happens anyway at any point, so one call loses nothing.
- `RunImpliesConsent`: a protected tool has run only with a grant of that SP
  for that user which covers it within the agent's own authority.
- `RevokedIsFinal`: a grant revoked before it was chosen neither runs the tool
  nor leads to a new prompt.
- `RunsAtMostOnce`: lost answers and the retry included.
- `StandingGrantReused`: if every standing grant covers the tool, no prompt.
- `ImplementsPolicy`: authorization happens while consent is in force, and
  only what was authorized is executed. The grant may be revoked between the
  two, because the tool runs after an await; the policy says so.
- `CallsEnd`: every call is answered.

**`browser_page`** (`BrowserConsent_page.cfg`, 247 000). Three bookings, two
with one SP, two consent pages, every order of clicks, calls that fail before
or after the tool ran. A third booking lets a
call be started while one is pending and another retried; two pages let one
page replace another.
- `BookedAtMostOnce`: whatever the user clicks, also when answers are lost.
- `DeclinedStaysUnbooked`: whenever a decline arrives the user is told that the
  booking was not made; of the two calls that this may be about, the declined
  page's and the one still pending (`DeclinedCalls`), neither is booked
  afterwards. A call that had been run again by the time is counted (`late`):
  only an accepted call can be (`late \subseteq retried`).
- `RetryFollowsConsent`, `AcceptedIsRetried`: as long as one booking is
  settled before the next begins, exactly the accepted call is retried.

**`persona_restarts`** (`PersonaStore_restarts.cfg`, 369 000). Two processes,
three calls of which two are in one locking process, two crashes or failed
writes, additions and updates. Two failures allow one in each process and a
restart between them.
- `AnsweredAreKept`: an answered persona is in the manifest, until a write was
  cut short after it truncated the file.
- `AnsweredAreKnown`: a process finds in its map what it has answered for.
- `ImplementsRegistry`: every step is one atomic registry step, or none.

**`delegation_requests`** (`DelegationDemo_requests.cfg`, 1 700 000). Two
requests at a time of every kind, four credentials, two of the requests
begun while another was in progress, any call failing, any credential
revoked. Four credentials are both demo agents, a delegation and one
replacement.
- `ShownBoundsAuthority`: a persona that names its credential can present no
  scope that the list of personas does not show.
- `DemoStartsUnprivileged`: after the demo is created its target has no tool
  scopes, whatever was delegated to it before.
- `LabelNamesDelegator`: a label names the persona that delegated what is
  presented under it (requests one at a time).

**`plan_chat`** (`PlanSession_chat.cfg`, 824 000). Three messages, typed, tapped
or clicked, one of which may be sent (or the session ended) while another is
in flight; two sessions one after the other; a model that answers anything,
late or never. Three messages fill a history of four entries, so that the
oldest exchange is dropped; a full request, an answer to a question and a
booking are three as well. The history's limit of 12 entries is a parameter.
One overlap is enough for a turn to disappear from the history.
- `HistoryAlternates`: whatever overlaps, a provider gets whole exchanges that
  begin with the user, as its API demands.
- `ImplementsTranscript`: one message at a time, the history is the transcript
  of the live session and logout leaves nothing of it.
- `AnswerMovesOn`: tapping a suggested answer is never followed by the same
  question, on any leg. (Unless the trip leads to the suggested home city.)
- `OneBookingPerSearch`: neither stale buttons nor any answer of the model
  book the results of one search twice, one message at a time.
- `QuestionsEnd`: a question is asked even if the model never answers.

**`concierge_turns`** (`ConciergeChat_turns.cfg`, 374 000). Two requests to
`/chat` in one conversation, under one persona or two, each of up to two
provider calls; one persona presents a root credential, the other one that is
delegated from it and lacks a scope; one of the two is revoked at any moment; any request
fails or times out. Two turns are what it takes to interleave pushes; two
rounds (the code has four) are a tool call with what follows it, and a turn
that gives up; revoking the root revokes both credentials.
- `ResultsFollowCalls`: what a provider is sent begins with the user, and each
  result follows its call with only other turns' messages between the two; a
  call without a result is one whose tool is running or has thrown.
- `AnsweredIsRemembered`: an answered exchange is in the history that the next
  turn finds, unless two turns were both the first of their conversation.
- `ResultsTellRuns`: the model is told of a success exactly for tools that ran,
  except where the turn failed while its tool was running.
- `RunsAreAuthorized`: a tool that runs was called with a credential that was
  good on arrival and has the scope; without the platform's recorded verdict
  only under a delegated credential.
- `TurnsEnd`: every request to `/chat` is answered.

**`deployment`** (`Seeding_deployment.cfg`, 1 475 000). Three runs of the seeder,
which may die or fail at any step; two API processes started three times with
either of two signing keys; one SP that boots, writes its state file and stops
at any moment. It writes twice, so that two of its flushes overlap, or one of
them and the seeder's write: the second text may then leave a tail of the
first (`AfterWrite`). Three runs are an interrupted
one, the one that repairs, and the one that should find everything in place.
The SPs are seeded one after the other and share no file, so one is enough.
- `ServesWithRegisteredKey`: no process listens with a key that is not the
  registered one, also when two of them find an empty database at once.
- `ReseedingReuses`: no second keys and no second agent, except after a run
  that did not end, or a file that was left or read in the middle of a write,
  or garbled by two that overlap; each of these costs at most one pair of keys.
- `SeededIsUsable`: after "Seed complete" every SP can boot, and with a
  configured custody key any serving API process can sign for the agent.
- `SeederEnds`: a run ends, also when the API never comes up.

**`verifier_paths`** (`Verifiers_paths.cfg`, 2 620 000). Two requests on any of
the five paths with either of two presentations, one of which lacks the scope
that the cache wants; presentations live for one tick, credentials for two; the
clock has three; revocation and a restart of the platform at any moment. Two
requests are one that fills the cache and one that finds it.
- `GrantsAreCurrent`: a request that begins after the revocation is granted
  only by a cached verdict, and one that begins after the expiry only where
  nothing but the status list is looked at.

## 4. What the code does not keep

Three runs check a claim that the repository makes and find it violated.

* **`store_revocation_lost`**, `AnswersAreKept`. "Revocable at any time"
  (`sp-shared/app.ts:929`): an acceptance that waits for issueGrant while a
  revocation is answered then installs the status list it captured before
  (`app.ts:243`, `store.ts:58`), and the bit is gone. No crash is needed.
* **`delegation_stale_did`**, `ReadyToDelegate`. The error message of
  `agent/server.ts:340` tells the user to create the demo agents again. If the
  source persona exists without a suitable credential, a new agent is enrolled
  but the persona keeps the old DID, so the new credential is never found.
* **`plan_untold`**, `BookedAsTold`. The first result is the default "used when
  the user just says "yes"" (`gemini.ts:17`), and a named option wins over it
  (179-180). The scripted planner looks for "yes" and "book" in the whole
  history (`gemini.ts:173-176`): after the button "Book my return flight" any
  message that is not a search, such as "thanks", books the first result. The
  run is without a model; with one, its fallback does the same.

Seen while modelling and kept inside the models rather than as runs:

* "an existing grant satisfies the SP on the first attempt"
  (`consentAwareCall.ts:8-11`): findExistingGrant takes the first match (line
  92), so a narrower or a revoked grant hides an adequate one and the user is
  asked again (`StandingGrantReused` holds when every grant covers the tool);
* "retries the booking automatically" (README of the consent demo, 141-142): a
  second booking that needs consent replaces the one pending call
  (`web.ts:366`) while the first's popup is open; `AcceptedIsRetried` is about
  bookings settled one by one;
* "never clobbered" (`personas/store.ts:51-52`): two overlapping additions read
  the same manifest, and the later write drops the earlier one's entry
  (`~Racing` of the store's theorems, `Lockers` in its run);
* "so the provider history stays valid" (`runChatTurn.ts:54`): a tool that
  throws leaves a call without a result in the shared history, which every
  later request of the conversation then carries; after giving up the history
  ends with a result, and two of the user's messages follow each other for the
  provider whose adapter relies on "already alternates"
  (`anthropicProvider.ts:44-46`);
* two turns that are both the first of a conversation each create an array; the
  one that ends last replaces the other's exchange (`raced`);
* an agent's key under hosted custody is encrypted with a key that the process
  made up if none is configured, as in the consent demo's compose file: after a
  restart of the API nobody can sign for the agent, and the seeder reuses it
  (the condition `HostedKey # None` of `SeededIsUsable`);
* "Permission was declined, so I did not make the booking" (`web.ts:521-524`)
  is said whatever has happened: if the page of a call is opened again and
  declined while its acceptance is being passed on, the call runs and the user
  is told that it was not made (`late`);
* a seeder that reads an SP's state file while the SP is writing it makes a new
  identity for an SP that is in use; and where its own write of that file
  overlaps the SP's (`seed.ts:92`, `store.ts:69`) a shorter text over a longer
  one cannot be parsed, so that the next run makes one more (`disturbed`);
* `verifier-vp-cache-cycle.ts` serves a cached verdict after revocation, as its
  text says (`hit`); the status-list checker does not look at expiry; the
  session bridge prints GRANTED before the token is verified;
* a crash between truncation and write makes the TypeScript SP forget its
  ledger under the same signing key (excluded from `KeptUnlessForgotten` by
  `forgot`); a cut write of the manifest forgets every persona (`cut`);
* overlapping flushes can tear or reorder the file (`overlapped` in
  `QuietFileIsLedger`);
* a grant may exist at the platform that the SP never recorded, so the SP
  cannot revoke it (`LedgerIsFinalized` is an inclusion, not an equality);
* a plan in flight at logout stores its session's history again ("History is
  cleared on logout", README of the demo, 134-135; the condition
  `OneAtATime` of `ImplementsTranscript`), and the trip profile is never
  deleted; of two overlapping turns one is missing from the history;
* only the rewording of a question has a timer: a plan that the provider never
  answers keeps the send button off, though not the other buttons;
* the year of a date answer is read as a nightly budget (`extractBudget` takes
  any number from 1000), so the budget question is then never asked. A comment
  of the Python port knows of it and calls it harmless;
* a trip to the home city can never be completed by tapping: the one suggested
  origin is read as the destination again (the precondition of
  `AnswerMovesOn`);
* "Yes, book flight HA733" from a button of an earlier search books, by the
  scripted planner, the first hotel or flight that is on offer instead;
* `/revoke-agent` revokes the first credential that is listed, which need not
  be the one presented.

## 5. The proofs

TLC checks the instances above; TLAPS proves the following for every value of
the constants.

| Theorem | Says | Argument |
|---|---|---|
| `SpStore_proofs!TypeCorrect` | `Spec => []TypeOK` | `TypeOK` is inductive; one step per action, with lemmas about the file's types and what a write leaves |
| `SpStore_proofs!FinalizedLedger` | `Spec => []LedgerIsFinalized` | from the ledger's invariant below |
| `SpStore_proofs!NobodyElseRevoked` | `Spec => []BitsAreRevocations` | the same |
| `SpStore_proofs!AnsweredAreRecorded` | `Spec => []AckedGrantsInLedger` | the same |
| `SpStore_proofs!AnswersKept` | `Spec => []KeptUnlessForgotten` | from the sequential invariant below |
| `SpStore_proofs!QuietFile` | `Spec => []QuietFileIsLedger` | the same |
| `ConsentGate_proofs!GateTypeCorrect` | `Spec => []TypeOK` | inductive; `held` stays within the grants because grants are only appended |
| `ConsentGate_proofs!RunsOnlyWithConsent` | `Spec => []RunImpliesConsent` | from the invariant below |
| `ConsentGate_proofs!RunsOnce` | `Spec => []RunsAtMostOnce` | from the invariant below |
| `ConsentGate_proofs!GateImplementsPolicy` | `Spec => ImplementsPolicy` | each step maps to one policy step or a stutter |
| `ConsentGate_proofs!RevocationIsFinal` | `Spec => []RevokedIsFinal` | from `SightInv`, below |
| `ConsentGate_proofs!GrantsAreReused` | `Spec => []StandingGrantReused` | from `SightInv` |
| `BrowserConsentVerifiers_proofs!PageTypeCorrect` | `Spec => []TypeOK` | inductive |
| `BrowserConsentVerifiers_proofs!BooksOnce` | `Spec => []BookedAtMostOnce` | from `CallInv`, below |
| `BrowserConsentVerifiers_proofs!DeclinedIsFinal` | `Spec => []DeclinedStaysUnbooked` | from `CallInv` |
| `BrowserConsentVerifiers_proofs!OnlyAcceptedRetried` | `Spec => []RetryFollowsConsent` | from `PageInv`, below |
| `PersonaStore_proofs!StoreTypeCorrect` | `Spec => []TypeOK` | inductive |
| `PersonaStore_proofs!StoreKeepsAnswers` | `~Racing => (Spec => []AnsweredAreKept)` | from the invariant below |
| `PersonaStore_proofs!StoreKnowsAnswers` | `~Racing => (Spec => []AnsweredAreKnown)` | the same |
| `PersonaStore_proofs!StoreImplementsRegistry` | `~Racing => (Spec => ImplementsRegistry)` | the step that truncates the manifest is the one that takes effect |
| `DelegationDemo_proofs!DemoTypeCorrect` | `Spec => []TypeOK` | with what a request knows of what it chose, below |
| `DelegationDemo_proofs!AuthorityIsShown` | `Spec => []ShownBoundsAuthority` | the credential that a persona names carries the scopes that are shown (`LinkInv`) |
| `DelegationDemo_proofs!LabelsAreTrue` | `Spec => []LabelNamesDelegator` | from `CalmInv` and `LabelInv`, below |
| `DelegationDemo_proofs!TargetStartsUnprivileged` | if `Wants[Target].scopes = {}`, `Spec => []DemoStartsUnprivileged` | from `CalmInv` and `TargetInv`, below |
| `DelegationDemo_proofs!DemoUsesRegistry` | `Spec => Registry!Spec /\ []UpdatesFindPersona` | personas are never removed, and a request updates only what it has found |
| `ConciergeChat_proofs!TypeCorrect` | `Spec => []TypeOK` | with `RoundsLeft`: a running turn has a round left |
| `ConciergeChat_proofs!AuthorizedRuns` | `Spec => RunsAreAuthorized` | from the chat's invariant below |
| `ConciergeChat_proofs!ToldResults` | `Spec => []ResultsTellRuns` | the same |
| `ConciergeChat_proofs!RememberedAnswers` | `Spec => []AnsweredIsRemembered` | the same |
| `ConciergeChat_proofs!PairedResults` | `Spec => []ResultsFollowCalls` | from `Histories`, below |
| `PlanSession_proofs!ChatTypes` | `Spec => []TypeOK` | inductive; `extractSlots` keeps a profile a profile, a suggestion is a message |
| `PlanSession_proofs!HistoryIsWhole` | `Spec => []HistoryAlternates` | what is retained of whole exchanges is whole (`LatestIsWhole`) |
| `PlanSession_proofs!AnswersMoveOn` | `Spec => []AnswerMovesOn` | from the planner's invariants below |
| `PlanSession_proofs!SearchesAreBookedOnce` | `Spec => []OneBookingPerSearch` | the same |
| `PlanSession_proofs!ChatIsTranscript` | `Spec => ImplementsTranscript` | the step that writes a reply is the one that takes effect |
| `Seeding_proofs!RegisteredKeyServes` | `Spec => []ServesWithRegisteredKey` | from the deployment's invariant below |
| `Seeding_proofs!ReseedingIsIdempotent` | `Spec => []ReseedingReuses` | the same |
| `Seeding_proofs!SeedingSuffices` | `Spec => []SeededIsUsable` | the same |
| `BrowserConsentVerifiers_proofs!VerdictsAreCurrent` | `VerifiersSpec => []GrantsAreCurrent` | what a request has been through by the step it is at |

*The ledger's invariant.* `Finalized` follows a grant from issueGrant into the
memory, the captured text and the file, torn or whole. `Positions` ties every
list that is installed, captured or written to the revocations begun, and a
grant's position to the grant that drew it. `Recorded` says that, since the
last restart, an answered acceptance has pushed onto the ledger in memory,
from which nothing is removed.

*One handler at a time.* What survives a restart is what is in the file, so
`KeptUnlessForgotten` needs to know about a flush halfway. `OneAtATime` says
that, while handlers do not overlap, one is in flight, the file that it has
truncated is still empty, the text that it will write is the memory, and the
list that it captured is the list in force. `FileFollows` then has the file
equal to the memory unless a request is flushing or has failed: `QuietFile`.
`Kept` says of the memory and of every readable file that they hold what was
answered; that an absent file, or a server booting with a fresh ledger, means
that nothing was, unless the ledger was forgotten; and that a handler which is
flushing has its own change in memory already, so that its answer, the next
step, promises only what is there.

*The gate's invariant.* `RunImpliesConsent` is not inductive: the step that
runs a tool looks at `eff`, not at the grant. `IInv` adds, per call: `eff` is
empty until the presentation is verified (`Unverified`); what was verified
lies within the agent's authority and within the presented grant, which is for
the agent's user (`EffWithinGrant`); a tool runs only in the last step of a
call (`RunsLast`); a call that asks for consent was not let through
(`DeniedBefore`); and a protected tool has run only if it was let through. For
the refinement the appended grant of an acceptance only adds consent, a
revocation only withdraws it, and `VerifyVP` is the only step that adds to
`authorized`, at a moment when the grant is unrevoked.

`SightInv` is about what the lookup found. The presented grant was among those
seen (`Chosen`); a call that chose a grant which was revoked by then neither is
let through nor prompts (`RevokedStops`); and a call that is about to prompt
has met a standing grant that does not cover its tool, or none (`NotCovered`).
Grants are only appended and revocations only added (`Grows`), so what was
seen stays true of the platform.

*The store's invariant.* `AnsweredAreKept` says nothing of the moments when
the manifest is empty under a writer's hands. `IInv` says that two calls in
progress are of one process and its lock separates them (`Disciplined`), that
therefore at most one is past its read (`Alone`), and, unless a write was cut
short, that what it is about to write is the manifest with its own entry
merged in (`MergedIsCurrent`), so the mapped registry `committed` is well
defined and keeps what was answered (`AnswersCommitted`, `AnswersKnown`).

*The page's invariants.* `CallInv` follows one call: what has booked is
over, what is pending waits for its consent, what the popup or a message is
about waits for it too or has been run again, and a declined call that had not
been run again is not under way, cannot be begun and is not pending any more.
That is enough because what runs again is the pending call,
and the listener clears the slot before it does. `PageInv` is about bookings
that do not overlap: the page, the messages and the waiting acceptances are all
of the one pending call (`OnlyOne`), and an acceptance on its way was given
(`FromAccepted`).

*The concierge's invariants.* `Local` says what a request knows whatever the
others do: the credential that it chose was issued, with the scopes that it
will write and by the delegator that it will name. Credentials are only
appended (`Grows`), so no other request can make it false, and `LinkInv`
follows. The two other properties need that what was read is still true:
`CalmInv` says so while no request has overlapped another, and while the demo's
agents are being created undisturbed. With it an update never replaces a DID
(`HandleKeeps`), which is why labels stay true (`LabelInv`), and the credential
that the demo found to suffice, or has just issued under a DID that nobody else
uses (`Fresh`), is the one its target presents (`TargetInv`).

*The chat's invariant.* The properties speak of histories, the server's steps
change jobs; `IInv` connects them. A job that waits to run was checked
(`JobsAreChecked`), a job is done exactly if its tool ran or was refused
(`Books`), a call is made once and in the turn's current round (`CallsOf`), a
result is written only for a finished job and agrees with it
(`ResultIsFinal`), a tool that ran is told of unless its turn is at it or
failed (`RunIsTold`), and a turn's array is the stored one unless the key is
raced (`StoredIsShared`). Arrays only grow, which `IInv` uses for the turns
that a step is not about.

`ResultsFollowCalls` speaks of what a provider is sent, the steps push onto
arrays; `toAnthropicMessages` keeps positions, roles and identities, so the
property is proved of the arrays. `Histories` says of every array that a call
has one result, or none if it is that of a turn which works on the array and
is at a tool or failed there (`Paired` with `OpenIn`), and of a turn at a tool
that its call is in the array with only other turns' entries after it
(`Pending`): that is what the pushing of its result needs, and what pushes of
other turns leave alone.

*The planner's invariants.* Three, each on top of the one before. `IInv` holds
whatever overlaps: a message in flight is sound (`Sound`: what it asks is a
question of its leg, the suggestion it answers was made for such a question,
what it will book was on offer when it was sent, what it has read is whole),
histories are whole, and the question that the page waits for belongs to the
page's leg. `OnePage` adds that the page's session is the only live one.
`Undisturbed` is about one message at a time. What waits for the model has read
the whole history (`ReadsLatest`), which makes the write of a reply a step of
the transcript. What is on offer is what it was sent with (`ActsOnOffered`), and
the bookings made, with one to come for each kind of result still on offer, are
never more than the searches (`Balanced`): `OneBookingPerSearch` alone is not
inductive, since it does not say that the offer is withdrawn by the booking
that uses it. A question about to be asked is not the one that is being
answered (`AsksAnew`), because the engine asks only for what is missing
(`QuestionIsOpen`) and a suggested answer fills the field it was suggested for
on every leg that can ask for it (`SuggestionFills`, where the home city is the
exception).

*The verifiers' invariant.* A cached verdict lives exactly as long as the
presentation it is about (`CacheIsLifetime`), what a request found when it began
is still so, since revocations are final and time goes on (`FoundStillHolds`),
and every step of a path has behind it what the earlier ones checked
(`Established`).

*The deployment's invariant.* A listening process holds the registered key
(`ApiInv`), which no step changes once set. What the seeder has passed is in
place: identities of the SPs it is done with are whole (`Provisioned`), the
agent that it is about to write exists (`AgentKnown`). `FewKeys` and `FewAgents`
count the keys and agents made against what was disturbed or aborted, with one
more allowed while the files are `Complete`: readable, or between a truncation
and the write by an SP or a seeder that has not stopped. A write that ends in a
torn file is itself counted, so nothing is assumed about how writes overlap.

Assumptions: the named ASSUMEs of the modules only, about the types of the
constants, and that `None` is none of the values it stands beside (`NoTurn`,
`NoJob`, `NoHistory`, no entry of the registry); TLC evaluates them in the runs. The three theorems under `~Racing` are
about calls that exclude each other. The condition is needed: with it dropped,
two overlapping additions lose an entry (section 4).

Model-checked only: `ServesAgain`, `CallsEnd`, `AcceptedIsRetried`,
`QuestionsEnd`, `TurnsEnd`, `SeederEnds`, which are liveness and out of the
prover's reach. Every safety property of a passing run is a theorem. The three
properties of section 4 are false, so there is nothing to prove about them. The
type invariants of `BrowserConsent`, `DelegationDemo`, `PlanSession`,
`ConciergeChat`, `Seeding` and `Verifiers` are no run's property; all are part
of what is proved.

The theorems about the page and about the verifiers, which have nothing to do
with each other, are in one module; `Verifiers` therefore names its operators
`VerifiersInit`, `VerifiersNext` and so on, so that one module can extend both.

## 6. Fairness

* `SpStore`: the runtime keeps running every handler it has begun (an event
  loop and threads both schedule what is ready), and the server is started
  again after a crash (`restart: unless-stopped`, `docker-compose.yml:21` of the
  demo). Clients need not call. Weak fairness is enough, since no handler's
  step is disabled by another's for good.
* `ConsentGate`: servers and agent process what was begun, and a prompt is
  answered one way or the other: `/api/call` answers it itself, with null, at
  once. Nobody has to call, accept or revoke.
* `BrowserConsent`: the browser delivers posted messages and resolves
  promises. The user need not click; an open popup may stay open.
* `PlanSession`: the agent handles what arrives and the timer around a
  rewording fires. The model need not answer and the user need not send.
* `ConciergeChat`: each await of a turn ends, with an answer or an exception:
  the model providers' clients and callMcpTool's request have timeouts. Nothing
  is assumed of the server, nor of new requests.
* `Seeding`: the seeder's script goes on until it ends. Neither the API nor an
  SP need ever start: waitForApi gives up after sixty attempts.
* `PersonaStore`, `DelegationDemo` and `Verifiers` have safety properties only.

Runs whose system may legitimately stop (every call answered, every bound used
up) turn the deadlock check off. `DelegationDemo` leaves it on: a request can
always fail, and at the bounds requests that issue nothing can still begin.

Bounds: `MaxCrashes`, `MaxGrants`, `MaxPages`, `MaxFailures`, `MaxCreds`,
`MaxTurns`, `MaxOverlaps`, `MaxRevoked`, `MaxBoots`, `MaxAgents`, `MaxRuns`,
`MaxFlushes`, `MaxTime` and `MaxKeys` are guards of the actions that would
exceed them; none appears in a property. `Rounds` is the code's own limit. Symmetry is used where only safety is checked
(`persona_restarts`, `delegation_requests`).

## 7. Plan

Done: the components above, in the order of what they protect: the SP's
ledger, the gate, the page, the persona store, delegation, the planner; then
the concierge's chat and guarded tools, the deployment, and the verifiers.

To come, in this order:

1. `/revoke-agent` of a persona that holds several credentials, as a property
   of `DelegationDemo`.
2. `DemoScript` (`web.ts:575-620`) over `BrowserConsent`: the unattended script
   that waits for a consent button.

The number of runs is kept to a dozen: later modules share a run with the
component they extend, or take the place of a run of section 4 whose finding
is then described here alone.

## 8. Not modelled

* The library, databases, model providers: external.
* HTML, styling, document encodings: no state, and no property here is about
  them. Of the provider adapters only the order and the kinds of the messages
  are modelled, as the Anthropic adapter sends them; the others rename roles.
  The errors of all of them are `ProviderFails`.
* The routes of the API process: they are the library's.
* Requests to `/mcp` without a presentation: they are denied at once and change
  nothing.
* The audit trail: fire and forget; no state of the program depends on it.
* `resolve_scopes.py`: a pure check; a refused selection is `AcceptRejected`.
* The delegation, scope-check and SDK examples and the framework samples:
  straight-line use of a live API without state of their own.
* The database schema, one-off setup, tests, screenshots.
