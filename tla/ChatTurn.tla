------------------------------ MODULE ChatTurn ------------------------------
(***************************************************************************)
(* A chat turn of the travel concierge: the /chat handler of               *)
(* agent/server.ts and runChatTurn, which alternates between the provider, *)
(* whose answer is a text or a tool call, and the tools.                   *)
(*                                                                         *)
(* The histories are arrays that requests share: a turn pushes onto the    *)
(* array that the map holds for its key, between any two pushes of another *)
(* turn that found the same array.  Where the map holds none, the turn     *)
(* works on an array of its own and stores it when it ends.                *)
(*                                                                         *)
(* An array is named by the turn that created it, a tool call by its turn  *)
(* and round.  What the provider answers is its own choice, and any call   *)
(* may throw.                                                              *)
(***************************************************************************)
EXTENDS GuardedTool, Sequences

CONSTANTS
    Turns,          \* requests to /chat, each made once
    Personas,       \* those that getPersona knows
    Conversations,
    Rounds          \* provider calls in a turn: 4

ASSUME TurnAssumption ==
    /\ Rounds \in Nat \ {0}
    /\ None \notin Turns /\ None \notin Tools /\ None \notin Personas

VARIABLES
    arrays,  \* each array's messages
    stored,  \* conversations: the array that the map holds for a key
    turn,    \* each request
    raced    \* keys with two turns that both found no array

chatVars == <<arrays, stored, turn, raced>>

Keys    == Conversations \X Personas
CallIds == Turns \X (0 .. Rounds - 1)

\* A text closes a turn; a call's result names the call.
Message ==
    [role : {"user", "text"}, of : Turns]
        \cup [role : {"call"}, id : CallIds]
        \cup [role : {"result"}, id : CallIds, ok : BOOLEAN]

Turn ==
    [at     : {"complete", "tool", "answered", "failed"},
     conv   : Conversations,
     as     : Personas,
     key    : Keys,
     hist   : Turns,         \* its array
     round  : 0 .. Rounds,
     tool   : Tools \cup {None}]

ASSUME NoTurn == None \notin Turn

ChatTypeOK ==
    /\ arrays \in [Turns -> Seq(Message)]
    /\ stored \in [Keys -> Turns \cup {None}]
    /\ turn \in [Turns -> Turn \cup {None}]
    /\ raced \subseteq Keys

ChatInit ==
    /\ arrays = [t \in Turns |-> <<>>]
    /\ stored = [k \in Keys |-> None]
    /\ turn = [t \in Turns |-> None]
    /\ raced = {}

At(t, step) == turn[t] # None /\ turn[t].at = step
Running(t)  == At(t, "complete") \/ At(t, "tool")
ThisCall(t) == <<t, turn[t].round>>

CallOf(t)    == [role |-> "call", id |-> ThisCall(t)]
Said(who, t) == [role |-> who, of |-> t]

\* Mutant: the tool's answer is taken for a success.
ResultOf_Success(t, ok) == [role |-> "result", id |-> ThisCall(t), ok |-> TRUE]

ResultOf(t, ok) == [role |-> "result", id |-> ThisCall(t), ok |-> ok]

\* Mutant: the array is looked up in the map again.
Push_Reread(t, msgs) ==
    LET h == stored[turn[t].key]
    IN arrays' = [arrays EXCEPT ![IF h = None THEN turn[t].hist ELSE h] = @ \o msgs]

Push(t, msgs) == arrays' = [arrays EXCEPT ![turn[t].hist] = @ \o msgs]
-----------------------------------------------------------------------------
\* The request is accepted: the array of its key, or a new one, gets the
\* user's message.
Begin(t) ==
    /\ turn[t] = None
    /\ \E c \in Conversations, p \in Personas :
        LET k == <<c, p>>
            h == IF stored[k] = None THEN t ELSE stored[k]
        IN /\ turn' = [turn EXCEPT ![t] =
                [at |-> "complete", conv |-> c, as |-> p, key |-> k, hist |-> h, round |-> 0,
                 tool |-> None]]
           /\ arrays' = [arrays EXCEPT ![h] = Append(@, Said("user", t))]
           /\ raced' = IF stored[k] = None /\ \E u \in Turns : Running(u) /\ turn[u].key = k
                       THEN raced \cup {k}
                       ELSE raced
    /\ UNCHANGED stored

\* conversations.set
Store(t) == stored' = [stored EXCEPT ![turn[t].key] = turn[t].hist]

Goto(t, step) == turn' = [turn EXCEPT ![t].at = step]

\* The provider answers with a text: the turn is over.
Answer(t) ==
    /\ At(t, "complete")
    /\ Push(t, <<Said("text", t)>>)
    /\ Store(t)
    /\ Goto(t, "answered")
    /\ UNCHANGED raced

\* Mutant: the exception is not caught, and the request stays unanswered.
Throw_Uncaught(t) == Running(t) /\ UNCHANGED <<arrays, stored, turn, raced>>

\* The provider or the tool throws: nothing is undone, nothing is stored.
Throw(t) ==
    /\ Running(t)
    /\ Goto(t, "failed")
    /\ UNCHANGED <<arrays, stored, raced>>

\* The provider calls a tool.
CallTool(t, tool) ==
    /\ At(t, "complete")
    /\ Push(t, <<CallOf(t)>>)
    /\ turn' = [turn EXCEPT ![t].at = "tool", ![t].tool = tool]
    /\ UNCHANGED <<stored, raced>>

\* Mutant: giving up does not store the history.
AfterResult_Forgets(t) ==
    /\ turn' = [turn EXCEPT ![t].at = IF turn[t].round + 1 < Rounds THEN "complete" ELSE "answered",
                            ![t].round = @ + 1]
    /\ UNCHANGED stored

\* The next round; after the last one "Sorry" is the answer, and the history
\* ends with the result.
AfterResult(t) ==
    IF turn[t].round + 1 < Rounds
    THEN turn' = [turn EXCEPT ![t].at = "complete", ![t].round = @ + 1] /\ UNCHANGED stored
    ELSE turn' = [turn EXCEPT ![t].at = "answered", ![t].round = @ + 1] /\ Store(t)

\* A tool of that name is not known: an error is its result, at once.
UnknownTool(t) ==
    /\ At(t, "complete")
    /\ Push(t, <<CallOf(t), ResultOf(t, FALSE)>>)
    /\ AfterResult(t)
    /\ UNCHANGED raced

\* The tool's result, a success or a refusal.
ToolResult(t, ok) ==
    /\ At(t, "tool")
    /\ Push(t, <<ResultOf(t, ok)>>)
    /\ AfterResult(t)
    /\ UNCHANGED raced
-----------------------------------------------------------------------------
(***************************************************************************)
(* Properties.                                                             *)
(***************************************************************************)
\* A request's messages: one block for each message of the history, as the
\* provider's API wants it.
toAnthropicMessages(h) ==
    [i \in DOMAIN h |->
        IF h[i].role \in {"call", "result"}
        THEN [from |-> IF h[i].role = "call" THEN "assistant" ELSE "user",
              is |-> IF h[i].role = "call" THEN "tool_use" ELSE "tool_result", id |-> h[i].id]
        ELSE [from |-> IF h[i].role = "text" THEN "assistant" ELSE "user", is |-> "text"]]

MsgTurn(m) == IF m.role \in {"user", "text"} THEN m.of ELSE m.id[1]

Results(b, id) == {j \in DOMAIN b : b[j].is = "tool_result" /\ b[j].id = id}

\* "Record the assistant's tool-call turn so the provider history stays
\* valid": what is sent begins with the user; a tool_use has one tool_result,
\* or none while its tool is running and after it has thrown; and a tool_result
\* follows its tool_use with only messages of concurrent turns between the two.
ResultsFollowCalls ==
    \A a \in Turns : LET b == toAnthropicMessages(arrays[a]) IN \A i \in DOMAIN b :
        /\ b[1] = [from |-> "user", is |-> "text"]
        /\ b[i].is = "tool_use" =>
            LET t == b[i].id[1]
                found == Results(b, b[i].id)
            IN \/ Cardinality(found) = 1
               \/ found = {} /\ turn[t].at \in {"tool", "failed"} /\ ThisCall(t) = b[i].id
        /\ b[i].is = "tool_result" =>
            \E j \in 1 .. i - 1 :
                /\ b[j].is = "tool_use" /\ b[j].id = b[i].id
                /\ \A n \in j + 1 .. i - 1 : MsgTurn(arrays[a][n]) # MsgTurn(arrays[a][i])

\* An exchange that was answered stays in the history that later turns find,
\* unless two turns were both the first of their key.
AnsweredIsRemembered ==
    \A t \in Turns : At(t, "answered") /\ turn[t].key \notin raced =>
        stored[turn[t].key] = turn[t].hist
=============================================================================
