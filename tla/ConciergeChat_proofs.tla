------------------------ MODULE ConciergeChat_proofs ------------------------
(***************************************************************************)
(* Proofs about ConciergeChat, for any sets of turns, conversations,       *)
(* personas, tools and credentials, and any number of rounds.              *)
(***************************************************************************)
EXTENDS ConciergeChat, SequenceTheorems, FiniteSetTheorems, TLAPS

Rs == 0 .. Rounds - 1

LEMMA CallFacts ==
    /\ Calls = Turns \X Rs
    /\ \A t \in Turns, i \in Rs : <<t, i>> \in Calls
    /\ \A k \in Calls : k[1] \in Turns /\ k[2] \in Rs /\ k = <<k[1], k[2]>>
    /\ Rounds \in Nat \ {0}
BY ConciergeAssumption, TurnAssumption DEF CallIds, Rs

(***************************************************************************)
(* What is in an array: the order is not looked at.                        *)
(***************************************************************************)
In(s, m)  == \E i \in DOMAIN s : s[i] = m
Has(a, m) == In(arrays[a], m)

LEMMA PushOne ==
  ASSUME NEW s \in Seq(Message), NEW m \in Message, NEW u, u = s \o <<m>>
  PROVE  /\ u \in Seq(Message)
         /\ \A x : In(u, x) <=> In(s, x) \/ x = m
<1>1. <<m>> \in Seq(Message) /\ Len(<<m>>) = 1 /\ <<m>>[1] = m
  OBVIOUS
<1>2. u \in Seq(Message) /\ Len(u) = Len(s) + 1 /\ Len(s) \in Nat
  BY <1>1, ConcatProperties
<1>3. \A i \in 1 .. Len(s) : u[i] = s[i]
  BY <1>1, ConcatProperties
<1>4. u[Len(s) + 1] = m
  BY <1>1, <1>2, ConcatProperties
<1>5. DOMAIN u = 1 .. Len(s) + 1 /\ DOMAIN s = 1 .. Len(s)
  BY <1>2
<1>6. \A x : (\E i \in DOMAIN u : u[i] = x) <=> (\E i \in DOMAIN s : s[i] = x) \/ x = m
  <2>. TAKE x
  <2>1. ASSUME NEW i \in DOMAIN u, u[i] = x
        PROVE  (\E j \in DOMAIN s : s[j] = x) \/ x = m
    <3>1. i \in 1 .. Len(s) \/ i = Len(s) + 1
      BY <1>2, <1>5
    <3>. QED BY <2>1, <3>1, <1>3, <1>4, <1>5
  <2>2. ASSUME NEW i \in DOMAIN s, s[i] = x
        PROVE  \E j \in DOMAIN u : u[j] = x
    BY <2>2, <1>2, <1>3, <1>5
  <2>3. ASSUME x = m
        PROVE  \E j \in DOMAIN u : u[j] = x
    BY <2>3, <1>2, <1>4, <1>5
  <2>. QED BY <2>1, <2>2, <2>3
<1>. QED BY <1>2, <1>6 DEF In

LEMMA AppendOne ==
  ASSUME NEW s \in Seq(Message), NEW m \in Message
  PROVE  Append(s, m) = s \o <<m>>
OBVIOUS

LEMMA PushTwo ==
  ASSUME NEW s \in Seq(Message), NEW m \in Message, NEW n \in Message, NEW u, u = s \o <<m, n>>
  PROVE  /\ u \in Seq(Message)
         /\ \A x : In(u, x) <=> In(s, x) \/ x = m \/ x = n
<1>1. u = (s \o <<m>>) \o <<n>>
  <2>1. <<m>> \in Seq(Message) /\ <<n>> \in Seq(Message)
    OBVIOUS
  <2>2. <<m, n>> = Append(<<m>>, n)
    OBVIOUS
  <2>3. <<m, n>> = <<m>> \o <<n>>
    BY <2>1, <2>2, AppendOne
  <2>. QED BY <2>1, <2>3, ConcatAssociative
<1>. DEFINE v == s \o <<m>>
<1>2. /\ v \in Seq(Message)
      /\ \A x : In(v, x) <=> In(s, x) \/ x = m
  BY PushOne
<1>3. u = v \o <<n>>
  BY <1>1
<1>. HIDE DEF v
<1>4. /\ u \in Seq(Message)
      /\ \A x : In(u, x) <=> In(v, x) \/ x = n
  BY <1>2, <1>3, PushOne
<1>. QED BY <1>2, <1>4

(***************************************************************************)
(* A running turn has a call left, whose name is ThisCall; one that is at  *)
(* a tool has chosen it.                                                   *)
(***************************************************************************)
RoundsLeft ==
    \A t \in Turns :
        /\ Running(t) => turn[t].round \in Rs
        /\ At(t, "tool") => turn[t].tool \in Tools

Types == TypeOK /\ RoundsLeft

LEMMA TurnFacts ==
  ASSUME Types, NEW t \in Turns, turn[t] # None
  PROVE  /\ turn[t] \in Turn
         /\ turn[t].hist \in Turns
         /\ turn[t].key \in Keys
         /\ turn[t].round \in 0 .. Rounds
         /\ Running(t) => ThisCall(t) \in Calls /\ CallOf(t) \in Message
                         /\ \A ok \in BOOLEAN : ResultOf(t, ok) \in Message
         /\ Said("user", t) \in Message /\ Said("text", t) \in Message
<1>1. turn[t] \in Turn
  BY DEF Types, TypeOK, ChatTypeOK
<1>2. Running(t) => ThisCall(t) \in CallIds
  BY CallFacts, ConciergeAssumption DEF Types, RoundsLeft, ThisCall
<1>3. Running(t) => CallOf(t) \in Message /\ \A ok \in BOOLEAN : ResultOf(t, ok) \in Message
  BY <1>2 DEF CallOf, ResultOf, Message
<1>4. Said("user", t) \in Message /\ Said("text", t) \in Message
  BY DEF Said, Message
<1>. QED
  BY <1>1, <1>2, <1>3, <1>4, ConciergeAssumption DEF Turn

LEMMA PushEffect ==
  ASSUME Types, NEW t \in Turns, turn[t] # None, NEW m \in Message, Push(t, <<m>>)
  PROVE  /\ arrays' \in [Turns -> Seq(Message)]
         /\ \A a \in Turns : \A x : Has(a, x)' <=> Has(a, x) \/ (a = turn[t].hist /\ x = m)
<1>1. turn[t].hist \in Turns /\ arrays \in [Turns -> Seq(Message)]
  BY TurnFacts DEF Types, TypeOK, ChatTypeOK
<1>2. \A a \in Turns : arrays'[a] = IF a = turn[t].hist THEN arrays[a] \o <<m>> ELSE arrays[a]
  BY <1>1 DEF Push
<1>3. arrays' = [a \in Turns |-> arrays'[a]]
  BY <1>1 DEF Push
<1>4. ASSUME NEW a \in Turns
      PROVE  /\ arrays'[a] \in Seq(Message)
             /\ \A x : Has(a, x)' <=> Has(a, x) \/ (a = turn[t].hist /\ x = m)
  <2>1. arrays[a] \in Seq(Message)
    BY <1>1
  <2>2. CASE a = turn[t].hist
    <3>1. arrays'[a] = arrays[a] \o <<m>>
      BY <1>2, <2>2
    <3>2. /\ arrays'[a] \in Seq(Message)
          /\ \A x : In(arrays'[a], x) <=> In(arrays[a], x) \/ x = m
      BY <2>1, <3>1, PushOne
    <3>. QED BY <2>2, <3>2 DEF Has
  <2>3. CASE a # turn[t].hist
    BY <1>2, <2>1, <2>3 DEF Has
  <2>. QED BY <2>2, <2>3
<1>. QED
  BY <1>3, <1>4

LEMMA PushTwoEffect ==
  ASSUME Types, NEW t \in Turns, turn[t] # None, NEW m \in Message, NEW n \in Message,
         Push(t, <<m, n>>)
  PROVE  /\ arrays' \in [Turns -> Seq(Message)]
         /\ \A a \in Turns : \A x :
                Has(a, x)' <=> Has(a, x) \/ (a = turn[t].hist /\ (x = m \/ x = n))
<1>1. turn[t].hist \in Turns /\ arrays \in [Turns -> Seq(Message)]
  BY TurnFacts DEF Types, TypeOK, ChatTypeOK
<1>2. \A a \in Turns : arrays'[a] = IF a = turn[t].hist THEN arrays[a] \o <<m, n>> ELSE arrays[a]
  BY <1>1 DEF Push
<1>3. arrays' = [a \in Turns |-> arrays'[a]]
  BY <1>1 DEF Push
<1>4. ASSUME NEW a \in Turns
      PROVE  /\ arrays'[a] \in Seq(Message)
             /\ \A x : Has(a, x)' <=> Has(a, x) \/ (a = turn[t].hist /\ (x = m \/ x = n))
  <2>1. arrays[a] \in Seq(Message)
    BY <1>1
  <2>2. CASE a = turn[t].hist
    <3>1. arrays'[a] = arrays[a] \o <<m, n>>
      BY <1>2, <2>2
    <3>2. /\ arrays'[a] \in Seq(Message)
          /\ \A x : In(arrays'[a], x) <=> In(arrays[a], x) \/ x = m \/ x = n
      BY <2>1, <3>1, PushTwo
    <3>. QED BY <2>2, <3>2 DEF Has
  <2>3. CASE a # turn[t].hist
    BY <1>2, <2>1, <2>3 DEF Has
  <2>. QED BY <2>2, <2>3
<1>. QED
  BY <1>3, <1>4

(***************************************************************************)
(* What the steps of a turn do to turn, arrays and stored.                 *)
(***************************************************************************)
\* The turn itself: it begins, goes on with the same array, or ends.
Goes(t, T) ==
    /\ turn' = [turn EXCEPT ![t] = T]
    /\ T \in Turn
    /\ T.at \in {"complete", "tool"} => T.round \in Rs
    /\ T.at = "tool" => T.tool \in Tools

LEMMA GoesTypes ==
  ASSUME Types, NEW t \in Turns, NEW T, Goes(t, T),
         arrays' \in [Turns -> Seq(Message)], stored' \in [Keys -> Turns \cup {None}],
         raced' \subseteq Keys, ToolTypeOK'
  PROVE  Types'
<1>1. \A u \in Turns : turn'[u] = IF u = t THEN T ELSE turn[u]
  BY DEF Types, TypeOK, ChatTypeOK, Goes
<1>2. turn' \in [Turns -> Turn \cup {None}]
  BY DEF Types, TypeOK, ChatTypeOK, Goes
<1>3. RoundsLeft'
  BY <1>1 DEF Types, RoundsLeft, Goes, Running, At
<1>. QED
  BY <1>2, <1>3 DEF Types, TypeOK, ChatTypeOK

LEMMA BeginGoes ==
  ASSUME Types, NEW t \in Turns, Begin(t)
  PROVE  \E c \in Conversations, p \in Personas, h \in Turns :
            LET k == <<c, p>>
                T == [at |-> "complete", conv |-> c, as |-> p, key |-> k, hist |-> h, round |-> 0,
                      tool |-> None]
            IN /\ Goes(t, T)
               /\ k \in Keys
               /\ h = IF stored[k] = None THEN t ELSE stored[k]
               /\ arrays' = [arrays EXCEPT ![h] = Append(@, Said("user", t))]
               /\ raced' = IF stored[k] = None /\ \E u \in Turns : Running(u) /\ turn[u].key = k
                           THEN raced \cup {k}
                           ELSE raced
<1>1. PICK c \in Conversations, p \in Personas :
        LET k == <<c, p>>
            h == IF stored[k] = None THEN t ELSE stored[k]
        IN /\ turn' = [turn EXCEPT ![t] =
                [at |-> "complete", conv |-> c, as |-> p, key |-> k, hist |-> h, round |-> 0,
                 tool |-> None]]
           /\ arrays' = [arrays EXCEPT ![h] = Append(@, Said("user", t))]
           /\ raced' = IF stored[k] = None /\ \E u \in Turns : Running(u) /\ turn[u].key = k
                       THEN raced \cup {k}
                       ELSE raced
  BY DEF Begin
<1>. DEFINE k == <<c, p>>
            h == IF stored[k] = None THEN t ELSE stored[k]
            T == [at |-> "complete", conv |-> c, as |-> p, key |-> k, hist |-> h, round |-> 0,
                  tool |-> None]
<1>2. k \in Keys
  BY DEF Keys
<1>3. h \in Turns
  BY <1>2 DEF Types, TypeOK, ChatTypeOK
<1>. HIDE DEF h
<1>4. 0 \in Rs /\ 0 \in 0 .. Rounds
  BY CallFacts DEF Rs
<1>5. T \in Turn /\ T.round = 0
  BY <1>2, <1>3, <1>4 DEF Turn
<1>6. Goes(t, T)
  BY <1>1, <1>4, <1>5 DEF Goes, h
<1>. QED
  BY <1>1, <1>2, <1>3, <1>6 DEF h

LEMMA AfterResultGoes ==
  ASSUME Types, NEW t \in Turns, Running(t), AfterResult(t)
  PROVE  \E T : /\ Goes(t, T)
               /\ T.key = turn[t].key /\ T.hist = turn[t].hist /\ T.round = turn[t].round + 1
               /\ \/ T.at = "complete" /\ UNCHANGED stored
                  \/ T.at = "answered" /\ Store(t)
<1>1. turn[t] \in Turn /\ turn[t].round \in Rs /\ Rounds \in Nat
  BY TurnFacts, CallFacts DEF Types, RoundsLeft, Running, At
<1>2. CASE turn[t].round + 1 < Rounds
  <2>. DEFINE T == [turn[t] EXCEPT !.at = "complete", !.round = turn[t].round + 1]
  <2>1. turn' = [turn EXCEPT ![t] = T] /\ UNCHANGED stored
    BY <1>2 DEF AfterResult
  <2>2. /\ T \in Turn /\ T.at = "complete" /\ T.round = turn[t].round + 1
        /\ T.key = turn[t].key /\ T.hist = turn[t].hist
    <3>1. turn[t].round + 1 \in 0 .. Rounds
      BY <1>1 DEF Rs
    <3>. QED BY <1>1, <3>1 DEF Turn
  <2>3. T.round \in Rs
    BY <1>1, <1>2, <2>2 DEF Rs
  <2>. HIDE DEF T
  <2>. QED BY <2>1, <2>2, <2>3 DEF Goes
<1>3. CASE ~(turn[t].round + 1 < Rounds)
  <2>. DEFINE T == [turn[t] EXCEPT !.at = "answered", !.round = turn[t].round + 1]
  <2>1. turn' = [turn EXCEPT ![t] = T] /\ Store(t)
    BY <1>3 DEF AfterResult
  <2>2. /\ T \in Turn /\ T.at = "answered" /\ T.round = turn[t].round + 1
        /\ T.key = turn[t].key /\ T.hist = turn[t].hist
    <3>1. turn[t].round + 1 \in 0 .. Rounds
      BY <1>1 DEF Rs
    <3>. QED BY <1>1, <3>1 DEF Turn
  <2>. HIDE DEF T
  <2>. QED BY <2>1, <2>2 DEF Goes
<1>. QED
  BY <1>2, <1>3

\* The steps that leave the round alone.
LEMMA GotoGoes ==
  ASSUME Types, NEW t \in Turns, Running(t), NEW step \in {"answered", "failed"},
         Goto(t, step)
  PROVE  \E T : /\ Goes(t, T) /\ T.at = step
               /\ T.key = turn[t].key /\ T.hist = turn[t].hist /\ T.round = turn[t].round
<1>1. turn[t] \in Turn /\ turn[t].round \in Rs
  BY TurnFacts DEF Types, RoundsLeft, Running, At
<1>. DEFINE T == [turn[t] EXCEPT !.at = step]
<1>2. turn' = [turn EXCEPT ![t] = T]
  BY DEF Goto
<1>3. /\ T \in Turn /\ T.at = step /\ T.round = turn[t].round
      /\ T.key = turn[t].key /\ T.hist = turn[t].hist
  BY <1>1 DEF Turn
<1>. HIDE DEF T
<1>. QED BY <1>1, <1>2, <1>3 DEF Goes

LEMMA CallToolGoes ==
  ASSUME Types, NEW t \in Turns, NEW tl \in Tools, CallTool(t, tl)
  PROVE  \E T : /\ Goes(t, T) /\ T.at = "tool"
               /\ T.key = turn[t].key /\ T.hist = turn[t].hist /\ T.round = turn[t].round
<1>1. turn[t] \in Turn /\ turn[t].round \in Rs
  BY TurnFacts DEF Types, RoundsLeft, Running, At, CallTool
<1>. DEFINE T == [turn[t] EXCEPT !.at = "tool", !.tool = tl]
<1>2. turn' = [turn EXCEPT ![t] = T]
  BY DEF CallTool
<1>3. /\ T \in Turn /\ T.at = "tool" /\ T.tool = tl /\ T.round = turn[t].round
      /\ T.key = turn[t].key /\ T.hist = turn[t].hist
  BY <1>1 DEF Turn
<1>. HIDE DEF T
<1>. QED BY <1>1, <1>2, <1>3 DEF Goes

LEMMA StoreType ==
  ASSUME Types, NEW t \in Turns, turn[t] # None, Store(t)
  PROVE  /\ stored' \in [Keys -> Turns \cup {None}]
         /\ \A k \in Keys : stored'[k] = IF k = turn[t].key THEN turn[t].hist ELSE stored[k]
BY TurnFacts DEF Types, TypeOK, ChatTypeOK, Store

(***************************************************************************)
(* The tool calls: what is known of a job at the server ...                *)
(***************************************************************************)
Checked(j) ==
    /\ Good(j.vp) => j.fresh
    /\ j.at \in {"gate", "run"} => j.verified \/ Delegated(j.vp)
    /\ j.at = "run" => j.fresh /\ Needs[j.tool] \in ScopesOf[j.vp]

JobsAreChecked == \A k \in Calls : job[k] \in Job => Checked(job[k])

\* ... and how the caller's side, the server's side and the runs agree.
Books ==
    \A k \in Calls :
        /\ call[k] \in {"unmade", "sign"} => job[k] = None /\ k \notin ran
        /\ call[k] = "sent" => job[k] # None
        /\ job[k] # None => (k \in ran <=> job[k] \in Done /\ job[k].ok)

ToolInv == ToolTypeOK /\ JobsAreChecked /\ Books

LEMMA JobFacts ==
    /\ None \notin Job /\ None \notin Done
    /\ \A j \in Job : j \notin Done /\ j.at # "done"
    /\ \A ok \in BOOLEAN : [at |-> "done", ok |-> ok] \in Done /\ [at |-> "done", ok |-> ok].ok = ok
    /\ \A j \in Done : j \notin Job /\ j.at = "done" /\ j.ok \in BOOLEAN
<1>1. None \notin Job /\ None \notin Done
  BY NoJob
<1>2. \A j \in Job : j.at # "done"
  BY DEF Job
<1>3. \A j \in Done : j.at = "done" /\ j.ok \in BOOLEAN
  BY DEF Done
<1>4. \A ok \in BOOLEAN : [at |-> "done", ok |-> ok] \in Done /\ [at |-> "done", ok |-> ok].ok = ok
  BY DEF Done
<1>. QED BY <1>1, <1>2, <1>3, <1>4

LEMMA JobMoves ==
  ASSUME ToolInv, NEW k \in Calls, NEW J, J \in Job \cup Done \cup {None},
         job' = [job EXCEPT ![k] = J], J \in Job => Checked(J),
         revoked' = revoked,
         call' \in [Calls -> {"unmade", "sign", "sent", "closed"}], ran' \subseteq Calls
  PROVE  /\ ToolTypeOK' /\ JobsAreChecked'
         /\ \A l \in Calls : job'[l] = IF l = k THEN J ELSE job[l]
<1>1. \A l \in Calls : job'[l] = IF l = k THEN J ELSE job[l]
  BY DEF ToolInv, ToolTypeOK
<1>2. ToolTypeOK'
  BY DEF ToolInv, ToolTypeOK
<1>3. \A j : Checked(j)' <=> Checked(j)
  BY DEF Checked, Good, Delegated
<1>4. JobsAreChecked'
  BY <1>1, <1>3 DEF ToolInv, JobsAreChecked
<1>. QED BY <1>1, <1>2, <1>4

LEMMA MakeEffect ==
  ASSUME ToolInv, NEW k \in Calls, Make(k)
  PROVE  /\ ToolInv' /\ UNCHANGED <<job, ran>> /\ call[k] = "unmade"
         /\ \A l \in Calls : call'[l] = IF l = k THEN "sign" ELSE call[l]
<1>1. \A l \in Calls : call'[l] = IF l = k THEN "sign" ELSE call[l]
  BY DEF Make, ToolInv, ToolTypeOK
<1>2. ToolTypeOK' /\ Books'
  BY <1>1 DEF Make, ToolInv, ToolTypeOK, Books
<1>3. JobsAreChecked'
  BY DEF Make, ToolInv, JobsAreChecked, Checked, Good, Delegated
<1>. QED BY <1>1, <1>2, <1>3 DEF Make, ToolInv

LEMMA LoseEffect ==
  ASSUME ToolInv, NEW k \in Calls, Lose(k)
  PROVE  /\ ToolInv' /\ UNCHANGED <<job, ran>>
         /\ \A l \in Calls : call'[l] = IF l = k THEN "closed" ELSE call[l]
<1>1. \A l \in Calls : call'[l] = IF l = k THEN "closed" ELSE call[l]
  BY DEF Lose, ToolInv, ToolTypeOK
<1>2. ToolTypeOK' /\ Books'
  BY <1>1 DEF Lose, ToolInv, ToolTypeOK, Books
<1>3. JobsAreChecked'
  BY DEF Lose, ToolInv, JobsAreChecked, Checked, Good, Delegated
<1>. QED BY <1>1, <1>2, <1>3 DEF Lose, ToolInv

LEMMA SignEffect ==
  ASSUME ToolInv, NEW k \in Calls, NEW tl \in Tools, NEW c \in Creds, Sign(k, tl, c)
  PROVE  /\ ToolInv' /\ UNCHANGED ran /\ call[k] = "sign"
         /\ \A l \in Calls : call'[l] = IF l = k THEN "sent" ELSE call[l]
         /\ \A l \in Calls : l # k => job'[l] = job[l]
<1>. DEFINE J == [at |-> "verify", tool |-> tl, vp |-> c, fresh |-> Good(c), verified |-> FALSE]
<1>1. /\ job' = [job EXCEPT ![k] = J] /\ revoked' = revoked /\ ran' = ran /\ call[k] = "sign"
      /\ call' = [call EXCEPT ![k] = "sent"]
  BY DEF Sign
<1>2. Good(c) \in BOOLEAN
  BY DEF Good
<1>3. J \in Job /\ Checked(J)
  BY <1>2 DEF Job, Checked
<1>. HIDE DEF J
<1>4. /\ call' \in [Calls -> {"unmade", "sign", "sent", "closed"}] /\ ran' \subseteq Calls
      /\ \A l \in Calls : call'[l] = IF l = k THEN "sent" ELSE call[l]
  BY <1>1 DEF ToolInv, ToolTypeOK
<1>5. ToolTypeOK' /\ JobsAreChecked' /\ \A l \in Calls : job'[l] = IF l = k THEN J ELSE job[l]
  <2>1. J \in Job \cup Done \cup {None}
    BY <1>3
  <2>2. job' = [job EXCEPT ![k] = J]
    BY <1>1
  <2>3. revoked' = revoked
    BY <1>1
  <2>4. J \in Job => Checked(J)
    BY <1>3
  <2>5. call' \in [Calls -> {"unmade", "sign", "sent", "closed"}]
    BY <1>4
  <2>6. ran' \subseteq Calls
    BY <1>4
  <2>. QED BY <2>1, <2>2, <2>3, <2>4, <2>5, <2>6, JobMoves
<1>6. J # None /\ J \notin Done
  BY <1>3, JobFacts
<1>7. Books'
  BY <1>1, <1>4, <1>5, <1>6 DEF ToolInv, Books
<1>. QED BY <1>1, <1>4, <1>5, <1>7 DEF ToolInv

LEMMA ReceiveEffect ==
  ASSUME ToolInv, NEW k \in Calls, Receive(k)
  PROVE  /\ ToolInv' /\ UNCHANGED ran
         /\ job[k].ok \in BOOLEAN /\ (k \in ran <=> job[k].ok)
         /\ \A l \in Calls : call'[l] = IF l = k THEN "closed" ELSE call[l]
         /\ \A l \in Calls : job'[l] = IF l = k THEN None ELSE job[l]
<1>1. /\ job' = [job EXCEPT ![k] = None] /\ revoked' = revoked /\ ran' = ran
      /\ call' = [call EXCEPT ![k] = "closed"] /\ call[k] = "sent" /\ job[k].at = "done"
  BY DEF Receive
<1>2. job[k] \in Done
  BY <1>1, JobFacts DEF ToolInv, ToolTypeOK, Books
<1>3. job[k].ok \in BOOLEAN /\ (k \in ran <=> job[k].ok)
  BY <1>2, JobFacts DEF ToolInv, Books
<1>4. /\ call' \in [Calls -> {"unmade", "sign", "sent", "closed"}] /\ ran' \subseteq Calls
      /\ \A l \in Calls : call'[l] = IF l = k THEN "closed" ELSE call[l]
  BY <1>1 DEF ToolInv, ToolTypeOK
<1>5. ToolTypeOK' /\ JobsAreChecked' /\ \A l \in Calls : job'[l] = IF l = k THEN None ELSE job[l]
  <2>1. None \in Job \cup Done \cup {None} /\ None \notin Job
    BY JobFacts
  <2>2. job' = [job EXCEPT ![k] = None]
    BY <1>1
  <2>3. revoked' = revoked
    BY <1>1
  <2>4. call' \in [Calls -> {"unmade", "sign", "sent", "closed"}]
    BY <1>4
  <2>5. ran' \subseteq Calls
    BY <1>4
  <2>. QED BY <2>1, <2>2, <2>3, <2>4, <2>5, JobMoves
<1>6. Books'
  BY <1>1, <1>4, <1>5 DEF ToolInv, Books
<1>. QED BY <1>1, <1>3, <1>4, <1>5, <1>6 DEF ToolInv

LEMMA RevokeEffect ==
  ASSUME ToolInv, NEW c \in Creds, Revoke(c)
  PROVE  ToolInv' /\ UNCHANGED <<call, job, ran>>
<1>1. ToolTypeOK' /\ Books'
  BY DEF Revoke, ToolInv, ToolTypeOK, Books
<1>2. \A d : Good(d)' => Good(d)
  BY DEF Revoke, Good
<1>3. JobsAreChecked'
  BY <1>2 DEF Revoke, ToolInv, JobsAreChecked, Checked, Delegated
<1>. QED BY <1>1, <1>3 DEF Revoke, ToolInv

\* A step of the server moves a job on, and runs the tool at most.
LEMMA ServeMoves ==
  ASSUME ToolInv, NEW k \in Calls, NEW J, J \in Job \cup Done, J \in Job => Checked(J),
         job[k] # None, job' = [job EXCEPT ![k] = J], revoked' = revoked, call' = call,
         ran \subseteq ran', ran' \subseteq ran \cup {k},
         k \in ran' <=> J \in Done /\ J.ok
  PROVE  ToolInv' /\ job'[k] # None /\ \A l \in Calls : l # k => job'[l] = job[l]
<1>1. J \in Job \cup Done \cup {None} /\ J # None
  BY JobFacts
<1>2. call' \in [Calls -> {"unmade", "sign", "sent", "closed"}]
  BY DEF ToolInv, ToolTypeOK
<1>3. ran' \subseteq Calls
  BY DEF ToolInv, ToolTypeOK
<1>4. /\ ToolTypeOK' /\ JobsAreChecked'
      /\ \A l \in Calls : job'[l] = IF l = k THEN J ELSE job[l]
  BY <1>1, <1>2, <1>3, JobMoves
<1>5. Books'
  <2>1. ASSUME NEW l \in Calls, l # k
        PROVE  job'[l] = job[l] /\ (l \in ran' <=> l \in ran)
    BY <1>4, <2>1
  <2>2. call[k] \notin {"unmade", "sign"}
    BY DEF ToolInv, Books
  <2>. QED BY <1>1, <1>4, <2>1, <2>2 DEF ToolInv, Books
<1>. QED BY <1>1, <1>4, <1>5 DEF ToolInv

LEMMA ServeEffect ==
  ASSUME ToolInv, NEW k \in Calls, Serve(k)
  PROVE  /\ ToolInv' /\ UNCHANGED call
         /\ job[k] # None /\ job'[k] # None
         /\ \A l \in Calls : l # k => job'[l] = job[l]
         /\ ran \subseteq ran' /\ ran' \subseteq ran \cup {k}
<1>1. job[k] # None /\ call' = call /\ revoked' = revoked
  BY DEF Serve, Verified, Unverified, Pass, Deny, Run, JobAt
<1>2. job[k] \in Job
  <2>1. job[k].at \in {"verify", "gate", "run"}
    BY DEF Serve, Verified, Unverified, Pass, Deny, Run, JobAt
  <2>. QED BY <1>1, <2>1, JobFacts DEF ToolInv, ToolTypeOK
<1>3. Checked(job[k]) /\ k \notin ran
  BY <1>1, <1>2, JobFacts DEF ToolInv, JobsAreChecked, Books
<1>4. ASSUME NEW ok \in BOOLEAN, Finish(k, ok), ran' = IF ok THEN ran \cup {k} ELSE ran
      PROVE  /\ ToolInv' /\ job'[k] # None
             /\ \A l \in Calls : l # k => job'[l] = job[l]
  <2>. DEFINE J == [at |-> "done", ok |-> ok]
  <2>1. J \in Done /\ J.ok = ok /\ J \notin Job
    BY JobFacts
  <2>2. job' = [job EXCEPT ![k] = J]
    BY <1>4 DEF Finish
  <2>. HIDE DEF J
  <2>3. ran \subseteq ran' /\ ran' \subseteq ran \cup {k} /\ (k \in ran' <=> J \in Done /\ J.ok)
    BY <1>3, <1>4, <2>1
  <2>. QED BY <1>1, <2>1, <2>2, <2>3, ServeMoves
<1>5. ASSUME NEW J \in Job, Checked(J), job' = [job EXCEPT ![k] = J], ran' = ran
      PROVE  /\ ToolInv' /\ job'[k] # None
             /\ \A l \in Calls : l # k => job'[l] = job[l]
  BY <1>1, <1>3, <1>5, JobFacts, ServeMoves
<1>6. CASE Verified(k)
  <2>. DEFINE J == [job[k] EXCEPT !.at = "gate", !.verified = TRUE]
  <2>1. job' = [job EXCEPT ![k] = J] /\ ran' = ran
    BY <1>6 DEF Verified
  <2>2. J \in Job /\ Checked(J)
    BY <1>2, <1>3 DEF Job, Checked
  <2>. HIDE DEF J
  <2>. QED BY <1>1, <1>5, <2>1, <2>2
<1>7. CASE Unverified(k)
  <2>1. CASE Delegated(job[k].vp)
    <3>. DEFINE J == [job[k] EXCEPT !.at = "gate"]
    <3>1. job' = [job EXCEPT ![k] = J] /\ ran' = ran
      BY <1>7, <2>1 DEF Unverified, Step
    <3>2. J \in Job /\ Checked(J)
      BY <1>2, <1>3, <2>1 DEF Job, Checked
    <3>. HIDE DEF J
    <3>. QED BY <1>1, <1>5, <3>1, <3>2
  <2>2. CASE ~Delegated(job[k].vp)
    BY <1>1, <1>4, <1>7, <2>2 DEF Unverified
  <2>. QED BY <2>1, <2>2
<1>8. CASE Pass(k)
  <2>. DEFINE J == [job[k] EXCEPT !.at = "run"]
  <2>1. job' = [job EXCEPT ![k] = J] /\ ran' = ran
    BY <1>8 DEF Pass, Step
  <2>2. J \in Job /\ Checked(J)
    BY <1>2, <1>3, <1>8 DEF Job, Checked, Pass, JobAt
  <2>. HIDE DEF J
  <2>. QED BY <1>1, <1>5, <2>1, <2>2
<1>9. CASE Deny(k)
  BY <1>1, <1>4, <1>9 DEF Deny
<1>10. CASE Run(k)
  <2>1. Finish(k, TRUE) /\ ran' = ran \cup {k}
    BY <1>10 DEF Run
  <2>. QED BY <1>1, <1>4, <2>1
<1>. QED BY <1>6, <1>7, <1>8, <1>9, <1>10 DEF Serve

(***************************************************************************)
(* How turns, their tool calls and the histories agree.                    *)
(***************************************************************************)
\* A turn's calls: those of later rounds are unmade, and only the present one
\* is in progress, or was when the turn failed.
CallsOf(t) ==
    \A i \in Rs :
        /\ \/ turn[t] = None
           \/ turn[t].round < i
           \/ turn[t].at = "complete" /\ turn[t].round = i
           => call[<<t, i>>] = "unmade"
        /\ At(t, "tool") /\ turn[t].round = i => call[<<t, i>>] \in {"sign", "sent"}
        /\ job[<<t, i>>] # None =>
            turn[t] # None /\ turn[t].at \in {"tool", "failed"} /\ turn[t].round = i

\* A result is of a round that is over, and of a call that is.
ResultIsFinal(m) ==
    /\ turn[m.id[1]] # None /\ m.id[2] < turn[m.id[1]].round
    /\ call[m.id] \in {"unmade", "closed"} /\ job[m.id] = None
    /\ m.ok <=> m.id \in ran

\* The result of a tool that ran is in its turn's array, unless the turn is at
\* that call.
RunIsTold(k) ==
    /\ turn[k[1]] # None
    /\ \/ \E m : Has(turn[k[1]].hist, m) /\ m.role = "result" /\ m.id = k
       \/ turn[k[1]].at \in {"tool", "failed"} /\ turn[k[1]].round = k[2]

\* A conversation's array is the stored one, or the one of the only turn that
\* is running on it.
StoredIsShared ==
    \A t \in Turns : turn[t] # None /\ turn[t].key \notin raced =>
        /\ At(t, "answered") => stored[turn[t].key] = turn[t].hist
        /\ Running(t) =>
            \/ stored[turn[t].key] = turn[t].hist
            \/ /\ stored[turn[t].key] = None
               /\ \A u \in Turns : Running(u) /\ turn[u].key = turn[t].key => u = t

Links ==
    /\ \A t \in Turns : CallsOf(t)
    /\ \A a \in Turns : \A m : Has(a, m) /\ m.role = "result" => ResultIsFinal(m)
    /\ \A k \in ran : RunIsTold(k)

IInv == Types /\ ToolInv /\ Links /\ StoredIsShared

LEMMA MessageFacts ==
  ASSUME Types, NEW a \in Turns, NEW m, Has(a, m)
  PROVE  m \in Message /\ (m.role = "result" => m.id \in Calls)
<1>1. arrays[a] \in Seq(Message)
  BY DEF Types, TypeOK, ChatTypeOK
<1>2. PICK i \in DOMAIN arrays[a] : arrays[a][i] = m
  BY DEF Has, In
<1>3. m \in Message
  BY <1>1, <1>2
<1>. QED BY <1>3, ConciergeAssumption DEF Message

LEMMA NewMessages ==
  ASSUME Types, NEW t \in Turns, turn[t] # None
  PROVE  /\ Said("user", t).role = "user" /\ Said("text", t).role = "text"
         /\ CallOf(t).role = "call"
         /\ \A ok : /\ ResultOf(t, ok).role = "result" /\ ResultOf(t, ok).ok = ok
                    /\ ResultOf(t, ok).id = <<t, turn[t].round>>
         /\ ThisCall(t) = <<t, turn[t].round>>
BY DEF Said, CallOf, ResultOf, ThisCall

LEMMA GoesFacts ==
  ASSUME Types, NEW t \in Turns, NEW T, Goes(t, T)
  PROVE  /\ T # None
         /\ \A u \in Turns : turn'[u] = IF u = t THEN T ELSE turn[u]
BY NoTurn DEF Types, TypeOK, ChatTypeOK, Goes

(***************************************************************************)
(* A step of turn t concerns its own calls, results and runs only.         *)
(***************************************************************************)
LEMMA TurnMoves ==
  ASSUME IInv, ToolInv', NEW t \in Turns, NEW T, Goes(t, T),
         turn[t] # None => T.hist = turn[t].hist,
         \A a \in Turns : \A x : Has(a, x) => Has(a, x)',
         \A a \in Turns : \A x : Has(a, x)' /\ x.role = "result" /\ ~Has(a, x) => x.id[1] = t,
         \A a \in Turns : \A x : Has(a, x)' /\ x.role = "result" => x.id \in Calls,
         \A k \in Calls : k[1] # t => call'[k] = call[k] /\ job'[k] = job[k],
         ran' = ran,
         CallsOf(t)',
         \A a \in Turns : \A x :
            Has(a, x)' /\ x.role = "result" /\ x.id[1] = t => ResultIsFinal(x)',
         \A k \in ran : k[1] = t => RunIsTold(k)'
  PROVE  Links'
<1>1. /\ T # None
      /\ \A u \in Turns : turn'[u] = IF u = t THEN T ELSE turn[u]
  BY GoesFacts DEF IInv
<1>2. ASSUME NEW u \in Turns, u # t
      PROVE  CallsOf(u)'
  <2>1. \A i \in Rs : <<u, i>> \in Calls /\ <<u, i>>[1] = u
    BY CallFacts
  <2>2. \A i \in Rs : call'[<<u, i>>] = call[<<u, i>>] /\ job'[<<u, i>>] = job[<<u, i>>]
    BY <1>2, <2>1
  <2>3. turn'[u] = turn[u]
    BY <1>1, <1>2
  <2>4. CallsOf(u)
    BY DEF IInv, Links
  <2>. QED BY <2>2, <2>3, <2>4 DEF CallsOf, At
<1>3. ASSUME NEW a \in Turns, NEW m, Has(a, m)', m.role = "result", m.id[1] # t
      PROVE  ResultIsFinal(m)'
  <2>1. m.id \in Calls /\ m.id[1] \in Turns
    BY <1>3, CallFacts
  <2>2. ResultIsFinal(m)
    BY <1>3 DEF IInv, Links
  <2>3. turn'[m.id[1]] = turn[m.id[1]] /\ call'[m.id] = call[m.id] /\ job'[m.id] = job[m.id]
    BY <1>1, <1>3, <2>1
  <2>. QED BY <2>2, <2>3 DEF ResultIsFinal
<1>4. ASSUME NEW k \in ran, k[1] # t
      PROVE  RunIsTold(k)'
  <2>1. k[1] \in Turns
    BY CallFacts DEF IInv, ToolInv, ToolTypeOK
  <2>2. RunIsTold(k)
    BY DEF IInv, Links
  <2>3. turn'[k[1]] = turn[k[1]]
    BY <1>1, <1>4, <2>1
  <2>4. turn[k[1]].hist \in Turns
    BY <2>1, <2>2, TurnFacts DEF IInv, RunIsTold
  <2>5. \A m : Has(turn[k[1]].hist, m) => In(arrays'[turn[k[1]].hist], m)
    BY <2>4 DEF Has
  <2>. QED BY <2>2, <2>3, <2>5 DEF RunIsTold, Has
<1>5. \A u \in Turns : CallsOf(u)'
  BY <1>2
<1>6. \A a \in Turns : \A m : Has(a, m)' /\ m.role = "result" => ResultIsFinal(m)'
  BY <1>3
<1>7. \A k \in ran' : RunIsTold(k)'
  BY <1>4
<1>. QED BY <1>5, <1>6, <1>7 DEF Links

(***************************************************************************)
(* What is sent is stored, or stays with the turn that runs alone.         *)
(***************************************************************************)
LEMMA SharedStays ==
  ASSUME IInv, NEW t \in Turns, turn[t] # None, Running(t), NEW T, Goes(t, T),
         T.hist = turn[t].hist, T.key = turn[t].key, raced' = raced,
         \/ T.at # "answered" /\ stored' = stored
         \/ Store(t)
  PROVE  StoredIsShared'
<1>1. /\ T # None
      /\ \A u \in Turns : turn'[u] = IF u = t THEN T ELSE turn[u]
  BY GoesFacts DEF IInv
<1>2. /\ turn[t].key \in Keys /\ turn[t].hist \in Turns /\ None \notin Turns
      /\ \A u \in Turns : turn[u] # None => turn[u].key \in Keys
  BY TurnFacts, TurnAssumption DEF IInv
<1>3. \A u \in Turns : turn'[u] # None =>
        /\ turn[u] # None /\ turn'[u].key = turn[u].key /\ turn'[u].hist = turn[u].hist
        /\ Running(u)' => Running(u)
        /\ u # t => turn'[u] = turn[u]
  BY <1>1 DEF Running, At
<1>4. CASE T.at # "answered" /\ stored' = stored
  BY <1>1, <1>3, <1>4 DEF IInv, StoredIsShared, Running, At
<1>5. CASE Store(t)
  <2>1. \A k \in Keys : stored'[k] = IF k = turn[t].key THEN turn[t].hist ELSE stored[k]
    BY <1>5, StoreType DEF IInv
  <2>2. ASSUME NEW u \in Turns, turn'[u] # None, turn'[u].key \notin raced
        PROVE  /\ At(u, "answered")' => stored'[turn'[u].key] = turn'[u].hist
               /\ Running(u)' =>
                    \/ stored'[turn'[u].key] = turn'[u].hist
                    \/ /\ stored'[turn'[u].key] = None
                       /\ \A w \in Turns : Running(w)' /\ turn'[w].key = turn'[u].key => w = u
    <3>1. CASE turn[u].key = turn[t].key
      <4>1. u # t => stored[turn[u].key] = turn[u].hist \/ ~(At(u, "answered")' \/ Running(u)')
        BY <1>1, <1>3, <2>2, <3>1 DEF IInv, StoredIsShared, Running, At
      <4>2. stored[turn[t].key] \in {turn[t].hist, None}
        BY <1>3, <2>2, <3>1 DEF IInv, StoredIsShared
      <4>3. u # t /\ (At(u, "answered")' \/ Running(u)') => turn[u].hist = turn[t].hist
        BY <1>2, <1>3, <2>2, <3>1, <4>1, <4>2, TurnFacts DEF IInv
      <4>4. stored'[turn'[u].key] = turn[t].hist
        BY <1>2, <1>3, <2>1, <2>2, <3>1
      <4>. QED BY <1>3, <2>2, <4>3, <4>4
    <3>2. CASE turn[u].key # turn[t].key
      <4>1. u # t /\ stored'[turn'[u].key] = stored[turn[u].key] /\ turn'[u] = turn[u]
        BY <1>2, <1>3, <2>1, <2>2, <3>2
      <4>2. \A w \in Turns : Running(w)' => Running(w) /\ turn'[w].key = turn[w].key
        BY <1>3 DEF Running, At
      <4>3. /\ At(u, "answered")' => At(u, "answered")
            /\ Running(u)' => Running(u)
        BY <4>1 DEF Running, At
      <4>. QED BY <1>3, <2>2, <4>1, <4>2, <4>3 DEF IInv, StoredIsShared
    <3>. QED BY <3>1, <3>2
  <2>. QED BY <2>2 DEF StoredIsShared
<1>. QED BY <1>4, <1>5

(***************************************************************************)
(* One lemma per step of a turn.                                           *)
(***************************************************************************)
LEMMA QuietTools ==
  ASSUME IInv, UNCHANGED toolVars
  PROVE  ToolInv' /\ call' = call /\ job' = job /\ ran' = ran
BY DEF IInv, ToolInv, ToolTypeOK, JobsAreChecked, Checked, Good, Delegated, Books, toolVars

LEMMA OldMessages ==
  ASSUME IInv, NEW a \in Turns, NEW m, Has(a, m), m.role = "result"
  PROVE  m.id \in Calls /\ m.id[1] \in Turns /\ ResultIsFinal(m)
BY MessageFacts, CallFacts DEF IInv, Links

LEMMA OldRuns ==
  ASSUME IInv, NEW k \in ran
  PROVE  k \in Calls /\ k[1] \in Turns /\ RunIsTold(k)
BY CallFacts DEF IInv, Links, ToolInv, ToolTypeOK

\* A running turn goes on to T; the messages that it pushes are those of N.
Effect(t, T, N) ==
    /\ turn[t] # None /\ Running(t) /\ Goes(t, T)
    /\ T.key = turn[t].key /\ T.hist = turn[t].hist
    /\ T.round = turn[t].round \/ T.round = turn[t].round + 1
    /\ raced' = raced
    /\ \/ T.at # "answered" /\ stored' = stored
       \/ Store(t)
    /\ arrays' \in [Turns -> Seq(Message)]
    /\ \A a \in Turns : \A x : Has(a, x)' <=> Has(a, x) \/ (a = turn[t].hist /\ x \in N)
    /\ ToolInv' /\ ran' = ran
    /\ \A k \in Calls : k # ThisCall(t) => call'[k] = call[k] /\ job'[k] = job[k]
    /\ T.at = "complete" => T.round = turn[t].round + 1
    /\ T.at = "tool" => T.round = turn[t].round /\ call'[ThisCall(t)] \in {"sign", "sent"}
    /\ job'[ThisCall(t)] # None => T.at \in {"tool", "failed"} /\ T.round = turn[t].round
    /\ \A x \in N : x.role = "result" =>
        /\ x.id = ThisCall(t) /\ T.round = turn[t].round + 1
        /\ call'[x.id] \in {"unmade", "closed"} /\ job'[x.id] = None
        /\ x.ok <=> x.id \in ran
    /\ ThisCall(t) \in ran =>
        \/ \E x \in N : x.role = "result" /\ x.id = ThisCall(t)
        \/ T.at \in {"tool", "failed"} /\ T.round = turn[t].round

LEMMA EffectKeepsIInv ==
  ASSUME IInv, NEW t \in Turns, NEW T, NEW N, Effect(t, T, N)
  PROVE  IInv'
<1>. USE DEF Effect
<1>1. /\ turn[t].round \in Rs /\ turn[t].round \in Nat /\ turn[t].hist \in Turns
      /\ ThisCall(t) = <<t, turn[t].round>> /\ ThisCall(t) \in Calls
  BY TurnFacts, NewMessages, CallFacts DEF IInv, Types, RoundsLeft, Rs
<1>2. T # None /\ \A u \in Turns : turn'[u] = IF u = t THEN T ELSE turn[u]
  BY GoesFacts DEF IInv
<1>3. Types'
  <2>1. stored' \in [Keys -> Turns \cup {None}]
    BY StoreType DEF IInv, Types, TypeOK, ChatTypeOK
  <2>2. raced' \subseteq Keys /\ ToolTypeOK'
    BY DEF IInv, Types, TypeOK, ChatTypeOK, ToolInv
  <2>. QED BY <2>1, <2>2, GoesTypes DEF IInv
<1>4. CallsOf(t)'
  <2>. SUFFICES ASSUME NEW i \in Rs
       PROVE  /\ \/ T.round < i
                 \/ T.at = "complete" /\ T.round = i
                 => call'[<<t, i>>] = "unmade"
              /\ T.at = "tool" /\ T.round = i => call'[<<t, i>>] \in {"sign", "sent"}
              /\ job'[<<t, i>>] # None => T.at \in {"tool", "failed"} /\ T.round = i
    BY <1>2 DEF CallsOf, At
  <2>1. CallsOf(t) /\ i \in Nat
    BY CallFacts DEF IInv, Links, Rs
  <2>2. CASE i = turn[t].round
    BY <1>1, <2>2
  <2>3. CASE i # turn[t].round
    <3>1. <<t, i>> \in Calls /\ <<t, i>> # ThisCall(t)
      BY <1>1, <2>3, CallFacts
    <3>2. call'[<<t, i>>] = call[<<t, i>>] /\ job'[<<t, i>>] = job[<<t, i>>]
      BY <3>1
    <3>3. job[<<t, i>>] = None
      BY <2>1, <2>3 DEF CallsOf
    <3>4. T.round <= i => turn[t].round < i
      BY <1>1, <2>1, <2>3
    <3>5. turn[t].round < i => call[<<t, i>>] = "unmade"
      BY <2>1 DEF CallsOf
    <3>6. T.round \in Nat
      BY <1>1
    <3>. QED BY <1>1, <2>1, <2>3, <3>2, <3>3, <3>4, <3>5, <3>6
  <2>. QED BY <2>2, <2>3
<1>5. \A a \in Turns : \A x : Has(a, x)' /\ x.role = "result" /\ ~Has(a, x) =>
            x \in N /\ x.id = ThisCall(t)
  OBVIOUS
<1>6. ASSUME NEW a \in Turns, NEW x, Has(a, x)', x.role = "result"
      PROVE  x.id \in Calls /\ (x.id[1] = t => ResultIsFinal(x)')
  <2>1. CASE Has(a, x)
    <3>1. x.id \in Calls /\ x.id[1] \in Turns /\ ResultIsFinal(x)
      BY <1>6, <2>1, OldMessages
    <3>2. ASSUME x.id[1] = t
          PROVE  ResultIsFinal(x)'
      <4>1. x.id[2] < turn[t].round /\ x.id[2] \in Nat
        BY <3>1, <3>2, CallFacts DEF ResultIsFinal, Rs
      <4>2. x.id # ThisCall(t)
        BY <1>1, <4>1
      <4>3. call'[x.id] = call[x.id] /\ job'[x.id] = job[x.id]
        BY <3>1, <4>2
      <4>4. turn'[x.id[1]] = T /\ x.id[2] < T.round
        BY <1>1, <1>2, <3>2, <4>1
      <4>. QED BY <1>2, <3>1, <4>3, <4>4 DEF ResultIsFinal
    <3>. QED BY <3>1, <3>2
  <2>2. CASE ~Has(a, x)
    <3>1. x \in N /\ x.id = ThisCall(t)
      BY <1>5, <1>6, <2>2
    <3>2. x.id \in Calls /\ x.id[1] = t /\ x.id[2] = turn[t].round
      BY <1>1, <3>1
    <3>3. turn'[x.id[1]] = T /\ x.id[2] < T.round
      BY <1>1, <1>2, <1>6, <3>1, <3>2
    <3>. QED BY <1>2, <1>6, <3>1, <3>2, <3>3 DEF ResultIsFinal
  <2>. QED BY <2>1, <2>2
<1>7. ASSUME NEW k \in ran, k[1] = t
      PROVE  RunIsTold(k)'
  <2>1. k \in Calls /\ RunIsTold(k) /\ turn'[k[1]] = T
    BY <1>2, <1>7, OldRuns
  <2>2. ASSUME NEW m, In(arrays'[turn[t].hist], m), m.role = "result", m.id = k
        PROVE  RunIsTold(k)'
    BY <1>2, <1>7, <2>1, <2>2 DEF RunIsTold, Has
  <2>3. ASSUME NEW m, Has(turn[t].hist, m) \/ m \in N, m.role = "result", m.id = k
        PROVE  RunIsTold(k)'
    BY <1>1, <2>2, <2>3 DEF Has
  <2>4. CASE k = ThisCall(t)
    <3>1. CASE \E x \in N : x.role = "result" /\ x.id = ThisCall(t)
      BY <2>3, <2>4, <3>1
    <3>2. CASE T.at \in {"tool", "failed"} /\ T.round = turn[t].round
      BY <1>1, <1>2, <2>1, <2>4, <3>2 DEF RunIsTold
    <3>. QED BY <2>4, <3>1, <3>2
  <2>5. CASE k # ThisCall(t)
    <3>1. k[2] # turn[t].round
      BY <1>1, <1>7, <2>1, <2>5, CallFacts
    <3>2. PICK m : Has(turn[t].hist, m) /\ m.role = "result" /\ m.id = k
      BY <1>7, <2>1, <3>1 DEF RunIsTold
    <3>. QED BY <2>3, <3>2
  <2>. QED BY <2>4, <2>5
<1>8. Links'
  <2>1. \A a \in Turns : \A x : Has(a, x)' /\ x.role = "result" /\ ~Has(a, x) => x.id[1] = t
    BY <1>1, <1>5
  <2>2. \A k \in Calls : k[1] # t => call'[k] = call[k] /\ job'[k] = job[k]
    BY <1>1
  <2>. QED BY <1>4, <1>6, <1>7, <2>1, <2>2, TurnMoves
<1>9. StoredIsShared'
  BY SharedStays
<1>. QED BY <1>3, <1>8, <1>9 DEF IInv

\* In the step that completes, nothing is under way.
LEMMA AtComplete ==
  ASSUME IInv, NEW t \in Turns, At(t, "complete")
  PROVE  /\ turn[t] # None /\ Running(t) /\ ThisCall(t) \in Calls
         /\ call[ThisCall(t)] = "unmade" /\ job[ThisCall(t)] = None /\ ThisCall(t) \notin ran
<1>1. turn[t] # None /\ turn[t].at = "complete" /\ Running(t)
  BY DEF At, Running
<1>2. ThisCall(t) = <<t, turn[t].round>> /\ turn[t].round \in Rs /\ ThisCall(t) \in Calls
  BY <1>1, NewMessages, CallFacts DEF IInv, Types, RoundsLeft
<1>3. CallsOf(t)
  BY DEF IInv, Links
<1>4. call[ThisCall(t)] = "unmade"
  BY <1>1, <1>2, <1>3 DEF CallsOf
<1>. QED BY <1>1, <1>2, <1>4 DEF IInv, ToolInv, Books

LEMMA AtTool ==
  ASSUME IInv, NEW t \in Turns, At(t, "tool")
  PROVE  turn[t] # None /\ Running(t) /\ ThisCall(t) \in Calls
<1>1. turn[t] # None /\ Running(t)
  BY DEF At, Running
<1>. QED BY <1>1, NewMessages, CallFacts DEF IInv, Types, RoundsLeft

LEMMA AnswerKeepsIInv ==
  ASSUME IInv, NEW t \in Turns, Chat(Answer(t))
  PROVE  IInv'
<1>1. /\ At(t, "complete") /\ Store(t) /\ raced' = raced
      /\ Push(t, <<Said("text", t)>>) /\ Goto(t, "answered") /\ UNCHANGED toolVars
  BY DEF Chat, Answer
<1>2. /\ turn[t] # None /\ Running(t) /\ ThisCall(t) \in Calls
      /\ job[ThisCall(t)] = None /\ ThisCall(t) \notin ran
  BY <1>1, AtComplete
<1>3. PICK T : /\ Goes(t, T) /\ T.at = "answered"
               /\ T.key = turn[t].key /\ T.hist = turn[t].hist /\ T.round = turn[t].round
  BY <1>1, <1>2, GotoGoes DEF IInv
<1>4. ToolInv' /\ call' = call /\ job' = job /\ ran' = ran
  BY <1>1, QuietTools
<1>5. /\ arrays' \in [Turns -> Seq(Message)]
      /\ \A a \in Turns : \A x :
            Has(a, x)' <=> Has(a, x) \/ (a = turn[t].hist /\ x \in {Said("text", t)})
  BY <1>1, <1>2, PushEffect, TurnFacts DEF IInv
<1>6. \A x \in {Said("text", t)} : x.role # "result"
  BY <1>2, NewMessages DEF IInv
<1>. DEFINE N == {Said("text", t)}
<1>. HIDE DEF N
<1>7. Effect(t, T, N)
  BY <1>1, <1>2, <1>3, <1>4, <1>5, <1>6 DEF Effect, N
<1>. QED BY <1>7, EffectKeepsIInv

LEMMA NothingPushed ==
  ASSUME IInv, arrays' = arrays
  PROVE  /\ arrays' \in [Turns -> Seq(Message)]
         /\ \A h : \A a \in Turns : \A x : Has(a, x)' <=> Has(a, x) \/ (a = h /\ x \in {})
BY DEF IInv, Types, TypeOK, ChatTypeOK, Has

LEMMA ProviderFailsKeepsIInv ==
  ASSUME IInv, NEW t \in Turns, ProviderFails(t)
  PROVE  IInv'
<1>1. /\ At(t, "complete") /\ stored' = stored /\ raced' = raced
      /\ arrays' = arrays /\ Goto(t, "failed") /\ UNCHANGED toolVars
  BY DEF Chat, ProviderFails, Throw
<1>2. /\ turn[t] # None /\ Running(t) /\ ThisCall(t) \in Calls
      /\ job[ThisCall(t)] = None /\ ThisCall(t) \notin ran
  BY <1>1, AtComplete
<1>3. PICK T : /\ Goes(t, T) /\ T.at = "failed"
               /\ T.key = turn[t].key /\ T.hist = turn[t].hist /\ T.round = turn[t].round
  BY <1>1, <1>2, GotoGoes DEF IInv
<1>4. ToolInv' /\ call' = call /\ job' = job /\ ran' = ran
  BY <1>1, QuietTools
<1>5. /\ arrays' \in [Turns -> Seq(Message)]
      /\ \A a \in Turns : \A x : Has(a, x)' <=> Has(a, x) \/ (a = turn[t].hist /\ x \in {})
  BY <1>1, NothingPushed
<1>6. Effect(t, T, {})
  BY <1>1, <1>2, <1>3, <1>4, <1>5 DEF Effect
<1>. QED BY <1>6, EffectKeepsIInv

LEMMA UnknownToolKeepsIInv ==
  ASSUME IInv, NEW t \in Turns, Chat(UnknownTool(t))
  PROVE  IInv'
<1>1. /\ At(t, "complete") /\ raced' = raced /\ AfterResult(t)
      /\ Push(t, <<CallOf(t), ResultOf(t, FALSE)>>) /\ UNCHANGED toolVars
  BY DEF Chat, UnknownTool
<1>2. /\ turn[t] # None /\ Running(t) /\ ThisCall(t) \in Calls /\ call[ThisCall(t)] = "unmade"
      /\ job[ThisCall(t)] = None /\ ThisCall(t) \notin ran
  BY <1>1, AtComplete
<1>3. PICK T : /\ Goes(t, T)
               /\ T.key = turn[t].key /\ T.hist = turn[t].hist /\ T.round = turn[t].round + 1
               /\ \/ T.at = "complete" /\ UNCHANGED stored
                  \/ T.at = "answered" /\ Store(t)
  BY <1>1, <1>2, AfterResultGoes DEF IInv
<1>4. ToolInv' /\ call' = call /\ job' = job /\ ran' = ran
  BY <1>1, QuietTools
<1>. DEFINE m == CallOf(t)
            n == ResultOf(t, FALSE)
            N == {m, n}
<1>5. /\ arrays' \in [Turns -> Seq(Message)]
      /\ \A a \in Turns : \A x : Has(a, x)' <=> Has(a, x) \/ (a = turn[t].hist /\ x \in N)
  <2>1. m \in Message /\ n \in Message
    BY <1>2, TurnFacts DEF IInv
  <2>2. Push(t, <<m, n>>)
    BY <1>1
  <2>. HIDE DEF m, n
  <2>3. /\ arrays' \in [Turns -> Seq(Message)]
        /\ \A a \in Turns : \A x :
            Has(a, x)' <=> Has(a, x) \/ (a = turn[t].hist /\ (x = m \/ x = n))
    BY <1>2, <2>1, <2>2, PushTwoEffect DEF IInv
  <2>. QED BY <2>3
<1>6. \A x \in N : x.role = "result" => x.id = ThisCall(t) /\ x.ok = FALSE
  <2>1. m.role = "call"
    BY DEF CallOf
  <2>2. n.id = ThisCall(t) /\ n.ok = FALSE
    BY DEF ResultOf
  <2>. HIDE DEF m, n
  <2>. QED BY <2>1, <2>2
<1>. HIDE DEF N
<1>7. Effect(t, T, N)
  BY <1>1, <1>2, <1>3, <1>4, <1>5, <1>6 DEF Effect
<1>. QED BY <1>7, EffectKeepsIInv

LEMMA StartToolKeepsIInv ==
  ASSUME IInv, NEW t \in Turns, StartTool(t)
  PROVE  IInv'
<1>1. PICK tl \in Tools : CallTool(t, tl) /\ Make(ThisCall(t))
  BY DEF StartTool
<1>2. /\ At(t, "complete") /\ raced' = raced /\ stored' = stored /\ Push(t, <<CallOf(t)>>)
  BY <1>1 DEF CallTool
<1>3. /\ turn[t] # None /\ Running(t) /\ ThisCall(t) \in Calls
      /\ job[ThisCall(t)] = None /\ ThisCall(t) \notin ran
  BY <1>2, AtComplete
<1>4. PICK T : /\ Goes(t, T) /\ T.at = "tool"
               /\ T.key = turn[t].key /\ T.hist = turn[t].hist /\ T.round = turn[t].round
  BY <1>1, CallToolGoes DEF IInv
<1>5. /\ ToolInv' /\ job' = job /\ ran' = ran
      /\ \A l \in Calls : call'[l] = IF l = ThisCall(t) THEN "sign" ELSE call[l]
  BY <1>1, <1>3, MakeEffect DEF IInv
<1>6. /\ arrays' \in [Turns -> Seq(Message)]
      /\ \A a \in Turns : \A x :
            Has(a, x)' <=> Has(a, x) \/ (a = turn[t].hist /\ x \in {CallOf(t)})
  BY <1>2, <1>3, PushEffect, TurnFacts DEF IInv
<1>7. \A x \in {CallOf(t)} : x.role # "result"
  BY <1>3, NewMessages DEF IInv
<1>. DEFINE N == {CallOf(t)}
<1>. HIDE DEF N
<1>8. Effect(t, T, N)
  BY <1>2, <1>3, <1>4, <1>5, <1>6, <1>7 DEF Effect, N
<1>. QED BY <1>8, EffectKeepsIInv

LEMMA LoseToolKeepsIInv ==
  ASSUME IInv, NEW t \in Turns, LoseTool(t)
  PROVE  IInv'
<1>1. /\ At(t, "tool") /\ stored' = stored /\ raced' = raced /\ arrays' = arrays
      /\ Goto(t, "failed") /\ Lose(ThisCall(t))
  BY DEF LoseTool, Throw
<1>2. turn[t] # None /\ Running(t) /\ ThisCall(t) \in Calls
  BY <1>1, AtTool
<1>3. PICK T : /\ Goes(t, T) /\ T.at = "failed"
               /\ T.key = turn[t].key /\ T.hist = turn[t].hist /\ T.round = turn[t].round
  BY <1>1, <1>2, GotoGoes DEF IInv
<1>4. /\ ToolInv' /\ job' = job /\ ran' = ran
      /\ \A l \in Calls : call'[l] = IF l = ThisCall(t) THEN "closed" ELSE call[l]
  BY <1>1, <1>2, LoseEffect DEF IInv
<1>5. /\ arrays' \in [Turns -> Seq(Message)]
      /\ \A a \in Turns : \A x : Has(a, x)' <=> Has(a, x) \/ (a = turn[t].hist /\ x \in {})
  BY <1>1, NothingPushed
<1>6. Effect(t, T, {})
  BY <1>1, <1>2, <1>3, <1>4, <1>5 DEF Effect
<1>. QED BY <1>6, EffectKeepsIInv

LEMMA GetResultKeepsIInv ==
  ASSUME IInv, NEW t \in Turns, GetResult(t)
  PROVE  IInv'
<1>. DEFINE ok == job[ThisCall(t)].ok
<1>1. /\ At(t, "tool") /\ raced' = raced /\ AfterResult(t)
      /\ Push(t, <<ResultOf(t, ok)>>) /\ Receive(ThisCall(t))
  BY DEF GetResult, ToolResult
<1>2. turn[t] # None /\ Running(t) /\ ThisCall(t) \in Calls
  BY <1>1, AtTool
<1>3. PICK T : /\ Goes(t, T)
               /\ T.key = turn[t].key /\ T.hist = turn[t].hist /\ T.round = turn[t].round + 1
               /\ \/ T.at = "complete" /\ UNCHANGED stored
                  \/ T.at = "answered" /\ Store(t)
  BY <1>1, <1>2, AfterResultGoes DEF IInv
<1>4. /\ ToolInv' /\ ran' = ran /\ ok \in BOOLEAN /\ (ThisCall(t) \in ran <=> ok)
      /\ \A l \in Calls : call'[l] = IF l = ThisCall(t) THEN "closed" ELSE call[l]
      /\ \A l \in Calls : job'[l] = IF l = ThisCall(t) THEN None ELSE job[l]
  BY <1>1, <1>2, ReceiveEffect DEF IInv
<1>. DEFINE N == {ResultOf(t, ok)}
<1>5. ResultOf(t, ok) \in Message
  BY <1>2, <1>4, TurnFacts DEF IInv
<1>6. /\ arrays' \in [Turns -> Seq(Message)]
      /\ \A a \in Turns : \A x : Has(a, x)' <=> Has(a, x) \/ (a = turn[t].hist /\ x \in N)
  BY <1>1, <1>2, <1>5, PushEffect DEF IInv
<1>7. /\ \A x \in N : x.id = ThisCall(t) /\ x.ok = ok
      /\ \E x \in N : x.role = "result" /\ x.id = ThisCall(t)
  BY <1>2, NewMessages DEF IInv
<1>. HIDE DEF N, ok
<1>8. Effect(t, T, N)
  BY <1>1, <1>2, <1>3, <1>4, <1>6, <1>7 DEF Effect
<1>. QED BY <1>8, EffectKeepsIInv

(***************************************************************************)
(* The steps that leave the turns alone.                                   *)
(***************************************************************************)
LEMMA ToolStepKeepsIInv ==
  ASSUME IInv, NEW k \in Calls, UNCHANGED chatVars, ToolInv',
         turn[k[1]] # None, turn[k[1]].at \in {"tool", "failed"}, turn[k[1]].round = k[2],
         \A l \in Calls : l # k => call'[l] = call[l] /\ job'[l] = job[l],
         At(k[1], "tool") => call'[k] \in {"sign", "sent"},
         ran \subseteq ran', ran' \subseteq ran \cup {k}
  PROVE  IInv'
<1>1. arrays' = arrays /\ stored' = stored /\ turn' = turn /\ raced' = raced
  BY DEF chatVars
<1>2. Types' /\ StoredIsShared'
  BY <1>1 DEF IInv, Types, TypeOK, ChatTypeOK, RoundsLeft, StoredIsShared, Running, At, ToolInv
<1>3. Links
  BY DEF IInv
<1>4. ASSUME NEW t \in Turns
      PROVE  CallsOf(t)'
  <2>. SUFFICES ASSUME NEW i \in Rs
       PROVE  /\ \/ turn[t] = None
                 \/ turn[t].round < i
                 \/ turn[t].at = "complete" /\ turn[t].round = i
                 => call'[<<t, i>>] = "unmade"
              /\ At(t, "tool") /\ turn[t].round = i => call'[<<t, i>>] \in {"sign", "sent"}
              /\ job'[<<t, i>>] # None =>
                  turn[t] # None /\ turn[t].at \in {"tool", "failed"} /\ turn[t].round = i
    BY <1>1 DEF CallsOf, At
  <2>1. <<t, i>> \in Calls /\ i \in Nat
    BY CallFacts DEF Rs
  <2>2. CASE <<t, i>> = k
    <3>1. k[1] = t /\ k[2] = i
      BY <2>2
    <3>. QED BY <2>1, <2>2, <3>1
  <2>3. CASE <<t, i>> # k
    <3>1. call'[<<t, i>>] = call[<<t, i>>] /\ job'[<<t, i>>] = job[<<t, i>>]
      BY <2>1, <2>3
    <3>2. CallsOf(t)
      BY <1>3 DEF Links
    <3>. QED BY <3>1, <3>2 DEF CallsOf
  <2>. QED BY <2>2, <2>3
<1>5. ASSUME NEW a \in Turns, NEW m, Has(a, m), m.role = "result"
      PROVE  ResultIsFinal(m)'
  <2>1. m.id \in Calls /\ ResultIsFinal(m)
    BY <1>5, OldMessages
  <2>2. m.id[2] \in Nat
    BY <2>1, CallFacts DEF Rs
  <2>3. m.id # k
    BY <2>1, <2>2 DEF ResultIsFinal
  <2>4. call'[m.id] = call[m.id] /\ job'[m.id] = job[m.id] /\ (m.id \in ran' <=> m.id \in ran)
    BY <2>1, <2>3
  <2>. QED BY <1>1, <2>1, <2>4 DEF ResultIsFinal
<1>6. ASSUME NEW l \in ran'
      PROVE  RunIsTold(l)'
  <2>1. CASE l = k
    BY <1>1, <2>1 DEF RunIsTold
  <2>2. CASE l # k
    <3>1. RunIsTold(l)
      BY <1>3, <2>2 DEF Links
    <3>. QED BY <1>1, <3>1 DEF RunIsTold, Has
  <2>. QED BY <2>1, <2>2
<1>7. \A a, x : Has(a, x)' <=> Has(a, x)
  BY <1>1 DEF Has
<1>8. Links'
  BY <1>4, <1>5, <1>6, <1>7 DEF Links
<1>. QED BY <1>2, <1>8 DEF IInv

LEMMA SignForTurnKeepsIInv ==
  ASSUME IInv, NEW t \in Turns, SignForTurn(t)
  PROVE  IInv'
<1>1. /\ At(t, "tool") /\ UNCHANGED chatVars
      /\ Sign(ThisCall(t), turn[t].tool, PresentedBy[turn[t].as])
  BY DEF SignForTurn, Tool
<1>2. turn[t] # None /\ turn[t].at = "tool" /\ turn[t] \in Turn /\ turn[t].tool \in Tools
  BY <1>1, TurnFacts DEF At, IInv, Types, RoundsLeft
<1>3. PresentedBy[turn[t].as] \in Creds
  BY <1>2, ConciergeAssumption DEF Turn
<1>4. ThisCall(t) \in Calls
  BY <1>1, AtTool
<1>5. /\ ToolInv' /\ ran' = ran
      /\ \A l \in Calls : call'[l] = IF l = ThisCall(t) THEN "sent" ELSE call[l]
      /\ \A l \in Calls : l # ThisCall(t) => job'[l] = job[l]
  BY <1>1, <1>2, <1>3, <1>4, SignEffect DEF IInv
<1>. DEFINE k == ThisCall(t)
<1>6. k[1] = t /\ k[2] = turn[t].round
  BY DEF ThisCall
<1>. HIDE DEF k
<1>7. k \in Calls
  BY <1>4 DEF k
<1>8. turn[k[1]] # None /\ turn[k[1]].at \in {"tool", "failed"} /\ turn[k[1]].round = k[2]
  BY <1>2, <1>6
<1>9. \A l \in Calls : l # k => call'[l] = call[l] /\ job'[l] = job[l]
  BY <1>5 DEF k
<1>10. call'[k] \in {"sign", "sent"}
  BY <1>5, <1>7 DEF k
<1>11. UNCHANGED chatVars
  BY <1>1
<1>12. ran \subseteq ran' /\ ran' \subseteq ran \cup {k}
  BY <1>5
<1>. QED BY <1>5, <1>7, <1>8, <1>9, <1>10, <1>11, <1>12, ToolStepKeepsIInv

LEMMA ServeKeepsIInv ==
  ASSUME IInv, NEW k \in Calls, Tool(Serve(k))
  PROVE  IInv'
<1>1. UNCHANGED chatVars /\ Serve(k) /\ ToolInv
  BY DEF Tool, IInv
<1>2. /\ ToolInv' /\ call' = call /\ job[k] # None
      /\ \A l \in Calls : l # k => job'[l] = job[l]
      /\ ran \subseteq ran' /\ ran' \subseteq ran \cup {k}
  BY <1>1, ServeEffect
<1>3. k[1] \in Turns /\ k[2] \in Rs /\ k = <<k[1], k[2]>>
  BY CallFacts
<1>4. CallsOf(k[1])
  BY <1>3 DEF IInv, Links
<1>5. /\ turn[k[1]] # None /\ turn[k[1]].at \in {"tool", "failed"} /\ turn[k[1]].round = k[2]
      /\ At(k[1], "tool") => call[k] \in {"sign", "sent"}
  BY <1>2, <1>3, <1>4 DEF CallsOf
<1>6. \A l \in Calls : l # k => call'[l] = call[l] /\ job'[l] = job[l]
  BY <1>2
<1>7. At(k[1], "tool") => call'[k] \in {"sign", "sent"}
  BY <1>2, <1>5
<1>. QED BY <1>1, <1>2, <1>5, <1>6, <1>7, ToolStepKeepsIInv

LEMMA RevokeKeepsIInv ==
  ASSUME IInv, NEW c \in Creds, Tool(Revoke(c))
  PROVE  IInv'
<1>1. UNCHANGED chatVars /\ ToolInv' /\ call' = call /\ job' = job /\ ran' = ran
  BY RevokeEffect DEF Tool, IInv
<1>2. arrays' = arrays /\ stored' = stored /\ turn' = turn /\ raced' = raced
  BY <1>1 DEF chatVars
<1>. QED
  BY <1>1, <1>2 DEF IInv, Types, TypeOK, ChatTypeOK, RoundsLeft, StoredIsShared, Running, At,
     ToolInv, Links, CallsOf, ResultIsFinal, RunIsTold, Has, In

(***************************************************************************)
(* A turn begins.                                                          *)
(***************************************************************************)
LEMMA AppendEffect ==
  ASSUME Types, NEW h \in Turns, NEW m \in Message,
         arrays' = [arrays EXCEPT ![h] = Append(@, m)]
  PROVE  /\ arrays' \in [Turns -> Seq(Message)]
         /\ \A a \in Turns : \A x : Has(a, x)' <=> Has(a, x) \/ (a = h /\ x = m)
<1>1. arrays \in [Turns -> Seq(Message)]
  BY DEF Types, TypeOK, ChatTypeOK
<1>2. \A a \in Turns : arrays'[a] = IF a = h THEN arrays[a] \o <<m>> ELSE arrays[a]
  BY <1>1, AppendOne
<1>3. arrays' = [a \in Turns |-> arrays'[a]]
  BY <1>1
<1>4. ASSUME NEW a \in Turns
      PROVE  /\ arrays'[a] \in Seq(Message)
             /\ \A x : Has(a, x)' <=> Has(a, x) \/ (a = h /\ x = m)
  <2>1. arrays[a] \in Seq(Message)
    BY <1>1
  <2>2. CASE a = h
    <3>1. arrays'[a] = arrays[a] \o <<m>>
      BY <1>2, <2>2
    <3>2. /\ arrays'[a] \in Seq(Message)
          /\ \A x : In(arrays'[a], x) <=> In(arrays[a], x) \/ x = m
      BY <2>1, <3>1, PushOne
    <3>. QED BY <2>2, <3>2 DEF Has
  <2>3. CASE a # h
    BY <1>2, <2>1, <2>3 DEF Has
  <2>. QED BY <2>2, <2>3
<1>. QED BY <1>3, <1>4

LEMMA BeginKeepsIInv ==
  ASSUME IInv, NEW t \in Turns, Chat(Begin(t))
  PROVE  IInv'
<1>1. turn[t] = None /\ stored' = stored /\ UNCHANGED toolVars /\ Begin(t)
  BY DEF Chat, Begin
<1>2. PICK c \in Conversations, p \in Personas, h \in Turns :
        LET k == <<c, p>>
            T == [at |-> "complete", conv |-> c, as |-> p, key |-> k, hist |-> h, round |-> 0,
                  tool |-> None]
        IN /\ Goes(t, T)
           /\ k \in Keys
           /\ h = IF stored[k] = None THEN t ELSE stored[k]
           /\ arrays' = [arrays EXCEPT ![h] = Append(@, Said("user", t))]
           /\ raced' = IF stored[k] = None /\ \E u \in Turns : Running(u) /\ turn[u].key = k
                       THEN raced \cup {k}
                       ELSE raced
  BY <1>1, BeginGoes DEF IInv
<1>. DEFINE k == <<c, p>>
            T == [at |-> "complete", conv |-> c, as |-> p, key |-> k, hist |-> h, round |-> 0,
                  tool |-> None]
            m == Said("user", t)
<1>3. /\ Goes(t, T) /\ k \in Keys
      /\ T.at = "complete" /\ T.round = 0 /\ T.key = k /\ T.hist = h
  BY <1>2
<1>4. m \in Message /\ m.role = "user" /\ arrays' = [arrays EXCEPT ![h] = Append(@, m)]
  BY <1>2 DEF Said, Message
<1>5. h = IF stored[k] = None THEN t ELSE stored[k]
  BY <1>2
<1>6. raced' = IF stored[k] = None /\ \E u \in Turns : Running(u) /\ turn[u].key = k
               THEN raced \cup {k}
               ELSE raced
  BY <1>2
<1>. HIDE DEF k, T, m
<1>7. T # None /\ \A u \in Turns : turn'[u] = IF u = t THEN T ELSE turn[u]
  BY <1>3, GoesFacts DEF IInv
<1>8. /\ arrays' \in [Turns -> Seq(Message)]
      /\ \A a \in Turns : \A x : Has(a, x)' <=> Has(a, x) \/ (a = h /\ x = m)
  BY <1>4, AppendEffect DEF IInv
<1>9. ToolInv' /\ call' = call /\ job' = job /\ ran' = ran
  BY <1>1, QuietTools
<1>10. Types'
  <2>1. stored' \in [Keys -> Turns \cup {None}] /\ raced' \subseteq Keys
    BY <1>1, <1>3, <1>6 DEF IInv, Types, TypeOK, ChatTypeOK
  <2>2. ToolTypeOK'
    BY <1>9 DEF ToolInv
  <2>. QED BY <1>3, <1>8, <2>1, <2>2, GoesTypes DEF IInv
<1>11. CallsOf(t)'
  <2>1. CallsOf(t)
    BY DEF IInv, Links
  <2>2. \A i \in Rs : call[<<t, i>>] = "unmade" /\ job[<<t, i>>] = None
    BY <1>1, <2>1 DEF CallsOf
  <2>. QED BY <1>3, <1>7, <1>9, <2>2 DEF CallsOf, At
<1>12. \A a \in Turns : \A x : Has(a, x)' /\ x.role = "result" => Has(a, x)
  BY <1>4, <1>8
<1>13. \A a \in Turns : \A x : Has(a, x) /\ x.role = "result" => x.id \in Calls /\ x.id[1] # t
  BY <1>1, OldMessages DEF ResultIsFinal
<1>14. \A l \in ran : l[1] # t
  BY <1>1, OldRuns DEF RunIsTold
<1>15. Links'
  <2>1. \A a \in Turns : \A x : Has(a, x) => Has(a, x)'
    BY <1>8
  <2>2. \A a \in Turns : \A x : Has(a, x)' /\ x.role = "result" /\ ~Has(a, x) => x.id[1] = t
    BY <1>12
  <2>3. \A a \in Turns : \A x : Has(a, x)' /\ x.role = "result" => x.id \in Calls
    BY <1>12, <1>13
  <2>4. \A l \in Calls : l[1] # t => call'[l] = call[l] /\ job'[l] = job[l]
    BY <1>9
  <2>5. \A a \in Turns : \A x :
            Has(a, x)' /\ x.role = "result" /\ x.id[1] = t => ResultIsFinal(x)'
    BY <1>12, <1>13
  <2>6. \A l \in ran : l[1] = t => RunIsTold(l)'
    BY <1>14
  <2>7. turn[t] # None => T.hist = turn[t].hist
    BY <1>1
  <2>8. ToolInv' /\ ran' = ran
    BY <1>9
  <2>. QED BY <1>3, <1>11, <2>1, <2>2, <2>3, <2>4, <2>5, <2>6, <2>7, <2>8, TurnMoves
<1>16. StoredIsShared'
  <2>1. raced \subseteq raced'
    BY <1>6
  <2>2. ASSUME NEW u \in Turns, turn'[u] # None, turn'[u].key \notin raced'
        PROVE  /\ At(u, "answered")' => stored[turn'[u].key] = turn'[u].hist
               /\ Running(u)' =>
                    \/ stored[turn'[u].key] = turn'[u].hist
                    \/ /\ stored[turn'[u].key] = None
                       /\ \A w \in Turns : Running(w)' /\ turn'[w].key = turn'[u].key => w = u
    <3>1. CASE u = t
      <4>1. turn'[u] = T /\ ~At(u, "answered")'
        BY <1>3, <1>7, <3>1 DEF At
      <4>2. CASE stored[k] = None
        <5>1. \A w \in Turns : ~(Running(w) /\ turn[w].key = k)
          BY <1>3, <1>6, <2>2, <4>1, <4>2
        <5>2. \A w \in Turns : w # t => turn'[w] = turn[w]
          BY <1>7
        <5>3. \A w \in Turns : w # t /\ Running(w)' => Running(w) /\ turn'[w].key # k
          BY <5>1, <5>2 DEF Running, At
        <5>. QED BY <1>3, <3>1, <4>1, <4>2, <5>3
      <4>3. CASE stored[k] # None
        BY <1>3, <1>5, <4>1, <4>3
      <4>. QED BY <4>2, <4>3
    <3>2. CASE u # t
      <4>1. /\ turn'[u] = turn[u] /\ turn[u] # None /\ turn[u].key \notin raced
            /\ At(u, "answered")' <=> At(u, "answered")
            /\ Running(u)' <=> Running(u)
        BY <1>7, <2>1, <2>2, <3>2 DEF Running, At
      <4>2. At(u, "answered") => stored[turn[u].key] = turn[u].hist
        BY <4>1 DEF IInv, StoredIsShared
      <4>3. ASSUME Running(u), stored[turn[u].key] # turn[u].hist
            PROVE  /\ stored[turn[u].key] = None
                   /\ \A w \in Turns : Running(w)' /\ turn'[w].key = turn[u].key => w = u
        <5>1. /\ stored[turn[u].key] = None
              /\ \A w \in Turns : Running(w) /\ turn[w].key = turn[u].key => w = u
          BY <4>1, <4>3 DEF IInv, StoredIsShared
        <5>2. turn[u].key # k
          BY <1>6, <2>2, <4>1, <4>3, <5>1
        <5>3. \A w \in Turns : w # t => turn'[w] = turn[w] /\ (Running(w)' <=> Running(w))
          BY <1>7 DEF Running, At
        <5>4. turn'[t].key = k
          BY <1>3, <1>7
        <5>. QED BY <5>1, <5>2, <5>3, <5>4
      <4>. QED BY <4>1, <4>2, <4>3
    <3>. QED BY <3>1, <3>2
  <2>. QED BY <1>1, <2>2 DEF StoredIsShared
<1>. QED BY <1>9, <1>10, <1>15, <1>16 DEF IInv

(***************************************************************************)
(* The invariant.                                                          *)
(***************************************************************************)
LEMMA InitIInv == Init => IInv
<1>. SUFFICES ASSUME Init
     PROVE  IInv
  OBVIOUS
<1>1. \A t \in Turns : turn[t] = None /\ arrays[t] = <<>>
  BY DEF Init, ChatInit
<1>2. \A k \in Calls : call[k] = "unmade" /\ job[k] = None
  BY DEF Init, ToolInit
<1>3. TypeOK /\ ran = {}
  BY DEF Init, ChatInit, ToolInit, TypeOK, ChatTypeOK, ToolTypeOK
<1>4. \A t \in Turns : ~Running(t) /\ ~At(t, "tool")
  BY <1>1 DEF Running, At
<1>5. Types
  BY <1>3, <1>4 DEF Types, RoundsLeft
<1>6. ToolInv
  BY <1>2, <1>3, JobFacts DEF ToolInv, JobsAreChecked, Books, TypeOK
<1>7. \A a \in Turns : \A m : ~Has(a, m)
  BY <1>1 DEF Has, In
<1>8. \A t \in Turns : CallsOf(t)
  BY <1>1, <1>2, <1>4, CallFacts DEF CallsOf
<1>9. Links
  BY <1>3, <1>7, <1>8 DEF Links
<1>10. StoredIsShared
  BY <1>1 DEF StoredIsShared
<1>. QED BY <1>5, <1>6, <1>9, <1>10 DEF IInv

LEMMA NextKeepsIInv == IInv /\ [Next]_vars => IInv'
<1>. SUFFICES ASSUME IInv, [Next]_vars
     PROVE  IInv'
  OBVIOUS
<1>1. CASE UNCHANGED vars
  <2>1. arrays' = arrays /\ stored' = stored /\ turn' = turn /\ raced' = raced
        /\ UNCHANGED toolVars
    BY <1>1 DEF vars, chatVars
  <2>2. ToolInv' /\ call' = call /\ job' = job /\ ran' = ran
    BY <2>1, QuietTools
  <2>. QED
    BY <2>1, <2>2 DEF IInv, Types, TypeOK, ChatTypeOK, RoundsLeft, StoredIsShared, Running, At,
       ToolInv, Links, CallsOf, ResultIsFinal, RunIsTold, Has, In
<1>2. ASSUME NEW t \in Turns, Chat(Begin(t))
      PROVE  IInv'
  BY <1>2, BeginKeepsIInv
<1>3. ASSUME NEW t \in Turns, TurnStep(t)
      PROVE  IInv'
  <2>1. CASE Chat(Answer(t))
    BY <2>1, AnswerKeepsIInv
  <2>2. CASE ProviderFails(t)
    BY <2>2, ProviderFailsKeepsIInv
  <2>3. CASE Chat(UnknownTool(t))
    BY <2>3, UnknownToolKeepsIInv
  <2>4. CASE StartTool(t)
    BY <2>4, StartToolKeepsIInv
  <2>5. CASE SignForTurn(t)
    BY <2>5, SignForTurnKeepsIInv
  <2>6. CASE LoseTool(t)
    BY <2>6, LoseToolKeepsIInv
  <2>7. CASE GetResult(t)
    BY <2>7, GetResultKeepsIInv
  <2>. QED BY <1>3, <2>1, <2>2, <2>3, <2>4, <2>5, <2>6, <2>7 DEF TurnStep
<1>4. ASSUME NEW k \in Calls, Tool(Serve(k))
      PROVE  IInv'
  BY <1>4, ServeKeepsIInv
<1>5. ASSUME NEW c \in Creds, Tool(Revoke(c))
      PROVE  IInv'
  BY <1>5, RevokeKeepsIInv
<1>. QED BY <1>1, <1>2, <1>3, <1>4, <1>5 DEF Next

THEOREM Invariance == Spec => []IInv
BY InitIInv, NextKeepsIInv, PTL DEF Spec

(***************************************************************************)
(* The order of a history.  A history is paired, up to a set of open calls *)
(* that have no result yet, if a user began it and every result follows    *)
(* its call, the only result of it, with nothing of its turn in between.   *)
(***************************************************************************)
CallAt(s, i, k)   == i \in DOMAIN s /\ s[i].role = "call" /\ s[i].id = k
ResultAt(s, i, k) == i \in DOMAIN s /\ s[i].role = "result" /\ s[i].id = k

NoResult(s, k)  == \A j \in DOMAIN s : ~ResultAt(s, j, k)
OneResult(s, k) == \E j \in DOMAIN s : \A n \in DOMAIN s : ResultAt(s, n, k) <=> n = j

Opened(s) == s # <<>> => s[1].role = "user"

CallsHaveResults(s, open) ==
    \A k \in Calls : \A i \in DOMAIN s :
        CallAt(s, i, k) => OneResult(s, k) \/ (NoResult(s, k) /\ k \in open)

ResultsHaveCalls(s) ==
    \A k \in Calls : \A i \in DOMAIN s :
        ResultAt(s, i, k) =>
            \E j \in 1 .. i - 1 :
                CallAt(s, j, k) /\ \A n \in j + 1 .. i - 1 : MsgTurn(s[n]) # k[1]

Paired(s, open) == Opened(s) /\ CallsHaveResults(s, open) /\ ResultsHaveCalls(s)

\* The call k is the last that its turn has said.
Pending(s, k) ==
    \E j \in DOMAIN s : CallAt(s, j, k) /\ \A n \in DOMAIN s : n > j => MsgTurn(s[n]) # k[1]

\* u is s and one message more.
Longer(s, m, u) ==
    /\ s \in Seq(Message) /\ u \in Seq(Message) /\ u # <<>>
    /\ Len(s) \in Nat /\ DOMAIN s = 1 .. Len(s)
    /\ Len(u) = Len(s) + 1 /\ DOMAIN u = 1 .. Len(s) + 1
    /\ \A i \in 1 .. Len(s) : u[i] = s[i]
    /\ u[Len(s) + 1] = m
    /\ s = <<>> => Len(s) = 0

LEMMA LongerByOne ==
  ASSUME NEW s \in Seq(Message), NEW m \in Message
  PROVE  Longer(s, m, s \o <<m>>)
<1>. DEFINE u == s \o <<m>>
<1>1. <<m>> \in Seq(Message) /\ Len(<<m>>) = 1 /\ <<m>>[1] = m
  OBVIOUS
<1>2. u \in Seq(Message) /\ Len(u) = Len(s) + 1 /\ Len(s) \in Nat
  BY <1>1, ConcatProperties
<1>3. \A i \in 1 .. Len(s) : u[i] = s[i]
  BY <1>1, ConcatProperties
<1>4. u[Len(s) + 1] = m
  BY <1>1, <1>2, ConcatProperties
<1>5. DOMAIN u = 1 .. Len(s) + 1 /\ DOMAIN s = 1 .. Len(s)
  BY <1>2
<1>6. u # <<>>
  BY <1>2
<1>7. s = <<>> => Len(s) = 0
  OBVIOUS
<1>. QED BY <1>2, <1>3, <1>4, <1>5, <1>6, <1>7 DEF Longer

LEMMA LongerByTwo ==
  ASSUME NEW s \in Seq(Message), NEW m \in Message, NEW n \in Message
  PROVE  s \o <<m, n>> = (s \o <<m>>) \o <<n>>
<1>1. <<m>> \in Seq(Message) /\ <<n>> \in Seq(Message)
  OBVIOUS
<1>2. <<m, n>> = Append(<<m>>, n)
  OBVIOUS
<1>3. <<m, n>> = <<m>> \o <<n>>
  BY <1>1, <1>2, AppendOne
<1>. QED BY <1>1, <1>3, ConcatAssociative

\* What one message more leaves as it was.
LEMMA LongerKeeps ==
  ASSUME NEW s, NEW m, NEW u, Longer(s, m, u), NEW k
  PROVE  /\ Pending(s, k) /\ MsgTurn(m) # k[1] => Pending(u, k)
         /\ ~(m.role = "result" /\ m.id = k) =>
                /\ NoResult(s, k) => NoResult(u, k)
                /\ OneResult(s, k) => OneResult(u, k)
         /\ m.role = "result" /\ m.id = k /\ NoResult(s, k) => OneResult(u, k)
         /\ m.role = "call" /\ m.id = k => Pending(u, k)
<1>. USE DEF Longer
<1>1. ASSUME Pending(s, k), MsgTurn(m) # k[1]
      PROVE  Pending(u, k)
  <2>1. PICK j \in DOMAIN s :
          CallAt(s, j, k) /\ \A n \in DOMAIN s : n > j => MsgTurn(s[n]) # k[1]
    BY <1>1 DEF Pending
  <2>2. j \in DOMAIN u /\ CallAt(u, j, k)
    BY <2>1 DEF CallAt
  <2>3. \A n \in DOMAIN u : n > j => MsgTurn(u[n]) # k[1]
    <3>1. ASSUME NEW n \in DOMAIN u, n > j
          PROVE  MsgTurn(u[n]) # k[1]
      <4>1. CASE n = Len(s) + 1
        BY <1>1, <4>1
      <4>2. CASE n # Len(s) + 1
        <5>1. n \in 1 .. Len(s) /\ u[n] = s[n]
          BY <4>2
        <5>. QED BY <2>1, <3>1, <5>1
      <4>. QED BY <4>1, <4>2
    <3>. QED BY <3>1
  <2>. QED BY <2>2, <2>3 DEF Pending
<1>2. ASSUME ~(m.role = "result" /\ m.id = k)
      PROVE  \A i \in DOMAIN u : ResultAt(u, i, k) <=> i \in DOMAIN s /\ ResultAt(s, i, k)
  <2>. TAKE i \in DOMAIN u
  <2>1. CASE i = Len(s) + 1
    BY <1>2, <2>1 DEF ResultAt
  <2>2. CASE i # Len(s) + 1
    <3>1. i \in 1 .. Len(s) /\ u[i] = s[i]
      BY <2>2
    <3>. QED BY <3>1 DEF ResultAt
  <2>. QED BY <2>1, <2>2
<1>3. ASSUME ~(m.role = "result" /\ m.id = k)
      PROVE  /\ NoResult(s, k) => NoResult(u, k)
             /\ OneResult(s, k) => OneResult(u, k)
  <2>1. NoResult(s, k) => NoResult(u, k)
    BY <1>2, <1>3 DEF NoResult
  <2>2. ASSUME OneResult(s, k)
        PROVE  OneResult(u, k)
    <3>1. PICK j \in DOMAIN s : \A n \in DOMAIN s : ResultAt(s, n, k) <=> n = j
      BY <2>2 DEF OneResult
    <3>2. j \in DOMAIN u
      BY <3>1
    <3>3. \A n \in DOMAIN u : ResultAt(u, n, k) <=> n = j
      BY <1>2, <1>3, <3>1, <3>2
    <3>. QED BY <3>2, <3>3 DEF OneResult
  <2>. QED BY <2>1, <2>2
<1>4. ASSUME m.role = "result", m.id = k, NoResult(s, k)
      PROVE  OneResult(u, k)
  <2>1. Len(s) + 1 \in DOMAIN u
    OBVIOUS
  <2>2. \A n \in DOMAIN u : ResultAt(u, n, k) <=> n = Len(s) + 1
    <3>. TAKE n \in DOMAIN u
    <3>1. CASE n = Len(s) + 1
      BY <1>4, <3>1 DEF ResultAt
    <3>2. CASE n # Len(s) + 1
      <4>1. n \in 1 .. Len(s) /\ u[n] = s[n]
        BY <3>2
      <4>. QED BY <1>4, <3>2, <4>1 DEF ResultAt, NoResult
    <3>. QED BY <3>1, <3>2
  <2>. QED BY <2>1, <2>2 DEF OneResult
<1>5. ASSUME m.role = "call", m.id = k
      PROVE  Pending(u, k)
  <2>1. Len(s) + 1 \in DOMAIN u /\ CallAt(u, Len(s) + 1, k)
    BY <1>5 DEF CallAt
  <2>2. \A n \in DOMAIN u : ~(n > Len(s) + 1)
    OBVIOUS
  <2>. QED BY <2>1, <2>2 DEF Pending
<1>. QED BY <1>1, <1>3, <1>4, <1>5

\* A history stays paired, with more calls open or fewer.
LEMMA LongerIsPaired ==
  ASSUME NEW s, NEW m, NEW u, Longer(s, m, u), NEW open, NEW open2, Paired(s, open),
         s = <<>> => m.role = "user",
         m.role = "call" => NoResult(s, m.id) /\ m.id \in open2,
         m.role = "result" => NoResult(s, m.id) /\ Pending(s, m.id),
         \A k \in open : k \in open2 \/ (m.role = "result" /\ m.id = k)
  PROVE  Paired(u, open2)
<1>0. /\ Len(s) \in Nat /\ DOMAIN s = 1 .. Len(s) /\ DOMAIN u = 1 .. Len(s) + 1
      /\ \A i \in 1 .. Len(s) : u[i] = s[i]
      /\ u[Len(s) + 1] = m
      /\ s \in Seq(Message)
      /\ s = <<>> => Len(s) = 0
  BY DEF Longer
<1>1. Opened(u)
  <2>1. CASE s = <<>>
    <3>1. u[1] = m
      BY <1>0, <2>1
    <3>. QED BY <2>1, <3>1 DEF Opened
  <2>2. CASE s # <<>>
    <3>1. Len(s) # 0
      BY <1>0, <2>2, EmptySeq
    <3>2. 1 \in 1 .. Len(s) /\ u[1] = s[1]
      BY <1>0, <3>1
    <3>. QED BY <2>2, <3>2 DEF Paired, Opened
  <2>. QED BY <2>1, <2>2
<1>2. CallsHaveResults(u, open2)
  <2>1. ASSUME NEW k \in Calls, NEW i \in DOMAIN u, CallAt(u, i, k)
        PROVE  OneResult(u, k) \/ (NoResult(u, k) /\ k \in open2)
    <3>1. CASE i = Len(s) + 1
      <4>1. m.role = "call" /\ m.id = k
        BY <1>0, <2>1, <3>1 DEF CallAt
      <4>2. NoResult(s, k) /\ k \in open2
        BY <4>1
      <4>. QED BY <4>1, <4>2, LongerKeeps
    <3>2. CASE i # Len(s) + 1
      <4>1. i \in DOMAIN s /\ CallAt(s, i, k)
        BY <1>0, <2>1, <3>2 DEF CallAt
      <4>2. OneResult(s, k) \/ (NoResult(s, k) /\ k \in open)
        BY <4>1 DEF Paired, CallsHaveResults
      <4>3. CASE m.role = "result" /\ m.id = k
        <5>1. NoResult(s, k)
          BY <4>3
        <5>. QED BY <4>3, <5>1, LongerKeeps
      <4>4. CASE ~(m.role = "result" /\ m.id = k)
        <5>1. /\ NoResult(s, k) => NoResult(u, k)
              /\ OneResult(s, k) => OneResult(u, k)
          BY <4>4, LongerKeeps
        <5>2. k \in open => k \in open2
          BY <4>4
        <5>. QED BY <4>2, <5>1, <5>2
      <4>. QED BY <4>3, <4>4
    <3>. QED BY <3>1, <3>2
  <2>. QED BY <2>1 DEF CallsHaveResults
<1>3. ResultsHaveCalls(u)
  <2>1. ASSUME NEW k \in Calls, NEW i \in DOMAIN u, ResultAt(u, i, k)
        PROVE  \E j \in 1 .. i - 1 :
                CallAt(u, j, k) /\ \A n \in j + 1 .. i - 1 : MsgTurn(u[n]) # k[1]
    <3>1. CASE i = Len(s) + 1
      <4>1. m.role = "result" /\ m.id = k
        BY <1>0, <2>1, <3>1 DEF ResultAt
      <4>2. PICK j \in DOMAIN s :
              CallAt(s, j, k) /\ \A n \in DOMAIN s : n > j => MsgTurn(s[n]) # k[1]
        BY <4>1 DEF Pending
      <4>3. j \in 1 .. i - 1 /\ CallAt(u, j, k)
        BY <1>0, <3>1, <4>2 DEF CallAt
      <4>4. \A n \in j + 1 .. i - 1 : n \in DOMAIN s /\ n > j /\ u[n] = s[n]
        BY <1>0, <3>1, <4>2
      <4>5. \A n \in j + 1 .. i - 1 : MsgTurn(u[n]) # k[1]
        BY <4>2, <4>4
      <4>. QED BY <4>3, <4>5
    <3>2. CASE i # Len(s) + 1
      <4>1. i \in 1 .. Len(s) /\ ResultAt(s, i, k)
        BY <1>0, <2>1, <3>2 DEF ResultAt
      <4>2. PICK j \in 1 .. i - 1 :
              CallAt(s, j, k) /\ \A n \in j + 1 .. i - 1 : MsgTurn(s[n]) # k[1]
        BY <1>0, <4>1 DEF Paired, ResultsHaveCalls
      <4>3. CallAt(u, j, k)
        BY <1>0, <4>1, <4>2 DEF CallAt
      <4>4. \A n \in j + 1 .. i - 1 : u[n] = s[n]
        BY <1>0, <4>1, <4>2
      <4>5. \A n \in j + 1 .. i - 1 : MsgTurn(u[n]) # k[1]
        BY <4>2, <4>4
      <4>. QED BY <4>3, <4>5
    <3>. QED BY <3>1, <3>2
  <2>. QED BY <2>1 DEF ResultsHaveCalls
<1>. QED BY <1>1, <1>2, <1>3 DEF Paired
(***************************************************************************)
(* The histories: the open calls of an array are those of the turns that   *)
(* work on it and are at a tool, or have failed there.                     *)
(***************************************************************************)
OpenCall(t) == turn[t] # None /\ turn[t].at \in {"tool", "failed"}

OpenIn(a) ==
    {k \in Calls : OpenCall(k[1]) /\ turn[k[1]].hist = a /\ turn[k[1]].round = k[2]}

Histories ==
    /\ \A a \in Turns : Paired(arrays[a], OpenIn(a))
    /\ \A t \in Turns : turn[t] # None => arrays[turn[t].hist] # <<>>
    /\ \A t \in Turns : At(t, "tool") => Pending(arrays[turn[t].hist], ThisCall(t))

LEMMA InitHistories == Init => Histories
<1>. SUFFICES ASSUME Init
     PROVE  Histories
  OBVIOUS
<1>1. \A t \in Turns : turn[t] = None /\ arrays[t] = <<>>
  BY DEF Init, ChatInit
<1>2. DOMAIN <<>> = {}
  OBVIOUS
<1>3. \A open : Paired(<<>>, open)
  BY <1>2 DEF Paired, Opened, CallsHaveResults, ResultsHaveCalls
<1>. QED BY <1>1, <1>3 DEF Histories, At

\* A turn goes on to T and makes u of its array.
LEMMA WritesKeepHistories ==
  ASSUME Types, Histories, NEW t \in Turns, NEW T, Goes(t, T), T.hist \in Turns,
         turn[t] # None => T.hist = turn[t].hist,
         NEW u, arrays' = [arrays EXCEPT ![T.hist] = u], u # <<>>,
         Paired(u, OpenIn(T.hist)'),
         \A k \in Calls : k[1] # t /\ Pending(arrays[T.hist], k) => Pending(u, k),
         T.at = "tool" => Pending(u, <<t, T.round>>)
  PROVE  Histories'
<1>1. T # None /\ \A w \in Turns : turn'[w] = IF w = t THEN T ELSE turn[w]
  BY GoesFacts
<1>2. \A a \in Turns : arrays'[a] = IF a = T.hist THEN u ELSE arrays[a]
  BY DEF Types, TypeOK, ChatTypeOK
<1>3. \A w \in Turns : turn[w] # None => turn[w].hist \in Turns
  BY TurnFacts
<1>4. ASSUME NEW a \in Turns
      PROVE  Paired(arrays[a], OpenIn(a))'
  <2>1. CASE a = T.hist
    BY <1>2, <2>1
  <2>2. CASE a # T.hist
    <3>1. \A k \in Calls : k \in OpenIn(a)' <=> k \in OpenIn(a)
      <4>. TAKE k \in Calls
      <4>1. k[1] \in Turns
        BY CallFacts
      <4>. QED BY <1>1, <2>2, <4>1 DEF OpenIn, OpenCall
    <3>2. OpenIn(a)' = OpenIn(a)
      BY <3>1 DEF OpenIn
    <3>3. Paired(arrays[a], OpenIn(a)) /\ arrays'[a] = arrays[a]
      BY <1>2, <2>2 DEF Histories
    <3>. QED BY <3>2, <3>3
  <2>. QED BY <2>1, <2>2
<1>5. ASSUME NEW w \in Turns, turn'[w] # None
      PROVE  arrays'[turn'[w].hist] # <<>>
  <2>1. CASE w = t
    BY <1>1, <1>2, <2>1
  <2>2. CASE w # t
    <3>1. turn'[w] = turn[w] /\ turn[w].hist \in Turns
      BY <1>1, <1>3, <1>5, <2>2
    <3>. QED BY <1>2, <1>5, <3>1 DEF Histories
  <2>. QED BY <2>1, <2>2
<1>6. ASSUME NEW w \in Turns, At(w, "tool")'
      PROVE  Pending(arrays[turn[w].hist], ThisCall(w))'
  <2>1. CASE w = t
    <3>1. turn'[w] = T /\ T.at = "tool" /\ arrays'[T.hist] = u
      BY <1>1, <1>2, <1>6, <2>1 DEF At
    <3>2. ThisCall(w)' = <<t, T.round>>
      BY <2>1, <3>1 DEF ThisCall
    <3>. QED BY <3>1, <3>2
  <2>2. CASE w # t
    <3>1. turn'[w] = turn[w] /\ At(w, "tool") /\ turn[w] # None /\ turn[w].hist \in Turns
      BY <1>1, <1>3, <1>6, <2>2 DEF At
    <3>2. ThisCall(w)' = ThisCall(w) /\ ThisCall(w)[1] = w
      BY <3>1 DEF ThisCall
    <3>3. ThisCall(w) \in Calls
      BY <3>1, TurnFacts DEF Running
    <3>4. Pending(arrays[turn[w].hist], ThisCall(w))
      BY <3>1 DEF Histories
    <3>5. Pending(arrays'[turn[w].hist], ThisCall(w))
      BY <1>2, <2>2, <3>1, <3>2, <3>3, <3>4
    <3>. QED BY <3>1, <3>2, <3>5
  <2>. QED BY <2>1, <2>2
<1>. QED BY <1>4, <1>5, <1>6 DEF Histories

\* The open calls of an array after turn t has gone on to T.
LEMMA OpenAfter ==
  ASSUME Types, NEW t \in Turns, NEW T, Goes(t, T), T.hist \in Turns,
         turn[t] # None => T.hist = turn[t].hist
  PROVE  /\ \A k \in Calls : k[1] # t => (k \in OpenIn(T.hist)' <=> k \in OpenIn(T.hist))
         /\ \A k \in Calls : k[1] = t =>
                (k \in OpenIn(T.hist)' <=> T.at \in {"tool", "failed"} /\ T.round = k[2])
<1>1. T # None /\ \A w \in Turns : turn'[w] = IF w = t THEN T ELSE turn[w]
  BY GoesFacts
<1>2. \A k \in Calls : k[1] \in Turns
  BY CallFacts
<1>. QED BY <1>1, <1>2 DEF OpenIn, OpenCall

\* No result of a call that its turn has not got past.
LEMMA NotYet ==
  ASSUME IInv, NEW t \in Turns, turn[t] # None, NEW a \in Turns
  PROVE  NoResult(arrays[a], ThisCall(t))
<1>1. ASSUME NEW j \in DOMAIN arrays[a], ResultAt(arrays[a], j, ThisCall(t))
      PROVE  FALSE
  <2>. DEFINE m == arrays[a][j]
  <2>1. Has(a, m) /\ m.role = "result" /\ m.id = ThisCall(t)
    BY <1>1 DEF Has, In, ResultAt
  <2>2. ResultIsFinal(m)
    BY <2>1, OldMessages
  <2>3. m.id[1] = t /\ m.id[2] = turn[t].round
    BY <2>1 DEF ThisCall
  <2>4. turn[t].round \in Nat
    BY TurnFacts, CallFacts DEF IInv
  <2>. HIDE DEF m
  <2>. QED BY <2>2, <2>3, <2>4 DEF ResultIsFinal
<1>. QED BY <1>1 DEF NoResult

\* What turn t works on, and what an array of messages is.
LEMMA Works ==
  ASSUME IInv, Histories, NEW t \in Turns, Running(t)
  PROVE  /\ turn[t] # None /\ turn[t].hist \in Turns /\ arrays[turn[t].hist] # <<>>
         /\ arrays[turn[t].hist] \in Seq(Message)
         /\ Paired(arrays[turn[t].hist], OpenIn(turn[t].hist))
         /\ NoResult(arrays[turn[t].hist], ThisCall(t))
         /\ ThisCall(t) \in Calls /\ ThisCall(t) = <<t, turn[t].round>>
         /\ \A k \in OpenIn(turn[t].hist) : k \in Calls /\ k[1] \in Turns
<1>1. turn[t] # None
  BY DEF Running, At
<1>2. turn[t].hist \in Turns /\ ThisCall(t) \in Calls /\ arrays[turn[t].hist] \in Seq(Message)
  BY <1>1, TurnFacts DEF IInv, Types, TypeOK, ChatTypeOK
<1>3. NoResult(arrays[turn[t].hist], ThisCall(t))
  BY <1>1, <1>2, NotYet
<1>. QED BY <1>1, <1>2, <1>3, CallFacts DEF Histories, ThisCall, OpenIn

\* A running turn says one message more.
LEMMA SaysOne ==
  ASSUME IInv, Histories, NEW t \in Turns, Running(t), NEW T, Goes(t, T),
         T.hist = turn[t].hist, NEW m \in Message, Push(t, <<m>>), MsgTurn(m) = t,
         m.role = "call" =>
            m.id = ThisCall(t) /\ T.at = "tool" /\ T.round = turn[t].round,
         m.role = "result" => m.id = ThisCall(t) /\ At(t, "tool"),
         T.at = "tool" => m.role = "call",
         \/ turn[t].at = "complete"
         \/ m.role = "result"
  PROVE  Histories'
<1>. DEFINE s == arrays[turn[t].hist]
            u == s \o <<m>>
<1>1. /\ turn[t] # None /\ T.hist \in Turns /\ s # <<>> /\ s \in Seq(Message)
      /\ Paired(s, OpenIn(T.hist)) /\ NoResult(s, ThisCall(t))
      /\ ThisCall(t) \in Calls /\ ThisCall(t) = <<t, turn[t].round>>
      /\ \A k \in OpenIn(T.hist) : k \in Calls /\ k[1] \in Turns
  BY Works
<1>2. Longer(s, m, u)
  BY <1>1, LongerByOne
<1>3. arrays' = [arrays EXCEPT ![T.hist] = u]
  BY DEF Push
<1>4. At(t, "tool") => Pending(s, ThisCall(t))
  BY DEF Histories
<1>. HIDE DEF s, u
<1>5. ThisCall(t)[1] = t /\ ThisCall(t)[2] = turn[t].round
  BY <1>1
<1>6. m.role = "call" => ThisCall(t) \in OpenIn(T.hist)'
  BY <1>1, <1>5, OpenAfter DEF IInv
<1>7. \A k \in OpenIn(T.hist) :
        k \in OpenIn(T.hist)' \/ (m.role = "result" /\ m.id = k)
  <2>. TAKE k \in OpenIn(T.hist)
  <2>1. CASE k[1] # t
    BY <1>1, <2>1, OpenAfter DEF IInv
  <2>2. CASE k[1] = t
    <3>1. turn[t].at \in {"tool", "failed"} /\ k = <<k[1], k[2]>> /\ k[2] = turn[t].round
      BY <2>2, CallFacts DEF OpenIn, OpenCall
    <3>2. k = ThisCall(t)
      BY <1>1, <2>2, <3>1
    <3>. QED BY <3>1, <3>2
  <2>. QED BY <2>1, <2>2
<1>8. m.role = "call" => NoResult(s, m.id) /\ m.id \in OpenIn(T.hist)'
  BY <1>1, <1>6
<1>9. m.role = "result" => NoResult(s, m.id) /\ Pending(s, m.id)
  BY <1>1, <1>4
<1>10. Paired(u, OpenIn(T.hist)')
  BY <1>1, <1>2, <1>7, <1>8, <1>9, LongerIsPaired
<1>11. \A k \in Calls : k[1] # t /\ Pending(s, k) => Pending(u, k)
  BY <1>2, LongerKeeps
<1>12. T.at = "tool" => Pending(u, <<t, T.round>>)
  BY <1>1, <1>2, LongerKeeps
<1>13. u # <<>>
  BY <1>2 DEF Longer
<1>14. arrays[T.hist] = s
  BY DEF s
<1>. QED
  BY <1>1, <1>3, <1>10, <1>11, <1>12, <1>13, <1>14, WritesKeepHistories DEF IInv

\* A running turn fails where it is.
LEMMA SaysNothing ==
  ASSUME IInv, Histories, NEW t \in Turns, Running(t), NEW T, Goes(t, T),
         T.hist = turn[t].hist, T.round = turn[t].round, T.at = "failed", arrays' = arrays
  PROVE  Histories'
<1>. DEFINE s == arrays[turn[t].hist]
<1>1. /\ turn[t] # None /\ T.hist \in Turns /\ s # <<>> /\ s \in Seq(Message)
      /\ Paired(s, OpenIn(T.hist))
      /\ \A k \in OpenIn(T.hist) : k \in Calls /\ k[1] \in Turns
  BY Works
<1>2. arrays' = [arrays EXCEPT ![T.hist] = s]
  BY DEF IInv, Types, TypeOK, ChatTypeOK
<1>3. \A k \in OpenIn(T.hist) : k \in OpenIn(T.hist)'
  <2>. TAKE k \in OpenIn(T.hist)
  <2>1. CASE k[1] # t
    BY <1>1, <2>1, OpenAfter DEF IInv
  <2>2. CASE k[1] = t
    <3>1. k[2] = turn[t].round
      BY <2>2 DEF OpenIn
    <3>. QED BY <1>1, <2>2, <3>1, OpenAfter DEF IInv
  <2>. QED BY <2>1, <2>2
<1>4. Paired(s, OpenIn(T.hist)')
  BY <1>1, <1>3 DEF Paired, CallsHaveResults
<1>5. T.at # "tool" /\ arrays[T.hist] = s
  OBVIOUS
<1>. HIDE DEF s
<1>. QED BY <1>1, <1>2, <1>4, <1>5, WritesKeepHistories DEF IInv
LEMMA MessageTurns ==
  ASSUME NEW t \in Turns
  PROVE  /\ MsgTurn(Said("user", t)) = t /\ MsgTurn(Said("text", t)) = t
         /\ MsgTurn(CallOf(t)) = t /\ CallOf(t).role = "call" /\ CallOf(t).id = ThisCall(t)
         /\ \A ok : /\ MsgTurn(ResultOf(t, ok)) = t /\ ResultOf(t, ok).role = "result"
                    /\ ResultOf(t, ok).id = ThisCall(t)
BY DEF MsgTurn, Said, CallOf, ResultOf, ThisCall

\* UnknownTool: a call and its result at once.
LEMMA SaysTwo ==
  ASSUME IInv, Histories, NEW t \in Turns, At(t, "complete"), NEW T, Goes(t, T),
         T.hist = turn[t].hist, T.at \in {"complete", "answered"},
         Push(t, <<CallOf(t), ResultOf(t, FALSE)>>)
  PROVE  Histories'
<1>. DEFINE s == arrays[turn[t].hist]
            m == CallOf(t)
            n == ResultOf(t, FALSE)
            k == ThisCall(t)
            v == s \o <<m>>
            u == v \o <<n>>
            open == OpenIn(T.hist)
<1>1. /\ turn[t] # None /\ T.hist \in Turns /\ s # <<>> /\ s \in Seq(Message)
      /\ Paired(s, open) /\ NoResult(s, k) /\ k \in Calls /\ k = <<t, turn[t].round>>
      /\ \A l \in open : l \in Calls /\ l[1] \in Turns
  BY Works DEF Running
<1>2. m \in Message /\ n \in Message
  BY <1>1, TurnFacts DEF IInv, Running
<1>3. /\ MsgTurn(m) = t /\ m.role = "call" /\ m.id = k
      /\ MsgTurn(n) = t /\ n.role = "result" /\ n.id = k
  BY MessageTurns
<1>4. s \o <<m, n>> = u
  BY <1>1, <1>2, LongerByTwo
<1>5. arrays' = [arrays EXCEPT ![T.hist] = u]
  BY <1>4 DEF Push
<1>6. \A l \in open : l \in OpenIn(T.hist)'
  <2>. TAKE l \in open
  <2>1. l[1] # t
    BY DEF OpenIn, OpenCall, At
  <2>. QED BY <1>1, <2>1, OpenAfter DEF IInv
<1>7. arrays[T.hist] = s
  OBVIOUS
<1>. HIDE DEF s, m, n, k, u, open
<1>8. Longer(s, m, v)
  BY <1>1, <1>2, LongerByOne
<1>9. Paired(v, open \cup {k})
  <2>1. m.role = "call" => NoResult(s, m.id) /\ m.id \in open \cup {k}
    BY <1>1, <1>3
  <2>2. m.role # "result" /\ s # <<>>
    BY <1>1, <1>3
  <2>. QED BY <1>1, <1>8, <2>1, <2>2, LongerIsPaired
<1>10. Pending(v, k) /\ NoResult(v, k)
  BY <1>1, <1>3, <1>8, LongerKeeps
<1>11. Longer(v, n, u)
  <2>1. v \in Seq(Message)
    BY <1>8 DEF Longer
  <2>. HIDE DEF v
  <2>. QED BY <1>2, <2>1, LongerByOne DEF u
<1>12. v # <<>>
  BY <1>8 DEF Longer
<1>. HIDE DEF v
<1>13. Paired(u, OpenIn(T.hist)')
  <2>1. n.role = "result" => NoResult(v, n.id) /\ Pending(v, n.id)
    BY <1>3, <1>10
  <2>2. n.role # "call"
    BY <1>3
  <2>3. \A l \in open \cup {k} : l \in OpenIn(T.hist)' \/ (n.role = "result" /\ n.id = l)
    BY <1>3, <1>6
  <2>. QED BY <1>9, <1>11, <1>12, <2>1, <2>2, <2>3, LongerIsPaired
<1>14. \A l \in Calls : l[1] # t /\ Pending(s, l) => Pending(u, l)
  BY <1>3, <1>8, <1>11, LongerKeeps
<1>15. u # <<>>
  BY <1>11 DEF Longer
<1>16. T.at # "tool"
  OBVIOUS
<1>. QED
  BY <1>1, <1>5, <1>7, <1>13, <1>14, <1>15, <1>16, WritesKeepHistories DEF IInv

\* The array of its key, or a new one, gets the user's message.
LEMMA BeginKeepsHistories ==
  ASSUME IInv, Histories, NEW t \in Turns, Chat(Begin(t))
  PROVE  Histories'
<1>1. turn[t] = None /\ Begin(t)
  BY DEF Chat, Begin
<1>2. PICK c \in Conversations, p \in Personas, h \in Turns :
        LET k == <<c, p>>
            T == [at |-> "complete", conv |-> c, as |-> p, key |-> k, hist |-> h, round |-> 0,
                  tool |-> None]
        IN /\ Goes(t, T)
           /\ k \in Keys
           /\ h = IF stored[k] = None THEN t ELSE stored[k]
           /\ arrays' = [arrays EXCEPT ![h] = Append(@, Said("user", t))]
           /\ raced' = IF stored[k] = None /\ \E u \in Turns : Running(u) /\ turn[u].key = k
                       THEN raced \cup {k}
                       ELSE raced
  BY <1>1, BeginGoes DEF IInv
<1>. DEFINE T == [at |-> "complete", conv |-> c, as |-> p, key |-> <<c, p>>, hist |-> h,
                  round |-> 0, tool |-> None]
            m == Said("user", t)
            s == arrays[h]
            u == s \o <<m>>
<1>3. Goes(t, T) /\ T.at = "complete" /\ T.hist = h
  BY <1>2
<1>4. m \in Message /\ m.role = "user" /\ MsgTurn(m) = t
  BY MessageTurns DEF Said, Message
<1>5. s \in Seq(Message) /\ Paired(s, OpenIn(h))
  BY DEF IInv, Types, TypeOK, ChatTypeOK, Histories
<1>6. arrays' = [arrays EXCEPT ![h] = u]
  BY <1>2, <1>4, <1>5, AppendOne
<1>. HIDE DEF T, m, s, u
<1>7. Longer(s, m, u)
  BY <1>4, <1>5, LongerByOne DEF u
<1>8. \A k \in OpenIn(h) : k \in OpenIn(h)'
  <2>. TAKE k \in OpenIn(h)
  <2>1. k \in Calls /\ k[1] # t
    BY <1>1 DEF OpenIn, OpenCall
  <2>. QED BY <1>1, <1>3, <2>1, OpenAfter DEF IInv
<1>9. Paired(u, OpenIn(h)')
  BY <1>4, <1>5, <1>7, <1>8, LongerIsPaired
<1>10. \A k \in Calls : k[1] # t /\ Pending(s, k) => Pending(u, k)
  BY <1>4, <1>7, LongerKeeps
<1>11. u # <<>>
  BY <1>7 DEF Longer
<1>12. arrays[T.hist] = s /\ T.at # "tool" /\ T.hist \in Turns
  BY <1>3 DEF s
<1>13. arrays' = [arrays EXCEPT ![T.hist] = u]
  BY <1>3, <1>6
<1>14. Paired(u, OpenIn(T.hist)')
  BY <1>3, <1>9
<1>. QED
  BY <1>1, <1>3, <1>10, <1>11, <1>12, <1>13, <1>14, WritesKeepHistories DEF IInv

LEMMA TurnStepKeepsHistories ==
  ASSUME IInv, Histories, NEW t \in Turns, TurnStep(t)
  PROVE  Histories'
<1>0. ASSUME Running(t), turn[t] # None
      PROVE  /\ Said("text", t) \in Message /\ CallOf(t) \in Message
             /\ \A ok \in BOOLEAN : ResultOf(t, ok) \in Message
  BY <1>0, TurnFacts DEF IInv
<1>1. CASE Chat(Answer(t))
  <2>1. At(t, "complete") /\ Push(t, <<Said("text", t)>>) /\ Goto(t, "answered")
    BY <1>1 DEF Chat, Answer
  <2>2. Running(t) /\ turn[t] # None /\ turn[t].at = "complete"
    BY <2>1 DEF At, Running
  <2>3. PICK T : /\ Goes(t, T) /\ T.at = "answered" /\ T.hist = turn[t].hist
    BY <2>1, <2>2, GotoGoes DEF IInv
  <2>4. MsgTurn(Said("text", t)) = t /\ Said("text", t).role = "text"
    BY MessageTurns DEF Said
  <2>. QED BY <1>0, <2>1, <2>2, <2>3, <2>4, SaysOne
<1>2. CASE ProviderFails(t) \/ LoseTool(t)
  <2>1. Running(t) /\ Goto(t, "failed") /\ arrays' = arrays
    BY <1>2 DEF ProviderFails, LoseTool, Chat, Throw
  <2>2. PICK T : /\ Goes(t, T) /\ T.at = "failed" /\ T.hist = turn[t].hist
                 /\ T.round = turn[t].round
    BY <2>1, GotoGoes DEF IInv
  <2>. QED BY <2>1, <2>2, SaysNothing
<1>3. CASE Chat(UnknownTool(t))
  <2>1. /\ At(t, "complete") /\ AfterResult(t)
        /\ Push(t, <<CallOf(t), ResultOf(t, FALSE)>>)
    BY <1>3 DEF Chat, UnknownTool
  <2>2. Running(t)
    BY <2>1 DEF Running
  <2>3. PICK T : Goes(t, T) /\ T.hist = turn[t].hist /\ T.at \in {"complete", "answered"}
    BY <2>1, <2>2, AfterResultGoes DEF IInv
  <2>. QED BY <2>1, <2>3, SaysTwo
<1>4. CASE StartTool(t)
  <2>1. PICK tl \in Tools : CallTool(t, tl)
    BY <1>4 DEF StartTool
  <2>2. At(t, "complete") /\ Push(t, <<CallOf(t)>>)
    BY <2>1 DEF CallTool
  <2>3. Running(t) /\ turn[t] # None /\ turn[t].at = "complete"
    BY <2>2 DEF At, Running
  <2>4. PICK T : /\ Goes(t, T) /\ T.at = "tool" /\ T.hist = turn[t].hist
                 /\ T.round = turn[t].round
    BY <2>1, CallToolGoes DEF IInv
  <2>5. MsgTurn(CallOf(t)) = t /\ CallOf(t).role = "call" /\ CallOf(t).id = ThisCall(t)
    BY MessageTurns
  <2>. QED BY <1>0, <2>2, <2>3, <2>4, <2>5, SaysOne
<1>5. CASE SignForTurn(t)
  <2>1. arrays' = arrays /\ turn' = turn
    BY <1>5 DEF SignForTurn, Tool, chatVars
  <2>. QED BY <2>1 DEF Histories, OpenIn, OpenCall, At, ThisCall
<1>6. CASE GetResult(t)
  <2>. DEFINE ok == job[ThisCall(t)].ok
  <2>1. /\ At(t, "tool") /\ AfterResult(t) /\ Push(t, <<ResultOf(t, ok)>>)
        /\ Receive(ThisCall(t))
    BY <1>6 DEF GetResult, ToolResult
  <2>2. Running(t) /\ turn[t] # None
    BY <2>1 DEF At, Running
  <2>3. PICK T : Goes(t, T) /\ T.hist = turn[t].hist /\ T.at \in {"complete", "answered"}
    BY <2>1, <2>2, AfterResultGoes DEF IInv
  <2>4. ok \in BOOLEAN
    BY <2>1, AtTool, ReceiveEffect DEF IInv
  <2>. HIDE DEF ok
  <2>. DEFINE m == ResultOf(t, ok)
  <2>5. m \in Message /\ MsgTurn(m) = t /\ m.role = "result" /\ m.id = ThisCall(t)
    BY <1>0, <2>2, <2>4, MessageTurns
  <2>6. Push(t, <<m>>)
    BY <2>1
  <2>. HIDE DEF m
  <2>. QED BY <2>1, <2>2, <2>3, <2>5, <2>6, SaysOne
<1>. QED BY <1>1, <1>2, <1>3, <1>4, <1>5, <1>6 DEF TurnStep

LEMMA NextKeepsHistories == IInv /\ Histories /\ [Next]_vars => Histories'
<1>. SUFFICES ASSUME IInv, Histories, [Next]_vars
     PROVE  Histories'
  OBVIOUS
<1>1. ASSUME arrays' = arrays, turn' = turn
      PROVE  Histories'
  BY <1>1 DEF Histories, OpenIn, OpenCall, At, ThisCall
<1>2. CASE UNCHANGED vars
  BY <1>1, <1>2 DEF vars, chatVars
<1>3. ASSUME NEW t \in Turns, Chat(Begin(t)) \/ TurnStep(t)
      PROVE  Histories'
  BY <1>3, BeginKeepsHistories, TurnStepKeepsHistories
<1>4. ASSUME NEW k \in Calls, Tool(Serve(k))
      PROVE  Histories'
  BY <1>1, <1>4 DEF Tool, chatVars
<1>5. ASSUME NEW c \in Creds, Tool(Revoke(c))
      PROVE  Histories'
  BY <1>1, <1>5 DEF Tool, chatVars
<1>. QED BY <1>2, <1>3, <1>4, <1>5 DEF Next

LEMMA HistoriesInvariance == Spec => []Histories
BY Invariance, InitHistories, NextKeepsHistories, PTL DEF Spec

(***************************************************************************)
(* The theorems.                                                           *)
(***************************************************************************)
\* The type invariant: histories hold messages, a running turn is within its
\* rounds, and a tool call is at a step of the caller and of the server.
THEOREM TypeCorrect == Spec => []TypeOK
BY Invariance, PTL DEF IInv, Types

\* registerGuardedTool: whatever credentials are revoked when, and however the
\* turns and calls interleave, a tool runs only for a call whose credential was
\* good on arrival and has the tool's scope.
THEOREM AuthorizedRuns == Spec => RunsAreAuthorized
<1>. DEFINE A == \A k \in ran' \ ran :
                    /\ job[k].fresh
                    /\ Needs[job[k].tool] \in ScopesOf[job[k].vp]
                    /\ job[k].verified \/ Delegated(job[k].vp)
<1>1. ASSUME IInv, [Next]_vars
      PROVE  [A]_vars
  <2>1. ASSUME NEW l \in ran', l \notin ran
        PROVE  /\ job[l].fresh
               /\ Needs[job[l].tool] \in ScopesOf[job[l].vp]
               /\ job[l].verified \/ Delegated(job[l].vp)
    <3>1. CASE ran' = ran
      BY <2>1, <3>1
    <3>2. ASSUME NEW k \in Calls, Run(k)
          PROVE  /\ job[l].fresh
                 /\ Needs[job[l].tool] \in ScopesOf[job[l].vp]
                 /\ job[l].verified \/ Delegated(job[l].vp)
      <4>1. l = k /\ job[k] # None /\ job[k].at = "run"
        BY <2>1, <3>2 DEF Run, JobAt
      <4>2. job[k] \in Job
        BY <1>1, <4>1, JobFacts DEF IInv, ToolInv, ToolTypeOK
      <4>3. Checked(job[k])
        BY <1>1, <4>2 DEF IInv, ToolInv, JobsAreChecked
      <4>. QED BY <4>1, <4>3 DEF Checked
    <3>3. ran' = ran \/ \E k \in Calls : Run(k)
      <4>1. CASE UNCHANGED vars
        BY <4>1 DEF vars, toolVars
      <4>2. ASSUME NEW t \in Turns, Chat(Begin(t)) \/ TurnStep(t)
            PROVE  ran' = ran
        BY <4>2 DEF Chat, Tool, toolVars, TurnStep, ProviderFails, StartTool, Make, SignForTurn,
           Sign, LoseTool, Lose, GetResult, Receive
      <4>3. ASSUME NEW k \in Calls, Tool(Serve(k))
            PROVE  ran' = ran \/ Run(k)
        BY <4>3 DEF Tool, Serve, Verified, Unverified, Pass, Deny
      <4>4. ASSUME NEW c \in Creds, Tool(Revoke(c))
            PROVE  ran' = ran
        BY <4>4 DEF Tool, Revoke
      <4>. QED BY <1>1, <4>1, <4>2, <4>3, <4>4 DEF Next
    <3>. QED BY <3>1, <3>2, <3>3
  <2>. QED BY <2>1
<1>. QED
  BY <1>1, Invariance, PTL DEF Spec, RunsAreAuthorized

\* runChatTurn and callProtectedTool: what the model reads in a history about a
\* tool agrees with whether the server ran it, although the two are connected by
\* requests that are lost and turns share their histories.
THEOREM ToldResults == Spec => []ResultsTellRuns
<1>1. ASSUME IInv
      PROVE  ResultsTellRuns
  <2>1. ASSUME NEW a \in Turns, NEW i \in DOMAIN arrays[a], arrays[a][i].role = "result"
        PROVE  arrays[a][i].ok <=> arrays[a][i].id \in ran
    <3>1. Has(a, arrays[a][i])
      BY DEF Has, In
    <3>. QED BY <1>1, <2>1, <3>1, OldMessages DEF ResultIsFinal
  <2>2. ASSUME NEW k \in ran
        PROVE  \/ \E i \in DOMAIN arrays[turn[k[1]].hist] :
                    /\ arrays[turn[k[1]].hist][i].role = "result"
                    /\ arrays[turn[k[1]].hist][i].id = k
               \/ turn[k[1]].at \in {"tool", "failed"} /\ ThisCall(k[1]) = k
    <3>1. k \in Calls /\ k = <<k[1], k[2]>> /\ RunIsTold(k)
      BY <1>1, <2>2, OldRuns, CallFacts
    <3>. QED BY <3>1 DEF RunIsTold, Has, In, ThisCall
  <2>. QED BY <2>1, <2>2 DEF ResultsTellRuns
<1>. QED
  BY <1>1, Invariance, PTL

\* The /chat handler: an answered turn's exchange is in the history that the
\* next turn of its key will find, unless two turns were first together.
THEOREM RememberedAnswers == Spec => []AnsweredIsRemembered
<1>1. ASSUME IInv
      PROVE  AnsweredIsRemembered
  BY <1>1 DEF IInv, StoredIsShared, AnsweredIsRemembered, At
<1>. QED
  BY <1>1, Invariance, PTL

\* runChatTurn: the history that a provider is sent begins with the user, has
\* one result for every tool call that is not running or was not lost, and has
\* the result after its call with only other turns' messages between them.
THEOREM PairedResults == Spec => []ResultsFollowCalls
<1>1. ASSUME IInv, Histories
      PROVE  ResultsFollowCalls
  <2>. SUFFICES ASSUME NEW a \in Turns, NEW i \in DOMAIN arrays[a]
       PROVE  LET b == toAnthropicMessages(arrays[a]) IN
              /\ b[1] = [from |-> "user", is |-> "text"]
              /\ b[i].is = "tool_use" =>
                  LET t == b[i].id[1]
                      found == Results(b, b[i].id)
                  IN \/ Cardinality(found) = 1
                     \/ /\ found = {} /\ turn[t].at \in {"tool", "failed"}
                        /\ ThisCall(t) = b[i].id
              /\ b[i].is = "tool_result" =>
                  \E j \in 1 .. i - 1 :
                      /\ b[j].is = "tool_use" /\ b[j].id = b[i].id
                      /\ \A n \in j + 1 .. i - 1 : MsgTurn(arrays[a][n]) # MsgTurn(arrays[a][i])
    BY DEF ResultsFollowCalls, toAnthropicMessages
  <2>. DEFINE s == arrays[a]
              b == toAnthropicMessages(s)
  <2>1. s \in Seq(Message) /\ Paired(s, OpenIn(a))
    BY <1>1 DEF IInv, Types, TypeOK, ChatTypeOK, Histories
  <2>2. /\ DOMAIN s = 1 .. Len(s) /\ Len(s) \in Nat /\ i \in 1 .. Len(s)
        /\ \A n \in DOMAIN s : s[n] \in Message
    BY <2>1
  <2>3. /\ DOMAIN b = DOMAIN s
        /\ \A n \in DOMAIN s :
            /\ s[n].role = "call" => b[n].is = "tool_use" /\ b[n].id = s[n].id
            /\ s[n].role = "result" => b[n].is = "tool_result" /\ b[n].id = s[n].id
            /\ s[n].role \in {"user", "text"} => b[n].is = "text"
            /\ s[n].role = "user" => b[n] = [from |-> "user", is |-> "text"]
    BY DEF toAnthropicMessages
  <2>4. /\ \A m \in Message : m.role \in {"user", "text", "call", "result"}
        /\ \A m \in Message : m.role \in {"call", "result"} => m.id \in Calls /\ MsgTurn(m) = m.id[1]
    BY ConciergeAssumption DEF Message, MsgTurn
  <2>. HIDE DEF s, b
  <2>5. b[1] = [from |-> "user", is |-> "text"]
    <3>1. s # <<>> /\ 1 \in DOMAIN s
      BY <2>2
    <3>. QED BY <2>1, <2>3, <3>1 DEF Paired, Opened
  <2>6. ASSUME b[i].is = "tool_use"
        PROVE  \/ Cardinality(Results(b, b[i].id)) = 1
               \/ /\ Results(b, b[i].id) = {} /\ turn[b[i].id[1]].at \in {"tool", "failed"}
                  /\ ThisCall(b[i].id[1]) = b[i].id
    <3>. DEFINE k == b[i].id
    <3>1. s[i].role = "call" /\ s[i].id = k /\ k \in Calls
      BY <2>2, <2>3, <2>4, <2>6
    <3>. HIDE DEF k
    <3>2. \A n \in DOMAIN s : n \in Results(b, k) <=> ResultAt(s, n, k)
      BY <2>2, <2>3, <2>4 DEF Results, ResultAt
    <3>3. Results(b, k) \subseteq DOMAIN s
      BY <2>3 DEF Results
    <3>4. OneResult(s, k) \/ (NoResult(s, k) /\ k \in OpenIn(a))
      BY <2>1, <2>2, <3>1 DEF Paired, CallsHaveResults, CallAt
    <3>5. CASE OneResult(s, k)
      <4>1. PICK j \in DOMAIN s : \A n \in DOMAIN s : ResultAt(s, n, k) <=> n = j
        BY <3>5 DEF OneResult
      <4>2. Results(b, k) = {j}
        BY <3>2, <3>3, <4>1
      <4>. QED BY <4>2, FS_Singleton DEF k
    <3>6. CASE NoResult(s, k) /\ k \in OpenIn(a)
      <4>1. Results(b, k) = {}
        BY <3>2, <3>3, <3>6 DEF NoResult
      <4>2. turn[k[1]].at \in {"tool", "failed"} /\ ThisCall(k[1]) = k
        BY <3>1, <3>6, CallFacts DEF OpenIn, OpenCall, ThisCall
      <4>. QED BY <4>1, <4>2 DEF k
    <3>. QED BY <3>4, <3>5, <3>6
  <2>7. ASSUME b[i].is = "tool_result"
        PROVE  \E j \in 1 .. i - 1 :
                  /\ b[j].is = "tool_use" /\ b[j].id = b[i].id
                  /\ \A n \in j + 1 .. i - 1 : MsgTurn(s[n]) # MsgTurn(s[i])
    <3>1. s[i].role = "result" /\ s[i].id = b[i].id /\ s[i].id \in Calls
          /\ MsgTurn(s[i]) = s[i].id[1]
      BY <2>2, <2>3, <2>4, <2>7
    <3>2. PICK j \in 1 .. i - 1 :
            CallAt(s, j, s[i].id) /\ \A n \in j + 1 .. i - 1 : MsgTurn(s[n]) # s[i].id[1]
      BY <2>1, <2>2, <3>1 DEF Paired, ResultsHaveCalls, ResultAt
    <3>3. b[j].is = "tool_use" /\ b[j].id = b[i].id
      BY <2>3, <3>1, <3>2 DEF CallAt
    <3>. QED BY <3>1, <3>2, <3>3
  <2>. QED BY <2>5, <2>6, <2>7 DEF b, s
<1>. QED
  BY <1>1, Invariance, HistoriesInvariance, PTL
=============================================================================
